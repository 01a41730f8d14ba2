------------------------- MODULE VendorRuntimeProofs -------------------------
(***************************************************************************)
(* Proofs about VendorRuntime, for any number of handlers, compilations,   *)
(* containers, calls and faults: no container runs that nobody would       *)
(* remove, a call is stored once, and a ledger summary tells the truth.    *)
(*                                                                         *)
(* The first argument is about the one container name of the vendor.       *)
(* While the run is under way a vendor that has a runtime, or a handler    *)
(* that is about to lease one, means that the name is taken, so that       *)
(* docker refuses every other start; a handler whose container is up but   *)
(* not yet stored is alone.                                                *)
(*                                                                         *)
(* The second is about the ledger.  What a reading of a log has paired     *)
(* stays paired while the log grows, so two readings of a call that both   *)
(* have its summary have one key; a container belongs to one VendorState,  *)
(* and the mark in that state precedes the write.                          *)
(***************************************************************************)
EXTENDS VendorRuntime, FiniteSetTheorems, TLAPS

IsList(s) == \E S : s \in Seq(S)
VendorFields == {"runtime", "leased", "recorded", "stopped"}
HandlerFields == {"op", "step", "gen", "c", "todo", "all", "aborted"}

\* The steps at which a handler has a container that it has not leased.
Holding == {"waiting", "ready", "leasing"}

VendorOK(v) ==
  /\ DOMAIN v = VendorFields /\ v.leased \in BOOLEAN
  /\ v.runtime \in {0} \cup DOMAIN containers /\ v.stopped \subseteq DOMAIN containers
VendorTypes == IsList(vendors) /\ \A g \in DOMAIN vendors : VendorOK(vendors[g])

HandlerOK(h) ==
  /\ DOMAIN at[h] = HandlerFields
  /\ at[h].step \in Holding \cup {"docker-run"} => at[h].gen \in DOMAIN vendors
  /\ at[h].step \in Holding => at[h].c \in DOMAIN containers
HandlerTypes == DOMAIN at = Attempt /\ \A h \in Attempt : HandlerOK(h)

ContainerTypes == containers \in Seq({"running", "removed"})

\* The signal of a start that outlives its run is aborted.
SignalInv ==
  phase # "running" => \A h \in Attempt : Heeds(h) => at[h].aborted

\* A runtime that was stopped does not run, unless docker failed to remove it.
StoppedInv ==
  \A g \in DOMAIN vendors : \A c \in vendors[g].stopped : containers[c] # "running" \/ c \in forgotten

Unused(g) == vendors[g].runtime = 0 /\ ~vendors[g].leased

\* While the run is under way, the name is taken once a vendor or a handler has a runtime.
NameInv ==
  phase = "running" =>
    /\ (\E g \in DOMAIN vendors : ~Unused(g)) => nameTaken
    /\ \A h \in Attempt : at[h].step = "leasing" => nameTaken
    /\ \A h \in Attempt : at[h].step \in {"waiting", "ready"} => containers[at[h].c] = "running"

\* A handler whose container may yet be stored in a vendor: it is alone.
Fresh(h) == at[h].step = "ready" \/ (at[h].step = "waiting" /\ phase = "running")

FreshInv ==
  \A h \in Attempt : Fresh(h) =>
    /\ \A g \in DOMAIN vendors : Unused(g)
    /\ \A k \in Attempt : k # h => ~Fresh(k) /\ at[k].step # "leasing"

IInv ==
  /\ VendorTypes /\ HandlerTypes /\ ContainerTypes
  /\ SignalInv /\ StoppedInv /\ NameInv /\ FreshInv /\ NoContainerUnaccounted

LEMMA InitInv ==
  ASSUME Init
  PROVE  IInv
<1>1. vendors \in Seq({})
  BY DEF Init
<1>2. VendorTypes /\ DOMAIN vendors = {}
  BY <1>1 DEF VendorTypes, IsList, Init
<1>3. HandlerTypes
  BY DEF Init, HandlerTypes, HandlerOK, Idle, HandlerFields, Holding
<1>4. ContainerTypes /\ DOMAIN containers = {}
  BY DEF Init, ContainerTypes
<1> QED
  BY <1>2, <1>3, <1>4 DEF Init, IInv, SignalInv, StoppedInv, NameInv, FreshInv, Fresh, Idle,
     NoContainerUnaccounted
-----------------------------------------------------------------------------
(* Lists.                                                                  *)

LEMMA ListFacts ==
  ASSUME NEW s, IsList(s)
  PROVE  Len(s) \in Nat /\ DOMAIN s = 1..Len(s)
  BY DEF IsList

LEMMA ListUpdate ==
  ASSUME NEW s, IsList(s), NEW t, DOMAIN t = DOMAIN s, t = [g \in DOMAIN t |-> t[g]]
  PROVE  IsList(t)
<1>1. t \in Seq({t[g] : g \in DOMAIN t})
  BY ListFacts
<1> QED
  BY <1>1 DEF IsList

LEMMA ListAppend ==
  ASSUME NEW s, IsList(s), NEW x
  PROVE  /\ IsList(Append(s, x)) /\ DOMAIN Append(s, x) = 1..(Len(s) + 1)
         /\ Append(s, x)[Len(s) + 1] = x /\ \A i \in 1..Len(s) : Append(s, x)[i] = s[i]
<1>1. PICK S : s \in Seq(S)
  BY DEF IsList
<1>2. s \in Seq(S \cup {x})
  BY <1>1
<1>3. Append(s, x) \in Seq(S \cup {x})
  BY <1>2
<1> QED
  BY <1>2, <1>3 DEF IsList
-----------------------------------------------------------------------------
(* Steps that touch no container.                                          *)

\* The vendors are as they were, but for new ones and for the calls they recorded.
SameVendors ==
  /\ IsList(vendors') /\ DOMAIN vendors \subseteq DOMAIN vendors'
  /\ \A g \in DOMAIN vendors' :
       /\ DOMAIN vendors'[g] = VendorFields
       /\ g \in DOMAIN vendors =>
            /\ vendors'[g].runtime = vendors[g].runtime /\ vendors'[g].leased = vendors[g].leased
            /\ vendors'[g].stopped = vendors[g].stopped
       /\ g \notin DOMAIN vendors =>
            vendors'[g].runtime = 0 /\ vendors'[g].leased = FALSE /\ vendors'[g].stopped = {}

Others(h) == DOMAIN at' = Attempt /\ \A k \in Attempt : k # h => at'[k] = at[k]

LEMMA SameVendorsKept ==
  ASSUME VendorTypes, UNCHANGED vendors
  PROVE  SameVendors
  BY DEF VendorTypes, SameVendors, VendorOK

LEMMA BenignStep ==
  ASSUME IInv, NEW h \in Attempt, SameVendors, Others(h),
         UNCHANGED <<containers, forgotten, leases, unleased>>,
         phase' = "running" <=> phase = "running",
         DOMAIN at'[h] = HandlerFields,
         at[h].step \notin Holding, at'[h].step \notin Holding,
         at'[h].step = "docker-run" =>
           at'[h].gen \in DOMAIN vendors' /\ (phase # "running" => at'[h].aborted)
  PROVE  IInv'
<1>1. VendorTypes'
  BY DEF IInv, VendorTypes, VendorOK, SameVendors
<1>2. HandlerTypes'
  BY DEF IInv, HandlerTypes, HandlerOK, Others, SameVendors
<1>3. ContainerTypes' /\ StoppedInv'
  BY DEF IInv, ContainerTypes, StoppedInv, SameVendors
<1>4. SignalInv'
  BY DEF IInv, SignalInv, Heeds, Others, Holding
<1>5. \A g \in DOMAIN vendors' : Unused(g)' <=> (g \in DOMAIN vendors => Unused(g))
  BY DEF SameVendors, Unused
<1>6. \A k \in Attempt : /\ Fresh(k)' <=> Fresh(k)
                         /\ at'[k].step = "leasing" <=> at[k].step = "leasing"
                         /\ at'[k].step \in Holding <=> at[k].step \in Holding
  BY DEF Fresh, Others, Holding
<1>7. NameInv'
  <2>1. nameTaken' <=> nameTaken
    BY DEF nameTaken
  <2> QED
    BY <1>5, <1>6, <2>1 DEF IInv, NameInv, Others, Holding, SameVendors
<1>8. FreshInv'
  BY <1>5, <1>6 DEF IInv, FreshInv
<1>9. NoContainerUnaccounted'
  <2> SUFFICES ASSUME NEW c \in DOMAIN containers, containers[c] = "running",
                      c \notin leases \cup forgotten \cup unleased
               PROVE  \E k \in Attempt : at'[k].c = c /\ at'[k].step \in Holding
    BY DEF NoContainerUnaccounted, Holding
  <2>1. PICK k \in Attempt : at[k].c = c /\ at[k].step \in Holding
    BY DEF IInv, NoContainerUnaccounted, Holding
  <2> QED
    BY <2>1 DEF Others
<1> QED
  BY <1>1, <1>2, <1>3, <1>4, <1>7, <1>8, <1>9 DEF IInv

LEMMA IdleFacts ==
  /\ DOMAIN Idle = HandlerFields /\ Idle.step = "idle" /\ Idle.aborted = FALSE
  /\ Idle.step \notin Holding /\ Idle.step # "docker-run"
  BY DEF Idle, HandlerFields, Holding

LEMMA GoesFacts ==
  ASSUME HandlerTypes, NEW h \in Attempt, NEW s, Goes(h, s)
  PROVE  /\ Others(h) /\ DOMAIN at'[h] = HandlerFields /\ at'[h].step = s
         /\ at'[h].gen = at[h].gen /\ at'[h].c = at[h].c /\ at'[h].aborted = at[h].aborted
  BY DEF HandlerTypes, HandlerOK, Goes, Others, HandlerFields

LEMMA EndsFacts ==
  ASSUME HandlerTypes, NEW h \in Attempt, Ends(h)
  PROVE  Others(h) /\ at'[h] = Idle
  BY DEF HandlerTypes, HandlerOK, Ends, Others

LEMMA EndsStep ==
  ASSUME IInv, NEW h \in Attempt, Ends(h), UNCHANGED <<vendors, containers, forgotten, leases, unleased, phase>>,
         at[h].step \notin Holding
  PROVE  IInv'
  BY EndsFacts, IdleFacts, SameVendorsKept, BenignStep DEF IInv

LEMMA BeginsFacts ==
  ASSUME HandlerTypes, NEW h \in Attempt, NEW op, NEW step, NEW c, Begins(h, op, step, c)
  PROVE  /\ Others(h) /\ DOMAIN at'[h] = HandlerFields /\ at'[h].step = step /\ at'[h].c = c
         /\ at'[h].gen = Len(vendors) /\ at'[h].aborted = FALSE /\ at[h].step = "idle"
         /\ phase = "running" /\ UNCHANGED <<containers, forgotten, leases, unleased, phase>>
<1>1. /\ at' = [at EXCEPT ![h] = [Idle EXCEPT !.op = op, !.step = step,
                                              !.gen = Len(vendors), !.c = c]]
      /\ at[h] = Idle /\ phase = "running"
      /\ UNCHANGED <<containers, forgotten, leases, unleased, phase>>
  BY DEF Begins, docker, database
<1>2. Others(h)
  BY <1>1 DEF HandlerTypes, Others
<1>3. at'[h] = [Idle EXCEPT !.op = op, !.step = step, !.gen = Len(vendors), !.c = c]
  BY <1>1 DEF HandlerTypes
<1>4. PICK r : r = [Idle EXCEPT !.op = op, !.step = step, !.gen = Len(vendors), !.c = c]
  OBVIOUS
<1>5. DOMAIN r = HandlerFields /\ r.step = step /\ r.c = c /\ r.gen = Len(vendors) /\ r.aborted = FALSE
  BY <1>4 DEF Idle, HandlerFields
<1> QED
  BY <1>1, <1>2, <1>3, <1>4, <1>5, IdleFacts

LEMMA CompileStep ==
  ASSUME IInv, NEW h \in Attempt, Compile(h)
  PROVE  IInv'
<1>1. PICK op, step, c : Begins(h, op, step, c) /\ UNCHANGED vendors /\ step = "compiling"
  BY DEF Compile, platform
<1>2. HandlerTypes /\ VendorTypes
  BY DEF IInv
<1>3. /\ Others(h) /\ DOMAIN at'[h] = HandlerFields /\ at'[h].step = step /\ at[h].step = "idle"
      /\ UNCHANGED <<containers, forgotten, leases, unleased, phase>>
  BY <1>1, <1>2, BeginsFacts
<1> QED
  BY <1>1, <1>2, <1>3, SameVendorsKept, BenignStep DEF Holding

LEMMA CollectStep ==
  ASSUME IInv, NEW h \in Attempt, NEW op, NEW step \in {"logs", "snapshot"}, Collect(h, op, step)
  PROVE  IInv'
<1>1. PICK c : Begins(h, op, step, c) /\ UNCHANGED vendors
  BY DEF Collect
<1> QED
  BY <1>1, BeginsFacts, SameVendorsKept, BenignStep DEF IInv, Holding

LEMMA CompiledStep ==
  ASSUME IInv, NEW h \in Attempt, Compiled(h)
  PROVE  IInv'
<1>1. /\ at[h].step = "compiling" /\ vendors' = Append(vendors, NewVendor) /\ Goes(h, "artifacts")
      /\ UNCHANGED <<containers, forgotten, leases, unleased, phase>>
  BY DEF Compiled, handlersOnly, docker, database
<1>2. SameVendors
  <2>1. IsList(vendors) /\ \A g \in DOMAIN vendors : DOMAIN vendors[g] = VendorFields
    BY DEF IInv, VendorTypes, VendorOK
  <2>2. PICK s, x : s = vendors /\ x = NewVendor
    OBVIOUS
  <2>3. PICK t : t = Append(s, x)
    OBVIOUS
  <2>4. /\ IsList(Append(s, x)) /\ DOMAIN Append(s, x) = 1..(Len(s) + 1)
        /\ Append(s, x)[Len(s) + 1] = x /\ \A i \in 1..Len(s) : Append(s, x)[i] = s[i]
    BY <2>1, <2>2, ListAppend
  <2>5. DOMAIN s = 1..Len(s) /\ Len(s) \in Nat
    BY <2>1, <2>2, ListFacts
  <2>6. /\ DOMAIN NewVendor = VendorFields /\ NewVendor.runtime = 0
        /\ NewVendor.leased = FALSE /\ NewVendor.stopped = {}
    BY DEF NewVendor, VendorFields
  <2>7. vendors' = t
    BY <1>1, <2>2, <2>3
  <2>8. /\ IsList(t) /\ DOMAIN t = 1..(Len(s) + 1) /\ t[Len(s) + 1] = x
        /\ \A i \in 1..Len(s) : t[i] = s[i]
    BY <2>3, <2>4
  <2> QED
    BY <2>1, <2>2, <2>5, <2>6, <2>7, <2>8 DEF SameVendors
<1> QED
  BY <1>1, <1>2, GoesFacts, BenignStep DEF IInv, Holding

LEMMA CompileFailsStep ==
  ASSUME IInv, NEW h \in Attempt, CompileFails(h) \/ Recorded(h)
  PROVE  IInv'
  BY EndsStep DEF CompileFails, Recorded, platform, handlersOnly, docker, database, Holding

LEMMA SnapshotStep ==
  ASSUME IInv, NEW h \in Attempt, NEW ok \in BOOLEAN, SnapshotRead(h, ok)
  PROVE  IInv'
<1>1. /\ at[h].step = "snapshot" /\ UNCHANGED <<vendors, containers, forgotten, leases, unleased, phase>>
      /\ Goes(h, "observing") \/ Ends(h)
  BY DEF SnapshotRead, platform, handlersOnly, docker, database
<1>2. CASE Ends(h)
  BY <1>1, <1>2, EndsStep DEF Holding
<1>3. CASE Goes(h, "observing")
  BY <1>1, <1>3, GoesFacts, SameVendorsKept, BenignStep DEF IInv, Holding
<1> QED
  BY <1>1, <1>2, <1>3

LEMMA LogsReadStep ==
  ASSUME IInv, NEW h \in Attempt, NEW works \in BOOLEAN, LogsRead(h, works)
  PROVE  IInv'
<1>1. /\ at[h].step = "logs" /\ UNCHANGED <<vendors, containers, forgotten, leases, unleased, phase>>
      /\ \E e, a : at' = [at EXCEPT ![h].step = "recording", ![h].todo = e, ![h].all = a]
  <2>1. \E e, a : at' = [at EXCEPT ![h].step = "recording", ![h].todo = e, ![h].all = a]
    <3>1. PICK lines : LET entries == parseProviderCallLedger(lines)
                       IN at' = [at EXCEPT ![h].step = "recording", ![h].todo = entries,
                                           ![h].all = {entries[i].call : i \in DOMAIN entries}]
      BY DEF LogsRead
    <3>2. PICK e, a : /\ e = parseProviderCallLedger(lines)
                      /\ a = {parseProviderCallLedger(lines)[i].call : i \in DOMAIN parseProviderCallLedger(lines)}
      OBVIOUS
    <3> QED
      BY <3>1, <3>2
  <2>2. at[h].step = "logs" /\ UNCHANGED <<vendors, containers, forgotten, leases, unleased, phase>>
    BY DEF LogsRead, platform, handlersOnly, docker, database
  <2> QED
    BY <2>1, <2>2
<1>2. Others(h) /\ DOMAIN at'[h] = HandlerFields /\ at'[h].step = "recording"
  BY <1>1 DEF IInv, HandlerTypes, HandlerOK, Others, HandlerFields
<1> QED
  BY <1>1, <1>2, SameVendorsKept, BenignStep DEF IInv, Holding

LEMMA RecordNextStep ==
  ASSUME IInv, NEW h \in Attempt, RecordNext(h)
  PROVE  IInv'
<1>1. /\ at[h].step = "recording" /\ UNCHANGED <<containers, forgotten, leases, unleased, phase>>
      /\ \E g, m : vendors' = [vendors EXCEPT ![g].recorded = m]
      /\ \E t : at' = [at EXCEPT ![h].step = "writing", ![h].todo = t]
  BY DEF RecordNext, handlersOnly, docker, database
<1>2. Others(h) /\ DOMAIN at'[h] = HandlerFields /\ at'[h].step = "writing"
  BY <1>1 DEF IInv, HandlerTypes, HandlerOK, Others, HandlerFields
<1>3. SameVendors
  <2>1. PICK g, m : vendors' = [vendors EXCEPT ![g].recorded = m]
    BY <1>1
  <2>2. DOMAIN vendors' = DOMAIN vendors /\ vendors' = [k \in DOMAIN vendors' |-> vendors'[k]]
    BY <2>1
  <2>3. IsList(vendors')
    <3>1. PICK s : s = vendors
      OBVIOUS
    <3>2. PICK t : t = vendors'
      OBVIOUS
    <3>3. IsList(t)
      BY <2>2, <3>1, <3>2, ListUpdate DEF IInv, VendorTypes
    <3> QED
      BY <3>2, <3>3
  <2> QED
    BY <2>1, <2>2, <2>3 DEF SameVendors, IInv, VendorTypes, VendorOK, VendorFields
<1> QED
  BY <1>1, <1>2, <1>3, BenignStep DEF IInv, Holding

LEMMA CallWrittenStep ==
  ASSUME IInv, NEW h \in Attempt, NEW ok \in BOOLEAN, CallWritten(h, ok)
  PROVE  IInv'
<1>1. /\ at[h].step = "writing" /\ UNCHANGED <<vendors, containers, forgotten, leases, unleased, phase>>
      /\ Ends(h) \/ \E t : at' = [at EXCEPT ![h].step = "recording", ![h].todo = t]
  BY DEF CallWritten, platform, docker
<1>2. CASE Ends(h)
  BY <1>1, <1>2, EndsStep DEF Holding
<1>3. CASE \E t : at' = [at EXCEPT ![h].step = "recording", ![h].todo = t]
  <2>1. Others(h) /\ DOMAIN at'[h] = HandlerFields /\ at'[h].step = "recording"
    BY <1>3 DEF IInv, HandlerTypes, HandlerOK, Others, HandlerFields
  <2> QED
    BY <1>1, <2>1, SameVendorsKept, BenignStep DEF IInv, Holding
<1> QED
  BY <1>1, <1>2, <1>3

LEMMA SummariseStep ==
  ASSUME IInv, NEW h \in Attempt, Summarise(h)
  PROVE  IInv'
  BY EndsStep DEF Summarise, platform, docker, bounds, Holding

\* The calls a container serves, and the end of the cleanups, concern no handler.
LEMMA QuietStep ==
  ASSUME IInv, UNCHANGED <<vendors, containers, at, leases, unleased, forgotten>>,
         phase' = "running" <=> phase = "running"
  PROVE  IInv'
<1>1. VendorTypes' /\ HandlerTypes' /\ ContainerTypes'
  BY DEF IInv, VendorTypes, VendorOK, HandlerTypes, HandlerOK, ContainerTypes
<1>2. SignalInv' /\ StoppedInv' /\ NoContainerUnaccounted'
  BY DEF IInv, SignalInv, Heeds, StoppedInv, NoContainerUnaccounted
<1>3. NameInv'
  BY DEF IInv, NameInv, Unused, nameTaken
<1>4. FreshInv'
  BY DEF IInv, FreshInv, Fresh, Unused
<1> QED
  BY <1>1, <1>2, <1>3, <1>4 DEF IInv

-----------------------------------------------------------------------------
(* Starting a runtime.                                                     *)

\* Handler h takes up, keeps or stores a container; no container is started or removed.
LEMMA HolderStep ==
  ASSUME IInv, NEW h \in Attempt, Others(h), VendorTypes', HandlerOK(h)',
         UNCHANGED <<containers, forgotten, leases, unleased, phase>>,
         DOMAIN vendors \subseteq DOMAIN vendors',
         \A g \in DOMAIN vendors' : vendors'[g].stopped \subseteq
           (IF g \in DOMAIN vendors THEN vendors[g].stopped ELSE {}),
         Heeds(h)' /\ phase # "running" => at'[h].aborted,
         at[h].step \in Holding => at'[h].step \in Holding /\ at'[h].c = at[h].c,
         NameInv', FreshInv'
  PROVE  IInv'
<1>1. HandlerTypes'
  BY DEF IInv, HandlerTypes, HandlerOK, Others
<1>2. ContainerTypes' /\ StoppedInv'
  BY DEF IInv, ContainerTypes, StoppedInv
<1>3. SignalInv'
  BY DEF IInv, SignalInv, Heeds, Others
<1>4. NoContainerUnaccounted'
  <2> SUFFICES ASSUME NEW c \in DOMAIN containers, containers[c] = "running",
                      c \notin leases \cup forgotten \cup unleased
               PROVE  \E k \in Attempt : at'[k].c = c /\ at'[k].step \in Holding
    BY DEF NoContainerUnaccounted, Holding
  <2>1. PICK k \in Attempt : at[k].c = c /\ at[k].step \in Holding
    BY DEF IInv, NoContainerUnaccounted, Holding
  <2> QED
    BY <2>1 DEF Others
<1> QED
  BY <1>1, <1>2, <1>3, <1>4 DEF IInv

LEMMA LastVendor ==
  ASSUME VendorTypes, vendors # <<>>
  PROVE  Len(vendors) \in DOMAIN vendors /\ Last(vendors) = vendors[Len(vendors)]
<1>1. PICK S : vendors \in Seq(S)
  BY DEF VendorTypes, IsList
<1> QED
  BY <1>1 DEF Last

LEMMA StartRuntimeStep ==
  ASSUME IInv, NEW h \in Attempt, StartRuntime(h)
  PROVE  IInv'
<1>0. VendorTypes /\ HandlerTypes
  BY DEF IInv
<1>1. PICK g \in DOMAIN vendors : g = Len(vendors) /\ Last(vendors) = vendors[g]
  BY <1>0, LastVendor DEF StartRuntime
<1>2. PICK op, step, c : /\ Begins(h, op, step, c) /\ UNCHANGED vendors /\ c = vendors[g].runtime
                         /\ step = IF vendors[g].runtime = 0 THEN "docker-run"
                                   ELSE IF ~vendors[g].leased THEN "leasing" ELSE "observing"
  BY <1>1 DEF StartRuntime
<1>3. /\ Others(h) /\ DOMAIN at'[h] = HandlerFields /\ at'[h].step = step /\ at'[h].c = c
      /\ at'[h].gen = g /\ at[h].step = "idle"
      /\ phase = "running" /\ UNCHANGED <<containers, forgotten, leases, unleased, phase>>
  <2>1. Begins(h, op, step, c)
    BY <1>2
  <2>2. /\ Others(h) /\ DOMAIN at'[h] = HandlerFields /\ at'[h].step = step /\ at'[h].c = c
        /\ at'[h].gen = Len(vendors) /\ at[h].step = "idle"
        /\ phase = "running" /\ UNCHANGED <<containers, forgotten, leases, unleased, phase>>
    BY <1>0, <2>1, BeginsFacts
  <2> QED
    BY <1>1, <2>2
<1>4. CASE step # "leasing"
  BY <1>0, <1>2, <1>3, <1>4, SameVendorsKept, BenignStep DEF Holding
<1>5. CASE step = "leasing"
  <2>1. c # 0 /\ c \in DOMAIN containers /\ ~Unused(g) /\ nameTaken
    BY <1>0, <1>2, <1>3, <1>5 DEF VendorTypes, VendorOK, Unused, IInv, NameInv
  <2>2. VendorTypes' /\ HandlerOK(h)'
    BY <1>0, <1>2, <1>3, <2>1 DEF VendorTypes, VendorOK, HandlerOK
  <2>3. NameInv'
    <3>1. nameTaken'
      BY <1>3, <2>1 DEF nameTaken
    <3> QED
      BY <1>3, <1>5, <3>1 DEF IInv, NameInv, Others
  <2>4. FreshInv'
    <3>1. \A k \in Attempt : ~Fresh(k)
      BY <2>1 DEF IInv, FreshInv
    <3>2. \A k \in Attempt : ~Fresh(k)'
      BY <1>3, <1>5, <3>1 DEF Fresh, Others
    <3> QED
      BY <3>2 DEF FreshInv
  <2> QED
    BY <1>2, <1>3, <1>5, <2>2, <2>3, <2>4, HolderStep DEF Heeds, Holding
<1> QED
  BY <1>4, <1>5

LEMMA RuntimeReadyStep ==
  ASSUME IInv, NEW h \in Attempt, RuntimeReady(h)
  PROVE  IInv'
<1>0. HandlerTypes /\ VendorTypes
  BY DEF IInv
<1>1. /\ at[h].step = "waiting" /\ ~at[h].aborted /\ Goes(h, "ready")
      /\ UNCHANGED <<vendors, containers, forgotten, leases, unleased, phase>>
  BY DEF RuntimeReady, platform, handlersOnly, docker, database
<1>2. /\ Others(h) /\ DOMAIN at'[h] = HandlerFields /\ at'[h].step = "ready"
      /\ at'[h].gen = at[h].gen /\ at'[h].c = at[h].c
  BY <1>0, <1>1, GoesFacts
<1>3. phase = "running" /\ Fresh(h) /\ Fresh(h)'
  BY <1>1, <1>2 DEF IInv, SignalInv, Heeds, Fresh
<1>4. VendorTypes' /\ HandlerOK(h)'
  BY <1>0, <1>1, <1>2 DEF VendorTypes, VendorOK, HandlerTypes, HandlerOK, Holding
<1>5. \A k \in Attempt : /\ Fresh(k)' <=> Fresh(k)
                         /\ at'[k].step = "leasing" <=> at[k].step = "leasing"
  BY <1>1, <1>2, <1>3 DEF Fresh, Others
<1>6. FreshInv'
  BY <1>1, <1>5 DEF IInv, FreshInv, Unused
<1>7. NameInv'
  <2>1. nameTaken' <=> nameTaken
    BY <1>1 DEF nameTaken
  <2> QED
    BY <1>1, <1>2, <1>5, <2>1 DEF IInv, NameInv, Others, Unused
<1> QED
  BY <1>1, <1>2, <1>4, <1>6, <1>7, HolderStep DEF Heeds, Holding

LEMMA RuntimeStoredStep ==
  ASSUME IInv, NEW h \in Attempt, RuntimeStored(h)
  PROVE  IInv'
<1>0. HandlerTypes /\ VendorTypes
  BY DEF IInv
<1>1. /\ at[h].step = "ready" /\ vendors' = [vendors EXCEPT ![at[h].gen].runtime = at[h].c]
      /\ Goes(h, IF vendors[at[h].gen].leased THEN "observing" ELSE "leasing")
      /\ UNCHANGED <<containers, forgotten, leases, unleased, phase>>
  BY DEF RuntimeStored, handlersOnly, docker, database
<1>2. PICK g \in DOMAIN vendors, c \in DOMAIN containers : g = at[h].gen /\ c = at[h].c
  BY <1>0, <1>1 DEF HandlerTypes, HandlerOK, Holding
<1>3. /\ ~vendors[g].leased
      /\ \A k \in Attempt : k # h => ~Fresh(k) /\ at[k].step # "leasing"
  BY <1>1 DEF IInv, FreshInv, Fresh, Unused
<1>4. Goes(h, "leasing")
  BY <1>1, <1>2, <1>3
<1>5. /\ Others(h) /\ DOMAIN at'[h] = HandlerFields /\ at'[h].step = "leasing"
      /\ at'[h].gen = at[h].gen /\ at'[h].c = at[h].c
  BY <1>0, <1>4, GoesFacts
<1>6. /\ DOMAIN vendors' = DOMAIN vendors /\ vendors' = [k \in DOMAIN vendors' |-> vendors'[k]]
      /\ vendors'[g].runtime = c /\ vendors'[g].leased = vendors[g].leased
      /\ vendors'[g].stopped = vendors[g].stopped /\ DOMAIN vendors'[g] = VendorFields
      /\ \A k \in DOMAIN vendors : k # g => vendors'[k] = vendors[k]
  BY <1>0, <1>1, <1>2 DEF VendorTypes, VendorOK, VendorFields
<1>7. IsList(vendors')
  <2>1. PICK s, t : s = vendors /\ t = vendors'
    OBVIOUS
  <2>2. IsList(t)
    BY <1>0, <1>6, <2>1, ListUpdate DEF VendorTypes
  <2> QED
    BY <2>1, <2>2
<1>8. VendorTypes' /\ HandlerOK(h)'
  BY <1>0, <1>1, <1>2, <1>5, <1>6, <1>7 DEF VendorTypes, VendorOK, HandlerOK
<1>9. FreshInv'
  <2>1. \A k \in Attempt : ~Fresh(k)'
    BY <1>1, <1>3, <1>5 DEF Fresh, Others
  <2> QED
    BY <2>1 DEF FreshInv
<1>10. NameInv'
  <2> SUFFICES ASSUME phase = "running"
               PROVE  NameInv'
    BY <1>1 DEF NameInv
  <2>1. nameTaken'
    BY <1>1, <1>2 DEF IInv, NameInv, nameTaken
  <2>2. \A k \in Attempt : at'[k].step \notin {"waiting", "ready"}
    BY <1>3, <1>5 DEF Fresh, Others
  <2> QED
    BY <2>1, <2>2 DEF NameInv
<1> QED
  BY <1>1, <1>5, <1>6, <1>8, <1>9, <1>10, HolderStep DEF Heeds, Holding

LEMMA AbandonStep ==
  ASSUME IInv, NEW h \in Attempt, Abandon(h)
  PROVE  IInv'
<1>0. HandlerTypes /\ VendorTypes
  BY DEF IInv
<1>1. /\ at' = [at EXCEPT ![h].aborted = TRUE] /\ phase = "running"
      /\ UNCHANGED <<vendors, containers, forgotten, leases, unleased, phase>>
  BY DEF Abandon, platform, docker, database
<1>2. /\ Others(h) /\ DOMAIN at'[h] = HandlerFields /\ at'[h].step = at[h].step
      /\ at'[h].gen = at[h].gen /\ at'[h].c = at[h].c
  BY <1>0, <1>1 DEF HandlerTypes, HandlerOK, HandlerFields, Others
<1>3. VendorTypes' /\ HandlerOK(h)'
  BY <1>0, <1>1, <1>2 DEF VendorTypes, VendorOK, HandlerTypes, HandlerOK, Holding
<1>4. \A k \in Attempt : at'[k].step = at[k].step /\ at'[k].c = at[k].c
  BY <1>2 DEF Others
<1>5. FreshInv' /\ NameInv'
  BY <1>1, <1>4 DEF IInv, FreshInv, Fresh, NameInv, nameTaken, Unused
<1> QED
  BY <1>1, <1>2, <1>3, <1>5, HolderStep

-----------------------------------------------------------------------------
(* Starting, removing, leasing and forgetting containers.                  *)

LEMMA AppendContainer ==
  ASSUME ContainerTypes, containers' = Append(containers, "running")
  PROVE  /\ ContainerTypes' /\ Len(containers) + 1 \in DOMAIN containers'
         /\ DOMAIN containers' = DOMAIN containers \cup {Len(containers) + 1}
         /\ Len(containers) + 1 \notin DOMAIN containers
         /\ containers'[Len(containers) + 1] = "running"
         /\ \A c \in DOMAIN containers : containers'[c] = containers[c]
  BY DEF ContainerTypes

LEMMA DockerRunStep ==
  ASSUME IInv, NEW h \in Attempt, DockerRun(h)
  PROVE  IInv'
<1>0. HandlerTypes /\ VendorTypes /\ ContainerTypes
  BY DEF IInv
<1>1. at[h].step = "docker-run" /\ UNCHANGED <<vendors, forgotten, leases, unleased, phase>>
  BY DEF DockerRun, Settles, database
<1>2. CASE nameTaken
  BY <1>1, <1>2, EndsStep DEF DockerRun, Holding
<1>3. CASE ~nameTaken
  <2>1. PICK n : n = Len(containers) + 1
    OBVIOUS
  <2>2. /\ containers' = Append(containers, "running")
        /\ at' = [at EXCEPT ![h].step = "waiting", ![h].c = n]
    BY <1>3, <2>1 DEF DockerRun
  <2>3. /\ ContainerTypes' /\ n \notin DOMAIN containers
        /\ DOMAIN containers' = DOMAIN containers \cup {n} /\ containers'[n] = "running"
        /\ \A c \in DOMAIN containers : containers'[c] = containers[c]
    BY <1>0, <2>1, <2>2, AppendContainer
  <2>4. /\ Others(h) /\ DOMAIN at'[h] = HandlerFields /\ at'[h].step = "waiting"
        /\ at'[h].gen = at[h].gen /\ at'[h].c = n /\ at'[h].aborted = at[h].aborted
    BY <1>0, <2>2 DEF HandlerTypes, HandlerOK, HandlerFields, Others
  <2>5. VendorTypes'
    BY <1>0, <1>1, <2>3 DEF VendorTypes, VendorOK
  <2>6. HandlerTypes'
    BY <1>0, <1>1, <2>3, <2>4 DEF HandlerTypes, HandlerOK, Others, Holding
  <2>7. SignalInv'
    BY <1>1, <2>4 DEF IInv, SignalInv, Heeds, Others
  <2>8. StoppedInv'
    BY <1>0, <1>1, <2>3 DEF IInv, StoppedInv, VendorTypes, VendorOK
  <2>9. phase = "running" => /\ \A g \in DOMAIN vendors : Unused(g)
                             /\ \A k \in Attempt : at[k].step \notin Holding
    <3>1. \A k \in Attempt : at[k].step \in Holding => at[k].c \in DOMAIN containers
      BY <1>0 DEF HandlerTypes, HandlerOK
    <3> QED
      BY <1>3, <3>1 DEF IInv, NameInv, nameTaken, Holding
  <2>10. NameInv'
    BY <1>1, <2>3, <2>4, <2>9 DEF NameInv, Others, nameTaken, Holding, Unused
  <2>11. FreshInv'
    <3>1. CASE phase = "running"
      BY <1>1, <2>4, <2>9, <3>1 DEF FreshInv, Fresh, Others, Holding, Unused
    <3>2. CASE phase # "running"
      <4>1. \A k \in Attempt : Fresh(k)' <=> Fresh(k)
        BY <1>1, <2>4, <3>2 DEF Fresh, Others
      <4> QED
        BY <1>1, <2>4, <4>1 DEF IInv, FreshInv, Others, Unused
    <3> QED
      BY <3>1, <3>2
  <2>12. NoContainerUnaccounted'
    <3> SUFFICES ASSUME NEW c \in DOMAIN containers', containers'[c] = "running",
                        c \notin leases \cup forgotten \cup unleased
                 PROVE  \E k \in Attempt : at'[k].c = c /\ at'[k].step \in Holding
      BY <1>1 DEF NoContainerUnaccounted, Holding
    <3>1. CASE c = n
      BY <2>4, <3>1 DEF Holding
    <3>2. CASE c # n
      <4>1. PICK k \in Attempt : at[k].c = c /\ at[k].step \in Holding
        BY <2>3, <3>2 DEF IInv, NoContainerUnaccounted, Holding
      <4> QED
        BY <1>1, <2>4, <4>1 DEF Others, Holding
    <3> QED
      BY <3>1, <3>2
  <2> QED
    BY <2>3, <2>5, <2>6, <2>7, <2>8, <2>10, <2>11, <2>12 DEF IInv
<1> QED
  BY <1>2, <1>3

LEMMA DockerRunFailsStep ==
  ASSUME IInv, NEW h \in Attempt, NEW created \in BOOLEAN, DockerRunFails(h, created)
  PROVE  IInv'
<1>0. HandlerTypes /\ VendorTypes /\ ContainerTypes
  BY DEF IInv
<1>1. at[h].step = "docker-run" /\ UNCHANGED <<vendors, leases, unleased, phase>> /\ Ends(h)
  BY DEF DockerRunFails, Settles, database
<1>2. CASE UNCHANGED <<containers, forgotten>>
  BY <1>1, <1>2, EndsStep DEF Holding
<1>3. CASE ~UNCHANGED <<containers, forgotten>>
  <2>1. PICK n : n = Len(containers) + 1
    OBVIOUS
  <2>2. /\ containers' = Append(containers, "running") /\ forgotten' = forgotten \cup {n} /\ ~nameTaken
    BY <1>3, <2>1 DEF DockerRunFails
  <2>3. /\ ContainerTypes' /\ n \notin DOMAIN containers
        /\ DOMAIN containers' = DOMAIN containers \cup {n} /\ containers'[n] = "running"
        /\ \A c \in DOMAIN containers : containers'[c] = containers[c]
    BY <1>0, <2>1, <2>2, AppendContainer
  <2>4. Others(h) /\ at'[h] = Idle
    BY <1>0, <1>1, EndsFacts
  <2>5. VendorTypes'
    BY <1>0, <1>1, <2>3 DEF VendorTypes, VendorOK
  <2>6. HandlerTypes'
    BY <1>0, <1>1, <2>3, <2>4, IdleFacts DEF HandlerTypes, HandlerOK, Others
  <2>7. SignalInv'
    BY <1>1, <2>4, IdleFacts DEF IInv, SignalInv, Heeds, Others, Holding
  <2>8. StoppedInv'
    BY <1>0, <1>1, <2>2, <2>3 DEF IInv, StoppedInv, VendorTypes, VendorOK
  <2>9. \A k \in Attempt : /\ at'[k].step \in Holding <=> at[k].step \in Holding
                           /\ at[k].step \in Holding => at'[k] = at[k]
    BY <1>1, <2>4, IdleFacts DEF Others, Holding
  <2>10. NameInv'
    <3>1. nameTaken'
      BY <2>3 DEF nameTaken
    <3>2. \A k \in Attempt : at[k].step \in Holding => at[k].c \in DOMAIN containers
      BY <1>0 DEF HandlerTypes, HandlerOK
    <3> QED
      BY <1>1, <2>3, <2>9, <3>1, <3>2 DEF IInv, NameInv, Holding
  <2>11. FreshInv'
    <3>1. \A k \in Attempt : /\ Fresh(k)' <=> Fresh(k)
                             /\ at'[k].step = "leasing" <=> at[k].step = "leasing"
      BY <1>1, <2>9 DEF Fresh, Holding
    <3> QED
      BY <1>1, <3>1 DEF IInv, FreshInv, Unused
  <2>12. NoContainerUnaccounted'
    <3> SUFFICES ASSUME NEW c \in DOMAIN containers', containers'[c] = "running",
                        c \notin leases \cup forgotten' \cup unleased
                 PROVE  \E k \in Attempt : at'[k].c = c /\ at'[k].step \in Holding
      BY <1>1 DEF NoContainerUnaccounted, Holding
    <3>1. PICK k \in Attempt : at[k].c = c /\ at[k].step \in Holding
      BY <2>2, <2>3 DEF IInv, NoContainerUnaccounted, Holding
    <3> QED
      BY <2>9, <3>1
  <2> QED
    BY <2>3, <2>5, <2>6, <2>7, <2>8, <2>10, <2>11, <2>12 DEF IInv
<1> QED
  BY <1>2, <1>3

\* docker rm, whether it works or not.
Removes(c) ==
  /\ ContainerTypes' /\ DOMAIN containers' = DOMAIN containers /\ forgotten \subseteq forgotten'
  /\ \A d \in DOMAIN containers : containers'[d] = "running" => containers[d] = "running"
  /\ \A d \in DOMAIN containers : d # c => containers'[d] = containers[d]
  /\ c \in DOMAIN containers => containers'[c] # "running" \/ c \in forgotten'

LEMMA RemoveFacts ==
  ASSUME ContainerTypes, NEW c, NEW works \in BOOLEAN, removeContainer(c, works)
  PROVE  Removes(c)
  BY DEF ContainerTypes, removeContainer, Removes

LEMMA StoppedKept ==
  ASSUME VendorTypes, StoppedInv, NEW c, Removes(c), UNCHANGED vendors
  PROVE  VendorTypes' /\ StoppedInv'
  BY DEF VendorTypes, VendorOK, StoppedInv, Removes

LEMMA RuntimeUnreadyStep ==
  ASSUME IInv, NEW h \in Attempt, NEW works \in BOOLEAN, RuntimeUnready(h, works)
  PROVE  IInv'
<1>0. HandlerTypes /\ VendorTypes /\ ContainerTypes /\ StoppedInv
  BY DEF IInv
<1>1. /\ at[h].step = "waiting" /\ UNCHANGED <<vendors, leases, unleased, phase>> /\ Ends(h)
  BY DEF RuntimeUnready, Settles, database
<1>2. PICK n \in DOMAIN containers : n = at[h].c /\ Removes(n)
  BY <1>0, <1>1, RemoveFacts DEF RuntimeUnready, HandlerTypes, HandlerOK, Holding
<1>3. Others(h) /\ at'[h] = Idle
  BY <1>0, <1>1, EndsFacts
<1>4. VendorTypes' /\ StoppedInv' /\ ContainerTypes'
  BY <1>0, <1>1, <1>2, StoppedKept DEF Removes
<1>5. HandlerTypes'
  BY <1>0, <1>1, <1>2, <1>3, IdleFacts DEF HandlerTypes, HandlerOK, Others, Removes
<1>6. SignalInv'
  BY <1>1, <1>3, IdleFacts DEF IInv, SignalInv, Heeds, Others
<1>7. \A k \in Attempt : Fresh(k)' => Fresh(k) /\ k # h
  BY <1>1, <1>3, IdleFacts DEF Fresh, Others, Holding
<1>8. \A k \in Attempt : at'[k].step = "leasing" => at[k].step = "leasing" /\ k # h
  BY <1>1, <1>3, IdleFacts DEF Others, Holding
<1>9. FreshInv'
  BY <1>1, <1>7, <1>8 DEF IInv, FreshInv, Unused
<1>10. NameInv'
  <2> SUFFICES ASSUME phase = "running"
               PROVE  NameInv'
    BY <1>1 DEF NameInv
  <2>1. /\ \A g \in DOMAIN vendors : Unused(g)
        /\ \A k \in Attempt : k # h => at[k].step \notin Holding
    BY <1>1 DEF IInv, FreshInv, Fresh, Holding
  <2>2. \A k \in Attempt : at'[k].step \notin Holding
    BY <1>3, <2>1, IdleFacts DEF Others
  <2> QED
    BY <1>1, <2>1, <2>2 DEF NameInv, Unused, Holding
<1>11. NoContainerUnaccounted'
  <2> SUFFICES ASSUME NEW c \in DOMAIN containers', containers'[c] = "running",
                      c \notin leases \cup forgotten' \cup unleased
               PROVE  \E k \in Attempt : at'[k].c = c /\ at'[k].step \in Holding
    BY <1>1 DEF NoContainerUnaccounted, Holding
  <2>1. c # n /\ c \in DOMAIN containers /\ containers[c] = "running" /\ c \notin forgotten
    BY <1>2 DEF Removes
  <2>2. PICK k \in Attempt : at[k].c = c /\ at[k].step \in Holding
    BY <2>1 DEF IInv, NoContainerUnaccounted, Holding
  <2> QED
    BY <1>2, <1>3, <2>1, <2>2 DEF Others
<1> QED
  BY <1>4, <1>5, <1>6, <1>9, <1>10, <1>11 DEF IInv

LEMMA LeaseStoredStep ==
  ASSUME IInv, NEW h \in Attempt, LeaseStored(h)
  PROVE  IInv'
<1>0. HandlerTypes /\ VendorTypes
  BY DEF IInv
<1>1. /\ at[h].step = "leasing" /\ vendors' = [vendors EXCEPT ![at[h].gen].leased = TRUE]
      /\ Goes(h, "observing") /\ UNCHANGED <<containers, forgotten, phase>>
      /\ leases' = leases \cup {at[h].c} /\ unleased' = unleased \ {at[h].c}
  BY DEF LeaseStored, docker
<1>2. PICK g \in DOMAIN vendors, c \in DOMAIN containers : g = at[h].gen /\ c = at[h].c
  BY <1>0, <1>1 DEF HandlerTypes, HandlerOK, Holding
<1>3. /\ Others(h) /\ DOMAIN at'[h] = HandlerFields /\ at'[h].step = "observing"
  BY <1>0, <1>1, GoesFacts
<1>4. /\ DOMAIN vendors' = DOMAIN vendors /\ vendors' = [k \in DOMAIN vendors' |-> vendors'[k]]
      /\ vendors'[g].runtime = vendors[g].runtime /\ vendors'[g].leased = TRUE
      /\ vendors'[g].stopped = vendors[g].stopped /\ DOMAIN vendors'[g] = VendorFields
      /\ \A k \in DOMAIN vendors : k # g => vendors'[k] = vendors[k]
  BY <1>0, <1>1, <1>2 DEF VendorTypes, VendorOK, VendorFields
<1>5. IsList(vendors')
  <2>1. PICK s, t : s = vendors /\ t = vendors'
    OBVIOUS
  <2>2. IsList(t)
    BY <1>0, <1>4, <2>1, ListUpdate DEF VendorTypes
  <2> QED
    BY <2>1, <2>2
<1>6. VendorTypes' /\ StoppedInv' /\ ContainerTypes'
  <2>1. VendorTypes'
    BY <1>0, <1>1, <1>4, <1>5 DEF VendorTypes, VendorOK
  <2> QED
    BY <1>1, <1>4, <2>1 DEF IInv, StoppedInv, ContainerTypes
<1>7. HandlerTypes' /\ SignalInv'
  BY <1>0, <1>1, <1>3, <1>4 DEF HandlerTypes, HandlerOK, Others, Holding, IInv, SignalInv, Heeds
<1>8. \A k \in Attempt : ~Fresh(k)
  BY <1>1 DEF IInv, FreshInv, Fresh
<1>9. FreshInv'
  <2>1. \A k \in Attempt : ~Fresh(k)'
    BY <1>1, <1>3, <1>8 DEF Fresh, Others
  <2> QED
    BY <2>1 DEF FreshInv
<1>10. NameInv'
  <2> SUFFICES ASSUME phase = "running"
               PROVE  NameInv'
    BY <1>1 DEF NameInv
  <2>1. nameTaken'
    BY <1>1 DEF IInv, NameInv, nameTaken
  <2>2. \A k \in Attempt : at'[k].step \notin {"waiting", "ready"}
    BY <1>3, <1>8 DEF Fresh, Others
  <2> QED
    BY <2>1, <2>2 DEF NameInv
<1>11. NoContainerUnaccounted'
  <2> SUFFICES ASSUME NEW d \in DOMAIN containers, containers[d] = "running",
                      d \notin leases' \cup forgotten \cup unleased'
               PROVE  \E k \in Attempt : at'[k].c = d /\ at'[k].step \in Holding
    BY <1>1 DEF NoContainerUnaccounted, Holding
  <2>1. d # c /\ d \notin leases \cup forgotten \cup unleased
    BY <1>1, <1>2
  <2>2. PICK k \in Attempt : at[k].c = d /\ at[k].step \in Holding
    BY <2>1 DEF IInv, NoContainerUnaccounted, Holding
  <2> QED
    BY <1>2, <1>3, <2>1, <2>2 DEF Others
<1> QED
  BY <1>6, <1>7, <1>9, <1>10, <1>11 DEF IInv

LEMMA LeaseFailsStep ==
  ASSUME IInv, NEW h \in Attempt, NEW stored \in BOOLEAN, LeaseFails(h, stored)
  PROVE  IInv'
<1>0. HandlerTypes /\ VendorTypes
  BY DEF IInv
<1>1. /\ at[h].step = "leasing" /\ Ends(h) /\ UNCHANGED <<vendors, containers, forgotten, phase>>
      /\ leases \subseteq leases' /\ unleased' = unleased \cup ({at[h].c} \ leases')
  BY DEF LeaseFails, docker, platform
<1>2. Others(h) /\ at'[h] = Idle
  BY <1>0, <1>1, EndsFacts
<1>3. VendorTypes' /\ StoppedInv' /\ ContainerTypes'
  BY <1>1 DEF IInv, VendorTypes, VendorOK, StoppedInv, ContainerTypes
<1>4. HandlerTypes' /\ SignalInv'
  BY <1>0, <1>1, <1>2, IdleFacts DEF HandlerTypes, HandlerOK, Others, IInv, SignalInv, Heeds, Holding
<1>5. \A k \in Attempt : /\ Fresh(k)' => Fresh(k)
                         /\ at'[k].step = "leasing" => at[k].step = "leasing"
                         /\ at'[k].step \in {"waiting", "ready"} => at'[k] = at[k]
  BY <1>1, <1>2, IdleFacts DEF Fresh, Others, Holding
<1>6. FreshInv'
  BY <1>1, <1>5 DEF IInv, FreshInv, Unused
<1>7. NameInv'
  <2>1. nameTaken' <=> nameTaken
    BY <1>1 DEF nameTaken
  <2> QED
    BY <1>1, <1>5, <2>1 DEF IInv, NameInv, Unused
<1>8. NoContainerUnaccounted'
  <2> SUFFICES ASSUME NEW d \in DOMAIN containers, containers[d] = "running",
                      d \notin leases' \cup forgotten \cup unleased'
               PROVE  \E k \in Attempt : at'[k].c = d /\ at'[k].step \in Holding
    BY <1>1 DEF NoContainerUnaccounted, Holding
  <2>1. d # at[h].c /\ d \notin leases \cup forgotten \cup unleased
    BY <1>1
  <2>2. PICK k \in Attempt : at[k].c = d /\ at[k].step \in Holding
    BY <2>1 DEF IInv, NoContainerUnaccounted, Holding
  <2> QED
    BY <1>2, <2>1, <2>2 DEF Others
<1> QED
  BY <1>3, <1>4, <1>6, <1>7, <1>8 DEF IInv

-----------------------------------------------------------------------------
(* The end of the run, a crash and the persisted cleaner.                  *)

LEMMA BeginCleanupStep ==
  ASSUME IInv, BeginCleanup
  PROVE  IInv'
<1>0. HandlerTypes /\ VendorTypes
  BY DEF IInv
<1>1. /\ phase = "running" /\ phase' = "cleaning"
      /\ at' = [h \in Attempt |-> [at[h] EXCEPT !.aborted = Heeds(h)]]
      /\ UNCHANGED <<vendors, containers, forgotten, leases, unleased>>
  BY DEF BeginCleanup, platform, docker, database
<1>2. DOMAIN at' = Attempt
  BY <1>1
<1>3. \A h \in Attempt : /\ DOMAIN at'[h] = HandlerFields /\ at'[h].step = at[h].step
                         /\ at'[h].gen = at[h].gen /\ at'[h].c = at[h].c
                         /\ at'[h].aborted = Heeds(h)
  BY <1>0, <1>1 DEF HandlerTypes, HandlerOK, HandlerFields
<1>4. VendorTypes' /\ StoppedInv' /\ ContainerTypes'
  BY <1>1 DEF IInv, VendorTypes, VendorOK, StoppedInv, ContainerTypes
<1>5. HandlerTypes'
  BY <1>0, <1>1, <1>2, <1>3 DEF HandlerTypes, HandlerOK
<1>6. SignalInv'
  BY <1>3 DEF SignalInv, Heeds
<1>7. NameInv'
  BY <1>1 DEF NameInv
<1>8. FreshInv'
  <2>1. \A h \in Attempt : Fresh(h)' => Fresh(h)
    BY <1>1, <1>3 DEF Fresh
  <2> QED
    BY <1>1, <1>3, <2>1 DEF IInv, FreshInv, Unused
<1>9. NoContainerUnaccounted'
  <2>1. UNCHANGED <<containers, forgotten, leases, unleased>>
    BY <1>1
  <2> QED
    BY <1>3, <2>1 DEF IInv, NoContainerUnaccounted
<1> QED
  BY <1>4, <1>5, <1>6, <1>7, <1>8, <1>9 DEF IInv

LEMMA CrashStep ==
  ASSUME IInv, Crash
  PROVE  IInv'
<1>1. /\ phase' = "crashed" /\ at' = [h \in Attempt |-> Idle] /\ vendors' = <<>>
      /\ UNCHANGED <<containers, leases, unleased>>
      /\ forgotten' = forgotten \cup {c \in DOMAIN containers : containers[c] = "running" /\ c \notin leases}
  BY DEF Crash, docker
<1>2. vendors' \in Seq({}) /\ DOMAIN vendors' = {}
  BY <1>1
<1>3. VendorTypes' /\ StoppedInv' /\ ContainerTypes' /\ NoContainerUnaccounted'
  BY <1>1, <1>2 DEF IInv, VendorTypes, IsList, StoppedInv, ContainerTypes, NoContainerUnaccounted
<1>4. HandlerTypes' /\ SignalInv' /\ NameInv' /\ FreshInv'
  BY <1>1, IdleFacts DEF HandlerTypes, HandlerOK, SignalInv, Heeds, NameInv, FreshInv, Fresh, Holding
<1> QED
  BY <1>3, <1>4 DEF IInv

LEMMA RecoverStep ==
  ASSUME IInv, NEW c \in DOMAIN containers, NEW works \in BOOLEAN, Recover(c, works)
  PROVE  IInv'
<1>0. HandlerTypes /\ VendorTypes /\ ContainerTypes /\ StoppedInv
  BY DEF IInv
<1>1. /\ phase # "running" /\ UNCHANGED <<vendors, at, unleased, phase>> /\ leases' = leases \ {c}
      /\ removeContainer(c, works)
  BY DEF Recover, platform
<1>2. Removes(c)
  BY <1>0, <1>1, RemoveFacts
<1>3. VendorTypes' /\ StoppedInv' /\ ContainerTypes'
  BY <1>0, <1>1, <1>2, StoppedKept DEF Removes
<1>4. HandlerTypes' /\ SignalInv' /\ NameInv'
  BY <1>0, <1>1, <1>2 DEF HandlerTypes, HandlerOK, IInv, SignalInv, Heeds, NameInv, Removes
<1>5. FreshInv'
  BY <1>1 DEF IInv, FreshInv, Fresh, Unused
<1>6. NoContainerUnaccounted'
  BY <1>1, <1>2 DEF IInv, NoContainerUnaccounted, Removes
<1> QED
  BY <1>3, <1>4, <1>5, <1>6 DEF IInv

LEMMA CleanLeaseStep ==
  ASSUME IInv, NEW works \in BOOLEAN, CleanLease(works)
  PROVE  IInv'
<1>0. HandlerTypes /\ VendorTypes /\ ContainerTypes /\ StoppedInv
  BY DEF IInv
<1>1. PICK c : c = Last(cleanups)
  OBVIOUS
<1>2. /\ phase = "cleaning" /\ UNCHANGED <<at, unleased, phase>> /\ leases' = leases \ {c}
      /\ vendors' = [g \in DOMAIN vendors |->
                       [vendors[g] EXCEPT !.runtime = IF @ = c THEN 0 ELSE @,
                                          !.stopped = IF vendors[g].runtime = c
                                                      THEN @ \cup {c} ELSE @]]
      /\ c # 0
  BY <1>1 DEF CleanLease
<1>3. Removes(c)
  <2>1. CASE \E g \in DOMAIN vendors : c \in vendors[g].stopped
    BY <1>0, <1>1, <2>1 DEF CleanLease, Removes, StoppedInv, ContainerTypes
  <2>2. CASE ~\E g \in DOMAIN vendors : c \in vendors[g].stopped
    <3>1. removeContainer(c, works)
      BY <1>1, <2>2 DEF CleanLease
    <3> QED
      BY <1>0, <3>1, RemoveFacts
  <2> QED
    BY <2>1, <2>2
<1>4. /\ DOMAIN vendors' = DOMAIN vendors /\ vendors' = [k \in DOMAIN vendors' |-> vendors'[k]]
      /\ \A g \in DOMAIN vendors :
           /\ DOMAIN vendors'[g] = VendorFields /\ vendors'[g].leased = vendors[g].leased
           /\ vendors'[g].runtime = IF vendors[g].runtime = c THEN 0 ELSE vendors[g].runtime
           /\ vendors'[g].stopped = IF vendors[g].runtime = c THEN vendors[g].stopped \cup {c}
                                    ELSE vendors[g].stopped
  BY <1>0, <1>2 DEF VendorTypes, VendorOK, VendorFields
<1>5. IsList(vendors')
  <2>1. PICK s, t : s = vendors /\ t = vendors'
    OBVIOUS
  <2>2. IsList(t)
    BY <1>0, <1>4, <2>1, ListUpdate DEF VendorTypes
  <2> QED
    BY <2>1, <2>2
<1>6. phase = "cleaning" /\ UNCHANGED <<at, unleased, phase>> /\ leases' = leases \ {c} /\ c # 0
  BY <1>2
<1>7. VendorTypes'
  <2> SUFFICES ASSUME NEW g \in DOMAIN vendors
               PROVE  VendorOK(vendors[g])'
    BY <1>4, <1>5 DEF VendorTypes
  <2>1. /\ DOMAIN vendors'[g] = VendorFields /\ vendors'[g].leased = vendors[g].leased
        /\ vendors'[g].runtime \in {0, vendors[g].runtime}
        /\ vendors'[g].stopped \subseteq vendors[g].stopped \cup ({vendors[g].runtime} \ {0})
    BY <1>4, <1>6
  <2>2. VendorOK(vendors[g]) /\ DOMAIN containers' = DOMAIN containers
    BY <1>0, <1>3 DEF VendorTypes, Removes
  <2> QED
    BY <2>1, <2>2 DEF VendorOK
<1>8. StoppedInv'
  <2> SUFFICES ASSUME NEW g \in DOMAIN vendors, NEW d \in vendors'[g].stopped
               PROVE  containers'[d] # "running" \/ d \in forgotten'
    BY <1>4 DEF StoppedInv
  <2>1. d \in vendors[g].stopped \/ (d = c /\ vendors[g].runtime = c)
    BY <1>4
  <2>2. VendorOK(vendors[g])
    BY <1>0 DEF VendorTypes
  <2>3. d \in DOMAIN containers
    BY <1>6, <2>1, <2>2 DEF VendorOK
  <2> QED
    BY <1>0, <1>3, <2>1, <2>3 DEF StoppedInv, Removes
<1>9. HandlerTypes' /\ SignalInv' /\ NameInv' /\ ContainerTypes'
  BY <1>0, <1>6, <1>3, <1>4 DEF HandlerTypes, HandlerOK, IInv, SignalInv, Heeds, NameInv, Removes
<1>10. FreshInv'
  BY <1>6, <1>4 DEF IInv, FreshInv, Fresh, Unused
<1>11. NoContainerUnaccounted'
  BY <1>6, <1>3 DEF IInv, NoContainerUnaccounted, Removes
<1> QED
  BY <1>7, <1>8, <1>9, <1>10, <1>11 DEF IInv

LEMMA StepInv ==
  ASSUME IInv, [Next]_vars
  PROVE  IInv'
<1>1. CASE \E h \in Attempt : Handler(h)
  BY <1>1, CompileStep, StartRuntimeStep, CollectStep, DockerRunFailsStep, LeaseFailsStep
     DEF Handler
<1>2. CASE \E h \in Attempt : Continues(h)
  BY <1>2, CompiledStep, CompileFailsStep, DockerRunStep, RuntimeReadyStep, RuntimeStoredStep,
     LeaseStoredStep, RecordNextStep, SummariseStep, RuntimeUnreadyStep, LogsReadStep,
     CallWrittenStep, SnapshotStep
     DEF Continues
<1>3. CASE \E h \in Attempt : Abandon(h)
  BY <1>3, AbandonStep
<1>4. CASE \E c \in DOMAIN containers : Called(c) \/ (\E n \in 1..MaxCalls : Answered(c, n))
  <2>1. UNCHANGED <<vendors, containers, at, leases, unleased, forgotten, phase>>
    BY <1>4 DEF Called, Answered, platform, database
  <2> QED
    BY <2>1, QuietStep
<1>5. CASE \E c \in DOMAIN containers, works \in BOOLEAN : Recover(c, works)
  BY <1>5, RecoverStep
<1>6. CASE BeginCleanup \/ Crash \/ \E works \in BOOLEAN : CleanLease(works)
  BY <1>6, BeginCleanupStep, CrashStep, CleanLeaseStep
<1>7. CASE CleanState \/ UNCHANGED vars
  <2>1. /\ UNCHANGED <<vendors, containers, at, leases, unleased, forgotten>>
        /\ phase' = "running" <=> phase = "running"
    BY <1>7 DEF CleanState, vars, platform, docker, database
  <2> QED
    BY <2>1, QuietStep
<1> QED
  BY <1>1, <1>2, <1>3, <1>4, <1>5, <1>6, <1>7 DEF Next

\* Every container that runs is leased, in the hands of a handler that will lease or
\* remove it, or was lost to a fault of docker, of the database or of the process.
THEOREM NoContainerUnaccountedCorrect == FairSpec => []NoContainerUnaccounted
<1>1. Init => IInv
  BY InitInv
<1>2. IInv /\ [Next]_vars => IInv'
  BY StepInv
<1>3. IInv => NoContainerUnaccounted
  BY DEF IInv
<1> QED
  BY <1>1, <1>2, <1>3, PTL DEF FairSpec
-----------------------------------------------------------------------------
(* The reader of the ledger: the positions it picks by their rank.         *)

LEMMA RankGrows ==
  ASSUME NEW S \in SUBSET Nat, IsFiniteSet(S), NEW i \in S
  PROVE  /\ rank(S, i) \in Nat /\ rank(S, i) < Cardinality(S) /\ Cardinality(S) \in Nat
         /\ \A j \in S : i < j => rank(S, i) < rank(S, j)
<1> DEFINE before(j) == {x \in S : x < j}
<1>1. \A T \in SUBSET S : /\ IsFiniteSet(T) /\ Cardinality(T) \in Nat /\ Cardinality(S) \in Nat
                          /\ Cardinality(T) <= Cardinality(S)
                          /\ Cardinality(S) = Cardinality(T) => S = T
  BY FS_Subset, FS_CardinalityType
<1>2. before(i) \in SUBSET S /\ i \notin before(i)
  OBVIOUS
<1>3. rank(S, i) \in Nat /\ rank(S, i) < Cardinality(S) /\ Cardinality(S) \in Nat
  BY <1>1, <1>2 DEF rank
<1>4. ASSUME NEW j \in S, i < j
      PROVE  rank(S, i) < rank(S, j)
  <2>1. before(i) \in SUBSET before(j) /\ i \in before(j) /\ before(j) \in SUBSET S
    <3>1. i \in Nat /\ j \in Nat /\ \A x \in S : x \in Nat
      OBVIOUS
    <3>2. \A x \in S : x < i => x < j
      BY <1>4, <3>1
    <3> QED
      BY <1>4, <3>2
  <2>2. IsFiniteSet(before(j))
    BY <1>1, <2>1
  <2>3. /\ Cardinality(before(i)) <= Cardinality(before(j))
        /\ Cardinality(before(j)) = Cardinality(before(i)) => before(j) = before(i)
    BY <2>1, <2>2, FS_Subset
  <2>4. Cardinality(before(i)) \in Nat /\ Cardinality(before(j)) \in Nat
    BY <1>1, <1>2, <2>1
  <2> QED
    BY <1>2, <2>1, <2>3, <2>4 DEF rank
<1> QED
  BY <1>3, <1>4

LEMMA ShiftGivesOne ==
  ASSUME NEW S \in SUBSET Nat, IsFiniteSet(S), NEW k, NEW i \in shift(S, k)
  PROVE  shift(S, k) = {i}
<1> SUFFICES ASSUME NEW j \in shift(S, k), j # i
             PROVE  FALSE
  OBVIOUS
<1>1. i \in S /\ j \in S /\ rank(S, i) = k /\ rank(S, j) = k
  BY DEF shift
<1>2. i < j \/ j < i
  BY <1>1
<1>3. /\ rank(S, i) \in Nat
      /\ i < j => rank(S, i) < rank(S, j)
      /\ j < i => rank(S, j) < rank(S, i)
  BY <1>1, RankGrows
<1> QED
  BY <1>1, <1>2, <1>3

\* A group gives what it gave when more is added at its end.
LEMMA ShiftKept ==
  ASSUME NEW T \in SUBSET Nat, IsFiniteSet(T), NEW S \in SUBSET T,
         \A t \in T \ S : \A s \in S : s < t,
         NEW k, shift(S, k) # {}
  PROVE  shift(T, k) = shift(S, k)
<1>1. PICK i : i \in shift(S, k)
  OBVIOUS
<1>2. i \in S /\ rank(S, i) = k
  BY <1>1 DEF shift
<1>3. {x \in T : x < i} = {x \in S : x < i}
  <2>1. \A t \in T : t \in Nat /\ (t \notin S => i < t)
    BY <1>2
  <2>2. \A t \in T : t < i => t \in S
    BY <1>2, <2>1
  <2> QED
    BY <2>2
<1>4. i \in shift(T, k)
  BY <1>2, <1>3 DEF shift, rank
<1>5. IsFiniteSet(S)
  BY FS_Subset
<1>6. shift(T, k) = {i} /\ shift(S, k) = {i}
  BY <1>1, <1>4, <1>5, ShiftGivesOne
<1> QED
  BY <1>6

LEMMA EveryRankIsTaken ==
  ASSUME NEW S \in SUBSET Nat, IsFiniteSet(S), NEW k \in 1..Cardinality(S)
  PROVE  \E m \in S : rank(S, m) = k - 1
<1> DEFINE n == Cardinality(S)
           T == 0..(n - 1)
           f == [m \in S |-> rank(S, m)]
<1>1. n \in Nat
  BY FS_CardinalityType
<1>2. IsFiniteSet(T) /\ Cardinality(T) = n
  <2>1. IsFiniteSet(T) /\ Cardinality(T) = IF 0 > n - 1 THEN 0 ELSE (n - 1) - 0 + 1
    <3>1. 0 \in Int /\ n - 1 \in Int
      BY <1>1
    <3> HIDE DEF n
    <3> QED
      BY <3>1, FS_Interval
  <2> QED
    BY <1>1, <2>1
<1>3. \A m \in S : rank(S, m) \in T
  BY <1>1, RankGrows
<1>4. ASSUME NEW a \in S, NEW b \in S, rank(S, a) = rank(S, b)
      PROVE  a = b
  <2>1. a \in shift(S, rank(S, a)) /\ b \in shift(S, rank(S, a))
    BY <1>4 DEF shift
  <2>2. shift(S, rank(S, a)) = {a}
    BY <2>1, ShiftGivesOne
  <2> QED
    BY <2>1, <2>2
<1>5. f \in Injection(S, T)
  <2>1. f \in [S -> T]
    BY <1>3
  <2>2. \A a, b \in DOMAIN f : f[a] = f[b] => a = b
    BY <1>4
  <2> HIDE DEF f, T
  <2> QED
    BY <2>1, <2>2 DEF Injection, IsInjective
<1>6. f \in Surjection(S, T)
  <2>1. Cardinality(S) = Cardinality(T)
    BY <1>2
  <2> HIDE DEF f, T, n
  <2> QED
    BY <1>2, <1>5, <2>1, FS_Injection
<1>7. k - 1 \in T
  BY <1>1
<1>8. \E m \in S : f[m] = k - 1
  <2> HIDE DEF f, T, n
  <2> QED
    BY <1>6, <1>7 DEF Surjection
<1> QED
  BY <1>8

\* The lines that the calls of this model leave in a log.
LogLine(e, corrs) ==
  /\ e.kind \in {"match", "state", "summary"} /\ e.call \in Nat \ {0} /\ e.corr = IF corrs THEN e.call ELSE NoCorr
  /\ e.case = "lookup" /\ e.data = NoData

LEMMA PositionsAreFinite ==
  ASSUME NEW lines, IsList(lines), NEW S \in SUBSET DOMAIN lines
  PROVE  S \in SUBSET Nat /\ IsFiniteSet(S)
<1>1. Len(lines) \in Nat /\ DOMAIN lines = 1..Len(lines)
  BY ListFacts
<1>2. IsFiniteSet(1..Len(lines))
  <2>1. 1 \in Int /\ Len(lines) \in Int
    BY <1>1
  <2> QED
    BY <2>1, FS_Interval
<1> QED
  BY <1>1, <1>2, FS_Subset

LEMMA NothingLeft ==
  ASSUME NEW k
  PROVE  shift({}, k) = {}
  BY DEF shift

\* Grows(old, new): the log went on.
Grows(old, new) ==
  /\ IsList(old) /\ IsList(new)
  /\ DOMAIN old \subseteq DOMAIN new /\ \A i \in DOMAIN old : new[i] = old[i]
  /\ \A i \in DOMAIN new \ DOMAIN old : \A j \in DOMAIN old : j < i

\* The positions of old and of new that satisfy the same condition.
LEMMA GroupKept ==
  ASSUME NEW old, NEW new, Grows(old, new),
         NEW S \in SUBSET DOMAIN old, NEW T \in SUBSET DOMAIN new, S = T \cap DOMAIN old
  PROVE  /\ \A k : shift(S, k) # {} => shift(T, k) = shift(S, k)
         /\ \A m \in DOMAIN old : {j \in T : j < m} = {j \in S : j < m}
<1>1. T \in SUBSET Nat /\ IsFiniteSet(T) /\ S \in SUBSET T
  BY PositionsAreFinite DEF Grows
<1>2. \A t \in T \ S : \A s \in DOMAIN old : s < t
  BY DEF Grows
<1>3. ASSUME NEW k, shift(S, k) # {}
      PROVE  shift(T, k) = shift(S, k)
  <2>1. \A t \in T \ S : \A s \in S : s < t
    BY <1>2
  <2> QED
    BY <1>1, <1>3, <2>1, ShiftKept
<1>4. ASSUME NEW m \in DOMAIN old
      PROVE  {j \in T : j < m} = {j \in S : j < m}
  <2>1. m \in Nat /\ \A t \in T : t \in Nat
    BY <1>1, ListFacts DEF Grows
  <2>2. \A t \in T \ S : m < t
    BY <1>2
  <2>3. \A t \in T : t < m => t \in S
    BY <2>1, <2>2
  <2> QED
    BY <1>1, <2>3
<1> QED
  BY <1>3, <1>4

\* A pairing that is made is not undone by what is logged later.
LEMMA PairingKept ==
  ASSUME NEW old, NEW new, Grows(old, new),
         NEW corrs, \A i \in DOMAIN new : LogLine(new[i], corrs),
         NEW m \in eventsOf("match", old), summaryOf(old, m) # {}
  PROVE  /\ m \in eventsOf("match", new) /\ new[m] = old[m]
         /\ summaryOf(new, m) = summaryOf(old, m)
<1> DEFINE open(lines) == {i \in eventsOf("summary", lines) : lines[i].corr = NoCorr}
<1>1. /\ m \in DOMAIN old /\ new[m] = old[m] /\ m \in eventsOf("match", new)
      /\ DOMAIN old \subseteq DOMAIN new /\ \A i \in DOMAIN old : new[i] = old[i]
  BY DEF eventsOf, Grows
<1>2. \A i \in DOMAIN new : new[i].corr = IF corrs THEN new[i].call ELSE 0
  BY DEF LogLine, NoCorr
<1>3. \A i \in DOMAIN new : new[i].call # 0
  BY DEF LogLine
<1>4. CASE corrs
  <2>1. \A i \in DOMAIN new : new[i].corr # NoCorr
    BY <1>2, <1>3, <1>4 DEF NoCorr
  <2>2. open(old) = {} /\ open(new) = {}
    BY <1>1, <2>1 DEF eventsOf
  <2>3. summaryOf(old, m) = ofCorrelation(old, m, "summary")
    <3>1. \A k : shift(open(old), k) = {}
      BY <2>2, NothingLeft
    <3> QED
      BY <3>1 DEF summaryOf
  <2> DEFINE group(lines, kind) == groupByCorrelation(lines, kind, old[m].corr)
  <2>4. \A kind : /\ group(old, kind) = group(new, kind) \cap DOMAIN old
                  /\ group(old, kind) \in SUBSET DOMAIN old
                  /\ group(new, kind) \in SUBSET DOMAIN new
    BY <1>1 DEF groupByCorrelation, eventsOf
  <2>5. rank(group(new, "match"), m) = rank(group(old, "match"), m)
    <3>1. {j \in group(new, "match") : j < m} = {j \in group(old, "match") : j < m}
      <4> HIDE DEF group
      <4> QED
        BY <1>1, <2>4, GroupKept
    <3> QED
      BY <3>1 DEF rank
  <2>6. shift(group(new, "summary"), rank(group(old, "match"), m))
          = shift(group(old, "summary"), rank(group(old, "match"), m))
    <3>1. shift(group(old, "summary"), rank(group(old, "match"), m)) # {}
      BY <2>3 DEF ofCorrelation
    <3> HIDE DEF group
    <3> QED
      BY <2>4, <3>1, GroupKept
  <2>7. ofCorrelation(new, m, "summary") = ofCorrelation(old, m, "summary")
    BY <1>1, <2>5, <2>6 DEF ofCorrelation
  <2> QED
    BY <1>1, <2>3, <2>7 DEF summaryOf
<1>5. CASE ~corrs
  <2>1. \A i \in DOMAIN new : new[i].corr = NoCorr
    BY <1>2, <1>5 DEF NoCorr
  <2>2. /\ \A j \in DOMAIN old : ofCorrelation(old, j, "summary") = {}
        /\ \A j \in DOMAIN new : ofCorrelation(new, j, "summary") = {}
    <3>1. /\ \A j \in DOMAIN old : groupByCorrelation(old, "summary", old[j].corr) = {}
          /\ \A j \in DOMAIN new : groupByCorrelation(new, "summary", new[j].corr) = {}
      BY <1>1, <2>1 DEF groupByCorrelation
    <3> QED
      BY <3>1, NothingLeft DEF ofCorrelation
  <2> DEFINE earlier(lines) == {j \in eventsOf("match", lines) : j < m}
  <2>3. leftBefore(old, m, "summary") = earlier(old) /\ leftBefore(new, m, "summary") = earlier(new)
    BY <2>2 DEF leftBefore, eventsOf
  <2>4. \A kind : /\ eventsOf(kind, old) = eventsOf(kind, new) \cap DOMAIN old
                  /\ eventsOf(kind, old) \in SUBSET DOMAIN old
                  /\ eventsOf(kind, new) \in SUBSET DOMAIN new
    BY <1>1 DEF eventsOf
  <2>5. earlier(new) = earlier(old)
    BY <1>1, <2>4, GroupKept
  <2>6. open(old) = eventsOf("summary", old) /\ open(new) = eventsOf("summary", new)
    BY <1>1, <2>1 DEF eventsOf
  <2>7. /\ summaryOf(old, m) = shift(open(old), Cardinality(earlier(old)))
        /\ summaryOf(new, m) = shift(open(new), Cardinality(earlier(old)))
    BY <1>1, <2>2, <2>3, <2>5 DEF summaryOf
  <2> HIDE DEF open, earlier
  <2>8. shift(open(new), Cardinality(earlier(old))) = shift(open(old), Cardinality(earlier(old)))
    BY <2>4, <2>6, <2>7, GroupKept
  <2> QED
    BY <1>1, <2>7, <2>8
<1> QED
  BY <1>4, <1>5

\* e is what the match at m is read as, or was before its summary was logged.
ReadFrom(e, lines, m) ==
  /\ e.call = lines[m].call /\ e.case = "lookup" /\ e.corr = lines[m].corr
  /\ e.data.index = NoIndex
  /\ e.summary # 0 => /\ summaryOf(lines, m) # {}
                      /\ e.summary = eventAt(lines, summaryOf(lines, m)).call

LEMMA ReadingKept ==
  ASSUME NEW old, NEW new, Grows(old, new),
         NEW corrs, \A i \in DOMAIN new : LogLine(new[i], corrs),
         NEW m \in eventsOf("match", old), NEW e, ReadFrom(e, old, m)
  PROVE  m \in eventsOf("match", new) /\ new[m] = old[m] /\ ReadFrom(e, new, m)
<1>1. m \in eventsOf("match", new) /\ new[m] = old[m]
  BY DEF eventsOf, Grows
<1>2. ASSUME e.summary # 0
      PROVE  /\ summaryOf(new, m) # {}
             /\ e.summary = eventAt(new, summaryOf(new, m)).call
  <2>1. summaryOf(old, m) # {} /\ e.summary = eventAt(old, summaryOf(old, m)).call
    BY <1>2 DEF ReadFrom
  <2>2. summaryOf(new, m) = summaryOf(old, m)
    BY <2>1, PairingKept
  <2>3. summaryOf(old, m) \in SUBSET DOMAIN old
    BY DEF summaryOf, ofCorrelation, shift, groupByCorrelation, eventsOf
  <2>4. eventAt(new, summaryOf(old, m)) = eventAt(old, summaryOf(old, m))
    BY <2>1, <2>3 DEF eventAt, Grows
  <2> QED
    BY <2>1, <2>2, <2>4
<1> QED
  BY <1>1, <1>2 DEF ReadFrom

LEMMA PairedEvents ==
  ASSUME NEW lines, NEW corrs, \A i \in DOMAIN lines : LogLine(lines[i], corrs), NEW found \in SUBSET DOMAIN lines
  PROVE  /\ eventAt(lines, found).call # 0 => found # {}
         /\ eventAt(lines, found) = NoEvent \/ LogLine(eventAt(lines, found), corrs)
         /\ eventAt(lines, found).data = NoData
<1>1. CASE found = {}
  BY <1>1 DEF eventAt, NoEvent
<1>2. CASE found # {}
  <2>1. LogLine(eventAt(lines, found), corrs)
    BY <1>2 DEF eventAt
  <2> QED
    BY <1>2, <2>1 DEF LogLine
<1> QED
  BY <1>1, <1>2

LEMMA EntryFacts ==
  ASSUME NEW corrs, NEW match, LogLine(match, corrs),
         NEW summary, summary = NoEvent \/ LogLine(summary, corrs),
         NEW state, state = NoEvent \/ LogLine(state, corrs)
  PROVE  LET e == entryOf(match, summary, state)
         IN /\ e.call = match.call /\ e.case = "lookup" /\ e.corr = match.corr
            /\ e.data.index = NoIndex /\ e.summary = summary.call
<1> DEFINE e == entryOf(match, summary, state)
<1>1. e.call = match.call /\ e.summary = summary.call /\ e.data = state.data
  BY DEF entryOf
<1>2. e.case = "lookup"
  <2>1. e.case = IF state.call = 0 THEN match.case ELSE state.case
    BY DEF entryOf
  <2> QED
    BY <2>1 DEF LogLine, NoEvent
<1>3. e.corr = match.corr
  <2>1. e.corr = correlationId(match, summary, state)
    BY DEF entryOf
  <2>2. match.corr = (IF corrs THEN match.call ELSE NoCorr) /\ match.call # 0
    BY DEF LogLine
  <2>3. CASE corrs
    BY <2>1, <2>2, <2>3 DEF correlationId, NoCorr
  <2>4. CASE ~corrs
    <3>1. match.corr = NoCorr /\ summary.corr = NoCorr /\ state.corr = NoCorr
      BY <2>4 DEF LogLine, NoEvent
    <3> QED
      BY <2>1, <2>4, <3>1 DEF correlationId
  <2> QED
    BY <2>3, <2>4
<1>4. e.data.index = NoIndex
  <2>1. state.data = NoData
    BY DEF LogLine, NoEvent
  <2> QED
    BY <1>1, <2>1 DEF NoData
<1> QED
  BY <1>1, <1>2, <1>3, <1>4

\* The ledger of a log: one entry for each of its matches, at the rank of the match.
LEMMA LedgerEntries ==
  ASSUME NEW lines, IsList(lines)
  PROVE  LET entries == parseProviderCallLedger(lines)
             matches == eventsOf("match", lines)
         IN /\ IsList(entries)
            /\ \A i \in DOMAIN entries : \E m \in matches :
                 /\ rank(matches, m) = i - 1
                 /\ entries[i] = entryOf(lines[m], eventAt(lines, summaryOf(lines, m)),
                                         eventAt(lines, stateOf(lines, m)))
<1> DEFINE matches == eventsOf("match", lines)
           reading(m) == entryOf(lines[m], eventAt(lines, summaryOf(lines, m)),
                                 eventAt(lines, stateOf(lines, m)))
           entry == [m \in matches |-> reading(m)]
           picked(i) == CHOOSE m \in matches : rank(matches, m) = i - 1
           entries == [i \in 1..Cardinality(matches) |-> entry[picked(i)]]
<1>1. parseProviderCallLedger(lines) = entries
  BY DEF parseProviderCallLedger
<1>2. matches \in SUBSET Nat /\ IsFiniteSet(matches)
  <2>1. matches \in SUBSET DOMAIN lines
    BY DEF eventsOf
  <2> HIDE DEF matches
  <2> QED
    BY <2>1, PositionsAreFinite
<1>3. Cardinality(matches) \in Nat
  <2> HIDE DEF matches
  <2> QED
    BY <1>2, FS_CardinalityType
<1>4. IsList(entries)
  <2> DEFINE n == Cardinality(matches)
             S == {entries[i] : i \in 1..n}
  <2>1. entries = [i \in 1..n |-> entries[i]] /\ n \in Nat
    BY <1>3
  <2> HIDE DEF entries, n
  <2>2. entries \in [1..n -> S]
    BY <2>1
  <2>3. entries \in Seq(S)
    <3> HIDE DEF S
    <3> QED
      BY <2>1, <2>2
  <2> QED
    BY <2>3 DEF IsList
<1>5. ASSUME NEW i \in DOMAIN entries
      PROVE  \E m \in matches : rank(matches, m) = i - 1 /\ entries[i] = reading(m)
  <2>1. i \in 1..Cardinality(matches)
    OBVIOUS
  <2>2. \E m \in matches : rank(matches, m) = i - 1
    <3> HIDE DEF matches
    <3> QED
      BY <1>2, <2>1, EveryRankIsTaken
  <2>3. picked(i) \in matches /\ rank(matches, picked(i)) = i - 1
    BY <2>2
  <2>4. entries[i] = reading(picked(i))
    BY <2>1, <2>3
  <2> HIDE DEF matches, reading, picked, entries
  <2> QED
    BY <2>3, <2>4
<1> HIDE DEF entries
<1> QED
  BY <1>1, <1>4, <1>5

\* Every entry of a ledger was read from a match of the log.
LEMMA LedgerIsRead ==
  ASSUME NEW lines, IsList(lines), NEW corrs, \A i \in DOMAIN lines : LogLine(lines[i], corrs)
  PROVE  LET entries == parseProviderCallLedger(lines)
         IN /\ IsList(entries)
            /\ \A i \in DOMAIN entries : \E m \in eventsOf("match", lines) : ReadFrom(entries[i], lines, m)
<1> DEFINE matches == eventsOf("match", lines)
           reading(m) == entryOf(lines[m], eventAt(lines, summaryOf(lines, m)),
                                 eventAt(lines, stateOf(lines, m)))
           entries == parseProviderCallLedger(lines)
<1>1. /\ IsList(entries)
      /\ \A i \in DOMAIN entries : \E m \in matches : entries[i] = reading(m)
  BY LedgerEntries
<1>2. ASSUME NEW m \in matches
      PROVE  ReadFrom(reading(m), lines, m)
  <2>1. summaryOf(lines, m) \in SUBSET DOMAIN lines /\ stateOf(lines, m) \in SUBSET DOMAIN lines
    BY DEF summaryOf, stateOf, statesByCase, ofCorrelation, shift, groupByCorrelation, eventsOf
  <2> DEFINE summary == eventAt(lines, summaryOf(lines, m))
             state == eventAt(lines, stateOf(lines, m))
  <2>2. /\ summary.call # 0 => summaryOf(lines, m) # {}
        /\ summary = NoEvent \/ LogLine(summary, corrs)
        /\ state = NoEvent \/ LogLine(state, corrs)
    BY <2>1, PairedEvents
  <2>3. LogLine(lines[m], corrs)
    BY DEF eventsOf
  <2>4. reading(m) = entryOf(lines[m], summary, state)
    OBVIOUS
  <2>5. /\ reading(m).call = lines[m].call /\ reading(m).case = "lookup"
        /\ reading(m).corr = lines[m].corr
        /\ reading(m).data.index = NoIndex /\ reading(m).summary = summary.call
    <3> HIDE DEF summary, state, reading
    <3> QED
      BY <2>2, <2>3, <2>4, EntryFacts
  <2> QED
    <3> HIDE DEF reading
    <3> QED
      BY <2>2, <2>5 DEF ReadFrom
<1> HIDE DEF matches, reading, entries
<1>3. ASSUME NEW i \in DOMAIN entries
      PROVE  \E m \in matches : ReadFrom(entries[i], lines, m)
  BY <1>1, <1>2
<1> QED
  BY <1>1, <1>3 DEF entries, matches

\* A log whose lines carry the correlation of their call, one line of a kind for a call.
CorrelatedLog(lines) ==
  /\ IsList(lines)
  /\ \A i \in DOMAIN lines : lines[i].call \in Nat \ {0} /\ lines[i].corr = lines[i].call
  /\ \A i, j \in DOMAIN lines :
       lines[i].kind = lines[j].kind /\ lines[i].call = lines[j].call => i = j

Logged(lines, kind, call) == \E i \in eventsOf(kind, lines) : lines[i].call = call

\* In a correlated log the group of a match holds no more than the line of its own call.
LEMMA OwnGroup ==
  ASSUME NEW lines, CorrelatedLog(lines), NEW m \in eventsOf("match", lines), NEW kind
  PROVE  /\ ofCorrelation(lines, m, kind) = {j \in eventsOf(kind, lines) : lines[j].call = lines[m].call}
         /\ Logged(lines, kind, lines[m].call) =>
              eventAt(lines, ofCorrelation(lines, m, kind)).call = lines[m].call
<1> DEFINE own(k) == groupByCorrelation(lines, k, lines[m].corr)
<1>1. \A k : own(k) = {j \in eventsOf(k, lines) : lines[j].call = lines[m].call}
  BY DEF CorrelatedLog, groupByCorrelation, eventsOf, NoCorr
<1>2. \A k : own(k) \in SUBSET Nat /\ \A i, j \in own(k) : i = j
  <2>1. eventsOf("match", lines) \in SUBSET Nat /\ \A k : eventsOf(k, lines) \in SUBSET Nat
    BY ListFacts DEF CorrelatedLog, eventsOf
  <2> QED
    BY <1>1, <2>1 DEF CorrelatedLog, eventsOf
<1> HIDE DEF own
<1>3. ASSUME NEW k, NEW j \in own(k)
      PROVE  rank(own(k), j) = 0
  <2>1. {i \in own(k) : i < j} = {}
    BY <1>2
  <2> QED
    BY <2>1, FS_EmptySet DEF rank
<1>4. rank(own("match"), m) = 0
  BY <1>1, <1>3
<1>5. ofCorrelation(lines, m, kind) = own(kind)
  BY <1>3, <1>4 DEF ofCorrelation, shift, own
<1>6. ASSUME Logged(lines, kind, lines[m].call)
      PROVE  eventAt(lines, own(kind)).call = lines[m].call
  <2>1. own(kind) # {}
    BY <1>1, <1>6 DEF Logged
  <2> QED
    BY <1>1, <2>1 DEF eventAt
<1> QED
  BY <1>1, <1>5, <1>6

\* In a correlated log, whatever the order of its lines, each match has one entry, and the
\* entry has the summary and the state of its own call when the log has them, and never the
\* summary of another call (parseProviderCallLedger, its groups by correlation).
THEOREM CorrelatedLedgerPairsOwn ==
  ASSUME NEW lines, CorrelatedLog(lines)
  PROVE  LET entries == parseProviderCallLedger(lines)
         IN /\ \A i, j \in DOMAIN entries : entries[i].call = entries[j].call => i = j
            /\ \A i \in DOMAIN entries :
                 LET call == entries[i].call
                 IN /\ Logged(lines, "match", call)
                    /\ entries[i].summary = IF Logged(lines, "summary", call) THEN call ELSE 0
                    /\ Logged(lines, "state", call) => entries[i].state = call
<1> DEFINE entries == parseProviderCallLedger(lines)
           matches == eventsOf("match", lines)
           summary(m) == eventAt(lines, summaryOf(lines, m))
           state(m) == eventAt(lines, stateOf(lines, m))
<1>1. /\ IsList(entries)
      /\ \A i \in DOMAIN entries : \E m \in matches :
           rank(matches, m) = i - 1 /\ entries[i] = entryOf(lines[m], summary(m), state(m))
  BY LedgerEntries DEF CorrelatedLog
<1>2. \A m, n \in matches : lines[m].call = lines[n].call => m = n
  BY DEF CorrelatedLog, eventsOf
<1>3. \A m : entryOf(lines[m], summary(m), state(m)).call = lines[m].call
  BY DEF entryOf
<1>4. DOMAIN entries \in SUBSET Nat
  BY <1>1, ListFacts
<1>5. ASSUME NEW i \in DOMAIN entries, NEW j \in DOMAIN entries, entries[i].call = entries[j].call
      PROVE  i = j
  <2> HIDE DEF entries, matches, summary, state
  <2>1. PICK m \in matches : /\ rank(matches, m) = i - 1
                             /\ entries[i] = entryOf(lines[m], summary(m), state(m))
    BY <1>1
  <2>2. PICK n \in matches : /\ rank(matches, n) = j - 1
                             /\ entries[j] = entryOf(lines[n], summary(n), state(n))
    BY <1>1
  <2>3. m = n
    BY <1>2, <1>3, <1>5, <2>1, <2>2
  <2> QED
    BY <1>4, <2>1, <2>2, <2>3
<1>6. ASSUME NEW i \in DOMAIN entries
      PROVE  /\ Logged(lines, "match", entries[i].call)
             /\ entries[i].summary = IF Logged(lines, "summary", entries[i].call) THEN entries[i].call ELSE 0
             /\ Logged(lines, "state", entries[i].call) => entries[i].state = entries[i].call
  <2>1. PICK m \in matches : entries[i] = entryOf(lines[m], summary(m), state(m))
    BY <1>1
  <2>2. entries[i].call = lines[m].call
    BY <1>3, <2>1
  <2>3. entries[i].summary = summary(m).call /\ entries[i].state = state(m).call
    BY <2>1 DEF entryOf
  <2>4. Logged(lines, "match", lines[m].call)
    BY DEF Logged
  <2>5. \A kind : /\ Logged(lines, kind, lines[m].call) <=> ofCorrelation(lines, m, kind) # {}
                  /\ Logged(lines, kind, lines[m].call) =>
                       eventAt(lines, ofCorrelation(lines, m, kind)).call = lines[m].call
    BY OwnGroup DEF Logged
  <2>6. summary(m).call = IF Logged(lines, "summary", lines[m].call) THEN lines[m].call ELSE 0
    <3>1. {s \in eventsOf("summary", lines) : lines[s].corr = NoCorr} = {}
      BY DEF CorrelatedLog, eventsOf, NoCorr
    <3>2. ~Logged(lines, "summary", lines[m].call) => summaryOf(lines, m) = {}
      BY <2>5, <3>1, NothingLeft DEF summaryOf
    <3>3. Logged(lines, "summary", lines[m].call) =>
            summaryOf(lines, m) = ofCorrelation(lines, m, "summary")
      BY <2>5 DEF summaryOf
    <3> QED
      BY <2>5, <3>2, <3>3 DEF eventAt, NoEvent
  <2>7. Logged(lines, "state", lines[m].call) => state(m).call = lines[m].call
    <3>1. Logged(lines, "state", lines[m].call) =>
            stateOf(lines, m) = ofCorrelation(lines, m, "state")
      BY <2>5 DEF stateOf
    <3> QED
      BY <2>5, <3>1
  <2> HIDE DEF entries, summary, state
  <2> QED
    BY <2>2, <2>3, <2>4, <2>6, <2>7
<1> QED
  BY <1>5, <1>6

LEMMA SameReading ==
  ASSUME NEW lines, NEW m, NEW e, NEW f, ReadFrom(e, lines, m), ReadFrom(f, lines, m),
         e.summary # 0, f.summary # 0
  PROVE  ledgerKey(e) = ledgerKey(f)
  BY DEF ReadFrom, ledgerKey
-----------------------------------------------------------------------------
(* The collections: the invariant.                                         *)

Genuine(e, lines) == \E m \in eventsOf("match", lines) : ReadFrom(e, lines, m)

\* A match line names its call, in all the logs.
MatchesDiffer(logs) ==
  \A c, d \in Container : \A i \in eventsOf("match", logs[c]), j \in eventsOf("match", logs[d]) :
    logs[c][i].call = logs[d][j].call => c = d /\ i = j

LogInv ==
  /\ DOMAIN log = Container /\ DOMAIN containers \subseteq Container /\ calls \in Nat
  /\ \A c \in Container :
       /\ IsList(log[c])
       /\ \A i \in DOMAIN log[c] : LogLine(log[c][i], correlated)
       /\ \A i \in eventsOf("match", log[c]) : log[c][i].call <= calls
  /\ \A c \in Container \ DOMAIN containers : log[c] = <<>>
  /\ MatchesDiffer(log)

Owns(g, c) == vendors[g].runtime = c \/ \E h \in Attempt : at[h].c = c /\ at[h].gen = g

Collecting == {"recording", "writing"}

OwnerInv ==
  /\ \A h \in Attempt : at[h].c # 0 => at[h].c \in DOMAIN containers /\ at[h].gen \in DOMAIN vendors
  /\ \A h \in Attempt : at[h].step \in Collecting \cup {"logs"} => at[h].c # 0
  /\ \A c \in DOMAIN containers, g, k \in DOMAIN vendors : Owns(g, c) /\ Owns(k, c) => g = k

\* What a collection holds was read from the log of its container; what it writes is marked.
HeldInv ==
  \A h \in Attempt :
    /\ at[h].step \in Collecting =>
         /\ IsList(at[h].todo)
         /\ \A i \in DOMAIN at[h].todo : Genuine(at[h].todo[i], log[at[h].c])
    /\ at[h].step = "writing" =>
         /\ 1 \in DOMAIN at[h].todo
         /\ ledgerKey(at[h].todo[1]) \in vendors[at[h].gen].recorded

\* What is stored was read from a log, and is marked as long as a vendor has its container.
StoredInv ==
  /\ IsList(recordedCalls)
  /\ \A i \in DOMAIN recordedCalls : \E c \in Container : Genuine(recordedCalls[i], log[c])
  /\ \A c \in DOMAIN containers, g \in DOMAIN vendors : Owns(g, c) =>
       \A i \in DOMAIN recordedCalls :
         recordedCalls[i].summary # 0 /\ Genuine(recordedCalls[i], log[c])
           => ledgerKey(recordedCalls[i]) \in vendors[g].recorded

SameCall(e, f) == e.call = f.call /\ e.summary # 0 /\ f.summary # 0

\* No two of the calls that are stored or being written are one, but for a missing summary.
OnceInv ==
  /\ \A i, j \in DOMAIN recordedCalls : i # j => ~SameCall(recordedCalls[i], recordedCalls[j])
  /\ \A h \in Attempt : at[h].step = "writing" =>
       /\ \A i \in DOMAIN recordedCalls : ~SameCall(at[h].todo[1], recordedCalls[i])
       /\ \A k \in Attempt : k # h /\ at[k].step = "writing" =>
            ~SameCall(at[h].todo[1], at[k].todo[1])

Covered ==
  {recordedCalls[i].call : i \in DOMAIN recordedCalls} \cup unwritten
    \cup {at[h].todo[1].call : h \in {k \in Attempt : at[k].step = "writing"}}

\* With correlations, a marked key is the key of a call that is accounted for.
SummaryInv ==
  correlated =>
    /\ claimed \subseteq Covered
    /\ \A g \in DOMAIN vendors : \A key \in vendors[g].recorded : key[2] \in Covered
    /\ \A h \in Attempt : at[h].step \in Collecting =>
         \A n \in at[h].all : n \in Covered \/ \E i \in DOMAIN at[h].todo : at[h].todo[i].call = n

LedgerInv == LogInv /\ OwnerInv /\ HeldInv /\ StoredInv /\ OnceInv /\ SummaryInv

LEMMA OnceImplied ==
  ASSUME StoredInv, OnceInv
  PROVE  CallsRecordedOnce
<1> SUFFICES ASSUME NEW i \in DOMAIN recordedCalls, NEW j \in DOMAIN recordedCalls,
                    i < j, recordedCalls[i].call = recordedCalls[j].call,
                    0 \notin {recordedCalls[i].summary, recordedCalls[j].summary},
                    i # j
             PROVE  FALSE
  <2>1. DOMAIN recordedCalls = 1..Len(recordedCalls) /\ Len(recordedCalls) \in Nat
    BY ListFacts DEF StoredInv
  <2>2. \A i, j \in DOMAIN recordedCalls : i < j => i # j
    BY <2>1
  <2> QED
    BY <2>2 DEF CallsRecordedOnce
<1> QED
  BY DEF OnceInv, SameCall

LEMMA LedgerInit ==
  ASSUME Init
  PROVE  LedgerInv
<1>1. \A S : <<>> \in Seq(S)
  OBVIOUS
<1>2. DOMAIN containers = {} /\ DOMAIN vendors = {} /\ DOMAIN recordedCalls = {}
  BY DEF Init
<1>3. IsList(recordedCalls) /\ \A c \in Container : IsList(log[c]) /\ DOMAIN log[c] = {}
  BY <1>1 DEF Init, IsList
<1>4. LogInv
  BY <1>2, <1>3 DEF Init, LogInv, MatchesDiffer, eventsOf
<1>5. OwnerInv /\ HeldInv
  BY <1>2 DEF Init, Idle, OwnerInv, HeldInv, Collecting
<1>6. StoredInv /\ OnceInv
  BY <1>2, <1>3 DEF Init, Idle, StoredInv, OnceInv
<1>7. SummaryInv
  BY <1>2 DEF Init, Idle, SummaryInv, Collecting
<1> QED
  BY <1>4, <1>5, <1>6, <1>7 DEF LedgerInv

\* Two readings of one call agree, once its summary is in the log.
LEMMA OneReading ==
  ASSUME NEW logs, MatchesDiffer(logs), NEW c \in Container, NEW d \in Container,
         NEW e, Genuine(e, logs[c]), NEW f, Genuine(f, logs[d]), SameCall(e, f)
  PROVE  c = d /\ ledgerKey(e) = ledgerKey(f)
<1>1. PICK m \in eventsOf("match", logs[c]) : ReadFrom(e, logs[c], m)
  BY DEF Genuine
<1>2. PICK n \in eventsOf("match", logs[d]) : ReadFrom(f, logs[d], n)
  BY DEF Genuine
<1>3. logs[c][m].call = logs[d][n].call
  BY <1>1, <1>2 DEF ReadFrom, SameCall
<1>4. c = d /\ m = n
  BY <1>3 DEF MatchesDiffer
<1> QED
  BY <1>1, <1>2, <1>4, SameReading DEF SameCall
-----------------------------------------------------------------------------
(* Steps that collect nothing.                                             *)

\* No collection begins, goes on or ends.
SameCollections ==
  \A h \in Attempt :
    /\ at'[h].step \in Collecting <=> at[h].step \in Collecting
    /\ at[h].step \in Collecting =>
         /\ at'[h].step = at[h].step /\ at'[h].todo = at[h].todo /\ at'[h].all = at[h].all
         /\ at'[h].gen = at[h].gen /\ at'[h].c = at[h].c

\* Nothing new is marked, and no vendor is lost.
SameMarks ==
  /\ DOMAIN vendors \subseteq DOMAIN vendors'
  /\ \A g \in DOMAIN vendors : vendors'[g].recorded = vendors[g].recorded
  /\ \A g \in DOMAIN vendors' \ DOMAIN vendors : vendors'[g].recorded = {}

\* A vendor comes by no container that was there.
SameOwners ==
  \A c \in DOMAIN containers, g \in DOMAIN vendors' : Owns(g, c)' => g \in DOMAIN vendors /\ Owns(g, c)

LEMMA AsideStep ==
  ASSUME LedgerInv, UNCHANGED <<log, calls, correlated, recordedCalls, claimed, unwritten>>,
         DOMAIN containers \subseteq DOMAIN containers', DOMAIN containers' \subseteq Container,
         SameCollections, SameMarks, SameOwners, OwnerInv'
  PROVE  LedgerInv'
<1>1. LogInv'
  BY DEF LedgerInv, LogInv, MatchesDiffer
<1>2. \A h \in Attempt : at[h].step \in Collecting => at[h].gen \in DOMAIN vendors
  BY DEF LedgerInv, OwnerInv
<1>3. HeldInv'
  BY <1>2 DEF LedgerInv, HeldInv, SameCollections, SameMarks, Collecting
<1>4. StoredInv'
  <2> SUFFICES ASSUME NEW c \in DOMAIN containers', NEW g \in DOMAIN vendors', Owns(g, c)',
                      NEW i \in DOMAIN recordedCalls,
                      recordedCalls[i].summary # 0, Genuine(recordedCalls[i], log[c])
               PROVE  ledgerKey(recordedCalls[i]) \in vendors'[g].recorded
    BY DEF LedgerInv, StoredInv
  <2>1. c \in DOMAIN containers
    <3> SUFFICES ASSUME c \notin DOMAIN containers
                 PROVE  FALSE
      OBVIOUS
    <3>1. log[c] = <<>>
      BY DEF LedgerInv, LogInv
    <3> QED
      BY <3>1 DEF Genuine, eventsOf
  <2> QED
    BY <2>1 DEF LedgerInv, StoredInv, SameOwners, SameMarks
<1>5. OnceInv'
  BY DEF LedgerInv, OnceInv, SameCollections, Collecting
<1>6. Covered' = Covered
  BY DEF Covered, SameCollections, Collecting
<1>7. SummaryInv'
  BY <1>6 DEF LedgerInv, SummaryInv, SameCollections, SameMarks
<1> QED
  BY <1>1, <1>3, <1>4, <1>5, <1>7 DEF LedgerInv

\* What the runtimes of the vendors are, some handler or vendor had.
SameRuntimes ==
  \A g \in DOMAIN vendors' : vendors'[g].runtime # 0 =>
    g \in DOMAIN vendors /\ Owns(g, vendors'[g].runtime)

\* A handler that collects nothing: the container it has is new, or had its vendor.
LEMMA HandlerAside ==
  ASSUME IInv, LedgerInv, NEW h \in Attempt, Others(h),
         UNCHANGED <<log, calls, correlated, recordedCalls, claimed, unwritten>>,
         DOMAIN containers \subseteq DOMAIN containers', DOMAIN containers' \subseteq Container,
         SameMarks, SameRuntimes, at[h].step \notin Collecting,
         at'[h].step \notin Collecting, at'[h].step = "logs" => at'[h].c # 0,
         at'[h].c # 0 =>
           /\ at'[h].gen \in DOMAIN vendors
           /\ \/ at'[h].c \in DOMAIN containers /\ Owns(at'[h].gen, at'[h].c)
              \/ at'[h].c \in DOMAIN containers' \ DOMAIN containers
  PROVE  LedgerInv'
<1>1. SameCollections
  BY DEF SameCollections, Others
<1>2. \A c \in Container : c # 0
  BY DEF Container
<1>3. \A k \in Attempt : k # h /\ at[k].c # 0 =>
        at[k].c \in DOMAIN containers /\ at[k].gen \in DOMAIN vendors /\ Owns(at[k].gen, at[k].c)
  BY DEF LedgerInv, OwnerInv, Owns
<1>4. \A g \in DOMAIN vendors : \A c : Owns(g, c) /\ c # 0 => c \in DOMAIN containers
  BY DEF LedgerInv, OwnerInv, Owns, IInv, VendorTypes, VendorOK
<1>5. SameOwners
  <2> SUFFICES ASSUME NEW c \in DOMAIN containers, NEW g \in DOMAIN vendors', Owns(g, c)'
               PROVE  g \in DOMAIN vendors /\ Owns(g, c)
    BY DEF SameOwners
  <2>1. c # 0
    BY <1>2
  <2>2. CASE vendors'[g].runtime = c
    BY <2>1, <2>2 DEF SameRuntimes
  <2>3. CASE \E k \in Attempt : at'[k].c = c /\ at'[k].gen = g
    BY <1>3, <2>1, <2>3 DEF Others
  <2> QED
    BY <2>2, <2>3 DEF Owns
<1>6. OwnerInv'
  <2>1. \A k \in Attempt : at'[k].c # 0 => at'[k].c \in DOMAIN containers' /\ at'[k].gen \in DOMAIN vendors'
    BY <1>3 DEF Others, SameMarks
  <2>2. \A k \in Attempt : at'[k].step \in Collecting \cup {"logs"} => at'[k].c # 0
    BY DEF Others, LedgerInv, OwnerInv
  <2>3. ASSUME NEW c \in DOMAIN containers', NEW g \in DOMAIN vendors', NEW k \in DOMAIN vendors',
               Owns(g, c)', Owns(k, c)'
        PROVE  g = k
    <3>1. CASE c \in DOMAIN containers
      BY <1>5, <2>3, <3>1 DEF SameOwners, LedgerInv, OwnerInv
    <3>2. CASE c \notin DOMAIN containers
      <4>1. c # 0
        BY <1>2
      <4>2. \A f \in DOMAIN vendors' : vendors'[f].runtime # c
        BY <1>4, <3>2, <4>1 DEF SameRuntimes
      <4>3. \A f \in Attempt : at'[f].c = c => f = h
        BY <1>3, <3>2, <4>1 DEF Others
      <4> QED
        BY <2>3, <4>2, <4>3 DEF Owns
    <3> QED
      BY <3>1, <3>2
  <2> QED
    BY <2>1, <2>2, <2>3 DEF OwnerInv
<1> QED
  BY <1>1, <1>5, <1>6, AsideStep

\* The containers are those of before, and their vendors too.
LEMMA SameVendorsAside ==
  ASSUME IInv, LedgerInv, UNCHANGED vendors
  PROVE  SameMarks /\ SameRuntimes
<1>1. \A g \in DOMAIN vendors : Owns(g, vendors[g].runtime)
  BY DEF Owns
<1> QED
  BY <1>1 DEF SameMarks, SameRuntimes

LEMMA OwnedByHandler ==
  ASSUME IInv, LedgerInv, NEW h \in Attempt, at[h].c # 0
  PROVE  at[h].c \in DOMAIN containers /\ at[h].gen \in DOMAIN vendors /\ Owns(at[h].gen, at[h].c)
  BY DEF LedgerInv, OwnerInv, Owns

\* A handler moves on, or ends, and keeps its container.
LEMMA MovesAside ==
  ASSUME IInv, LedgerInv, NEW h \in Attempt, NEW s, s \notin Collecting \cup {"logs"}, Goes(h, s) \/ Ends(h),
         UNCHANGED <<log, calls, correlated, recordedCalls, claimed, unwritten>>,
         DOMAIN containers \subseteq DOMAIN containers', DOMAIN containers' \subseteq Container,
         SameMarks, SameRuntimes, at[h].step \notin Collecting
  PROVE  LedgerInv'
<1>1. HandlerTypes
  BY DEF IInv
<1>2. CASE Ends(h)
  <2>1. Others(h) /\ at'[h].c = 0 /\ at'[h].step = "idle"
    BY <1>1, <1>2, EndsFacts DEF Idle
  <2> QED
    BY <2>1, HandlerAside DEF Collecting
<1>3. CASE Goes(h, s)
  <2>1. Others(h) /\ at'[h].c = at[h].c /\ at'[h].gen = at[h].gen /\ at'[h].step = s
    BY <1>1, <1>3, GoesFacts
  <2> QED
    BY <2>1, OwnedByHandler, HandlerAside
<1> QED
  BY <1>2, <1>3

LEMMA ContainersStay ==
  ASSUME LedgerInv, DOMAIN containers' = DOMAIN containers
  PROVE  DOMAIN containers \subseteq DOMAIN containers' /\ DOMAIN containers' \subseteq Container
  BY DEF LedgerInv, LogInv

LEMMA BeginsAside ==
  ASSUME IInv, LedgerInv, NEW h \in Attempt, NEW op, NEW step, NEW c, Begins(h, op, step, c),
         UNCHANGED vendors, step \notin Collecting, step = "logs" => c # 0,
         c # 0 => Len(vendors) \in DOMAIN vendors /\ c = vendors[Len(vendors)].runtime
  PROVE  LedgerInv'
<1>1. UNCHANGED <<log, calls, correlated, recordedCalls, claimed, unwritten, containers>>
  BY DEF Begins, docker, database
<1>2. /\ Others(h) /\ at'[h].step = step /\ at'[h].c = c /\ at'[h].gen = Len(vendors)
      /\ at[h].step = "idle"
  <2>1. HandlerTypes /\ Begins(h, op, step, c)
    BY DEF IInv
  <2>2. /\ Others(h) /\ DOMAIN at'[h] = HandlerFields /\ at'[h].step = step /\ at'[h].c = c
        /\ at'[h].gen = Len(vendors) /\ at'[h].aborted = FALSE /\ at[h].step = "idle"
        /\ phase = "running" /\ UNCHANGED <<containers, forgotten, leases, unleased, phase>>
    BY <2>1, BeginsFacts
  <2> QED
    BY <2>2
<1>3. c # 0 => c \in DOMAIN containers /\ Owns(Len(vendors), c)
  BY DEF IInv, VendorTypes, VendorOK, Owns
<1>4. DOMAIN containers \subseteq DOMAIN containers' /\ DOMAIN containers' \subseteq Container
  BY <1>1, ContainersStay
<1>5. at[h].step \notin Collecting
  BY <1>2 DEF Collecting
<1> QED
  BY <1>1, <1>2, <1>3, <1>4, <1>5, SameVendorsAside, HandlerAside

LEMMA BeginsLedger ==
  ASSUME IInv, LedgerInv, NEW h \in Attempt,
         \/ Compile(h) \/ StartRuntime(h)
         \/ Collect(h, "collect-ledger", "logs") \/ Collect(h, "collect-state", "snapshot")
  PROVE  LedgerInv'
<1>1. CASE Compile(h)
  <2>1. Begins(h, "compile", "compiling", 0) /\ UNCHANGED vendors
    BY <1>1 DEF Compile, platform
  <2> QED
    BY <2>1, BeginsAside DEF Collecting
<1>2. ASSUME vendors # <<>>
      PROVE  Len(vendors) \in DOMAIN vendors /\ Last(vendors) = vendors[Len(vendors)]
  BY <1>2, LastVendor DEF IInv
<1>3. CASE StartRuntime(h)
  <2>1. PICK step : /\ Begins(h, "start", step, Last(vendors).runtime) /\ UNCHANGED vendors
                    /\ step \in {"docker-run", "leasing", "observing"} /\ vendors # <<>>
    BY <1>3 DEF StartRuntime
  <2> QED
    BY <1>2, <2>1, BeginsAside DEF Collecting
<1>4. ASSUME NEW op, NEW step \in {"logs", "snapshot"}, Collect(h, op, step)
      PROVE  LedgerInv'
  <2>1. /\ Begins(h, op, step, Last(vendors).runtime) /\ UNCHANGED vendors
        /\ vendors # <<>> /\ Last(vendors).runtime # 0
    BY <1>4 DEF Collect
  <2> QED
    BY <1>2, <2>1, BeginsAside DEF Collecting
<1> QED
  BY <1>1, <1>3, <1>4

LEMMA CompiledLedger ==
  ASSUME IInv, LedgerInv, NEW h \in Attempt, Compiled(h)
  PROVE  LedgerInv'
<1>1. /\ at[h].step = "compiling" /\ vendors' = Append(vendors, NewVendor) /\ Goes(h, "artifacts")
      /\ UNCHANGED <<log, calls, correlated, recordedCalls, claimed, unwritten, containers>>
  BY DEF Compiled, handlersOnly, docker, database
<1>2. SameMarks /\ SameRuntimes
  <2>1. PICK s, x : s = vendors /\ x = NewVendor
    OBVIOUS
  <2>2. PICK t : t = Append(s, x)
    OBVIOUS
  <2>3. IsList(s)
    BY <2>1 DEF IInv, VendorTypes
  <2>4. /\ DOMAIN t = 1..(Len(s) + 1) /\ t[Len(s) + 1] = x /\ \A i \in 1..Len(s) : t[i] = s[i]
        /\ DOMAIN s = 1..Len(s) /\ Len(s) \in Nat
    BY <2>2, <2>3, ListAppend, ListFacts
  <2>5. x.runtime = 0 /\ x.recorded = {}
    BY <2>1 DEF NewVendor
  <2>6. vendors' = t
    BY <1>1, <2>1, <2>2
  <2>7. SameMarks
    BY <2>1, <2>4, <2>5, <2>6 DEF SameMarks
  <2>8. SameRuntimes
    BY <2>1, <2>4, <2>5, <2>6 DEF SameRuntimes, Owns
  <2> QED
    BY <2>7, <2>8
<1>3. at[h].step \notin Collecting /\ "artifacts" \notin Collecting \cup {"logs"}
  BY <1>1 DEF Collecting
<1>4. DOMAIN containers \subseteq DOMAIN containers' /\ DOMAIN containers' \subseteq Container
  BY <1>1, ContainersStay
<1> QED
  BY <1>1, <1>2, <1>3, <1>4, MovesAside

\* What the steps of a start, a compilation and a snapshot leave alone.
LedgerAlone == UNCHANGED <<log, calls, correlated, recordedCalls, claimed, unwritten>>

LEMMA SimpleMoves ==
  ASSUME IInv, LedgerInv, NEW h \in Attempt,
         \/ CompileFails(h) \/ Recorded(h) \/ RuntimeReady(h)
         \/ \E ok \in BOOLEAN : SnapshotRead(h, ok) \/ RuntimeUnready(h, ok) \/ LeaseFails(h, ok)
  PROVE  LedgerInv'
<1>1. /\ LedgerAlone /\ DOMAIN containers' = DOMAIN containers /\ UNCHANGED vendors
      /\ at[h].step \in {"compiling", "artifacts", "observing", "waiting", "snapshot", "leasing"}
      /\ \E s \in {"ready", "observing"} : Goes(h, s) \/ Ends(h)
  BY DEF CompileFails, Recorded, RuntimeReady, SnapshotRead, RuntimeUnready, LeaseFails, LedgerAlone,
     platform, handlersOnly, docker, database, removeContainer, Settles
<1>2. PICK s \in {"ready", "observing"} : Goes(h, s) \/ Ends(h)
  BY <1>1
<1>3. at[h].step \notin Collecting /\ s \notin Collecting \cup {"logs"}
  BY <1>1 DEF Collecting
<1>4. DOMAIN containers \subseteq DOMAIN containers' /\ DOMAIN containers' \subseteq Container
  BY <1>1, ContainersStay
<1> QED
  BY <1>1, <1>2, <1>3, <1>4, SameVendorsAside, MovesAside DEF LedgerAlone

LEMMA StoredLedger ==
  ASSUME IInv, LedgerInv, NEW h \in Attempt, RuntimeStored(h) \/ LeaseStored(h)
  PROVE  LedgerInv'
<1>1. /\ LedgerAlone /\ DOMAIN containers' = DOMAIN containers
      /\ at[h].step \in {"ready", "leasing"}
      /\ \E s \in {"leasing", "observing"} : Goes(h, s)
      /\ \/ \E r \in BOOLEAN : vendors' = [vendors EXCEPT ![at[h].gen].leased = r]
         \/ vendors' = [vendors EXCEPT ![at[h].gen].runtime = at[h].c]
  BY DEF RuntimeStored, LeaseStored, LedgerAlone, handlersOnly, docker, database
<1>2. PICK s \in {"leasing", "observing"} : Goes(h, s)
  BY <1>1
<1>3. at[h].step \notin Collecting /\ s \notin Collecting \cup {"logs"}
  BY <1>1 DEF Collecting
<1>4. DOMAIN containers \subseteq DOMAIN containers' /\ DOMAIN containers' \subseteq Container
  BY <1>1, ContainersStay
<1>5. at[h].gen \in DOMAIN vendors /\ Owns(at[h].gen, at[h].c)
  BY <1>1 DEF IInv, HandlerTypes, HandlerOK, Holding, Owns
<1>6. \A g \in DOMAIN vendors : Owns(g, vendors[g].runtime) /\ DOMAIN vendors[g] = VendorFields
  BY DEF Owns, IInv, VendorTypes, VendorOK
<1>7. DOMAIN vendors' = DOMAIN vendors
  BY <1>1
<1>8. \A g \in DOMAIN vendors : /\ vendors'[g].recorded = vendors[g].recorded
                                /\ \/ vendors'[g].runtime = vendors[g].runtime
                                   \/ g = at[h].gen /\ vendors'[g].runtime = at[h].c
  <2>1. \A g \in DOMAIN vendors : DOMAIN vendors[g] = VendorFields
    BY <1>6
  <2>2. ASSUME NEW r, vendors' = [vendors EXCEPT ![at[h].gen].leased = r], NEW g \in DOMAIN vendors
        PROVE  vendors'[g].recorded = vendors[g].recorded /\ vendors'[g].runtime = vendors[g].runtime
    BY <2>1, <2>2 DEF VendorFields
  <2>3. ASSUME vendors' = [vendors EXCEPT ![at[h].gen].runtime = at[h].c], NEW g \in DOMAIN vendors
        PROVE  /\ vendors'[g].recorded = vendors[g].recorded
               /\ vendors'[g].runtime = IF g = at[h].gen THEN at[h].c ELSE vendors[g].runtime
    BY <2>1, <2>3 DEF VendorFields
  <2> QED
    BY <1>1, <2>2, <2>3
<1>9. SameMarks /\ SameRuntimes
  BY <1>5, <1>6, <1>7, <1>8 DEF SameMarks, SameRuntimes
<1> QED
  BY <1>1, <1>2, <1>3, <1>4, <1>9, MovesAside DEF LedgerAlone

LEMMA DockerRunLedger ==
  ASSUME IInv, LedgerInv, NEW h \in Attempt,
         DockerRun(h) \/ \E created \in BOOLEAN : DockerRunFails(h, created)
  PROVE  LedgerInv'
<1> DEFINE n == Len(containers) + 1
<1>1. /\ LedgerAlone /\ UNCHANGED vendors /\ at[h].step = "docker-run"
      /\ \/ UNCHANGED containers /\ Ends(h)
         \/ /\ Len(containers) < MaxContainers /\ containers' = Append(containers, "running")
            /\ Ends(h) \/ at' = [at EXCEPT ![h].step = "waiting", ![h].c = n]
  BY DEF DockerRun, DockerRunFails, LedgerAlone, Settles, database
<1>2. at[h].step \notin Collecting /\ "waiting" \notin Collecting \cup {"logs"}
  BY <1>1 DEF Collecting
<1>3. SameMarks /\ SameRuntimes
  BY <1>1, SameVendorsAside
<1>4. containers \in Seq({"running", "removed"}) /\ Len(containers) \in Nat /\ MaxContainers \in Nat
  BY BoundsAssumption DEF IInv, ContainerTypes
<1>5. DOMAIN containers \subseteq DOMAIN containers' /\ DOMAIN containers' \subseteq Container
  <2>1. CASE UNCHANGED containers
    BY <2>1, ContainersStay
  <2>2. CASE Len(containers) < MaxContainers /\ containers' = Append(containers, "running")
    <3>1. DOMAIN containers' = 1..n /\ DOMAIN containers = 1..Len(containers)
      BY <1>4, <2>2
    <3> QED
      BY <1>4, <2>2, <3>1 DEF Container
  <2> QED
    BY <1>1, <2>1, <2>2
<1>6. CASE Ends(h)
  BY <1>1, <1>2, <1>3, <1>5, <1>6, MovesAside DEF LedgerAlone
<1>7. CASE /\ at' = [at EXCEPT ![h].step = "waiting", ![h].c = n]
           /\ containers' = Append(containers, "running")
  <2>1. DOMAIN at = Attempt /\ DOMAIN at[h] = HandlerFields /\ at[h].gen \in DOMAIN vendors
    BY <1>1 DEF IInv, HandlerTypes, HandlerOK
  <2>2. /\ Others(h) /\ at'[h].step = "waiting" /\ at'[h].c = n /\ at'[h].gen = at[h].gen
    BY <1>7, <2>1 DEF Others, HandlerFields
  <2>3. n \in DOMAIN containers' \ DOMAIN containers
    BY <1>4, <1>7
  <2> HIDE DEF n
  <2> QED
    BY <1>1, <1>2, <1>3, <1>5, <2>1, <2>2, <2>3, HandlerAside DEF LedgerAlone
<1> QED
  BY <1>1, <1>6, <1>7

\* Steps that leave every handler where it stands.
LEMMA BystanderStep ==
  ASSUME IInv, LedgerInv, LedgerAlone, DOMAIN containers' = DOMAIN containers,
         DOMAIN vendors' = DOMAIN vendors,
         \A g \in DOMAIN vendors : /\ vendors'[g].recorded = vendors[g].recorded
                                   /\ vendors'[g].runtime \in {0, vendors[g].runtime},
         \A h \in Attempt : /\ at'[h].step = at[h].step /\ at'[h].todo = at[h].todo
                            /\ at'[h].all = at[h].all /\ at'[h].gen = at[h].gen /\ at'[h].c = at[h].c
  PROVE  LedgerInv'
<1>1. SameCollections /\ SameMarks
  BY DEF SameCollections, SameMarks
<1>2. \A c \in DOMAIN containers : c # 0
  BY DEF LedgerInv, LogInv, Container
<1>3. \A c \in DOMAIN containers, g \in DOMAIN vendors : Owns(g, c)' => Owns(g, c)
  BY <1>2 DEF Owns
<1>4. SameOwners
  BY <1>3 DEF SameOwners
<1>5. OwnerInv'
  BY <1>3 DEF LedgerInv, OwnerInv
<1>6. DOMAIN containers \subseteq DOMAIN containers' /\ DOMAIN containers' \subseteq Container
  BY ContainersStay
<1> QED
  BY <1>1, <1>4, <1>5, <1>6, AsideStep DEF LedgerAlone

LEMMA EndLedger ==
  ASSUME IInv, LedgerInv,
         \/ BeginCleanup \/ CleanState \/ UNCHANGED vars
         \/ \E h \in Attempt : Abandon(h)
         \/ \E c \in DOMAIN containers, works \in BOOLEAN : Recover(c, works)
  PROVE  LedgerInv'
<1>1. LedgerAlone /\ DOMAIN containers' = DOMAIN containers /\ UNCHANGED vendors
  BY DEF BeginCleanup, CleanState, vars, Abandon, Recover, LedgerAlone, platform, docker, database,
     removeContainer
<1>2. \/ UNCHANGED at
      \/ \E h \in Attempt : at' = [at EXCEPT ![h].aborted = TRUE]
      \/ at' = [h \in Attempt |-> [at[h] EXCEPT !.aborted = Heeds(h)]]
  BY DEF BeginCleanup, CleanState, vars, Abandon, Recover
<1>3. DOMAIN at = Attempt /\ \A h \in Attempt : DOMAIN at[h] = HandlerFields
  BY DEF IInv, HandlerTypes, HandlerOK
<1>4. \A h \in Attempt : /\ at'[h].step = at[h].step /\ at'[h].todo = at[h].todo
                         /\ at'[h].all = at[h].all /\ at'[h].gen = at[h].gen /\ at'[h].c = at[h].c
  <2>1. ASSUME NEW h \in Attempt, at' = [at EXCEPT ![h].aborted = TRUE], NEW k \in Attempt
        PROVE  /\ at'[k].step = at[k].step /\ at'[k].todo = at[k].todo
               /\ at'[k].all = at[k].all /\ at'[k].gen = at[k].gen /\ at'[k].c = at[k].c
    BY <1>3, <2>1 DEF HandlerFields
  <2>2. ASSUME at' = [h \in Attempt |-> [at[h] EXCEPT !.aborted = Heeds(h)]], NEW k \in Attempt
        PROVE  /\ at'[k].step = at[k].step /\ at'[k].todo = at[k].todo
               /\ at'[k].all = at[k].all /\ at'[k].gen = at[k].gen /\ at'[k].c = at[k].c
    BY <1>3, <2>2 DEF HandlerFields
  <2> QED
    BY <1>2, <2>1, <2>2
<1> QED
  BY <1>1, <1>4, BystanderStep

LEMMA CleanLeaseLedger ==
  ASSUME IInv, LedgerInv, NEW works \in BOOLEAN, CleanLease(works)
  PROVE  LedgerInv'
<1>1. LedgerAlone /\ DOMAIN containers' = DOMAIN containers /\ UNCHANGED at
  BY DEF CleanLease, LedgerAlone, removeContainer
<1>2. \E c : vendors' = [g \in DOMAIN vendors |->
                           [vendors[g] EXCEPT !.runtime = IF @ = c THEN 0 ELSE @,
                                              !.stopped = IF vendors[g].runtime = c
                                                          THEN @ \cup {c} ELSE @]]
  BY DEF CleanLease
<1>3. \A g \in DOMAIN vendors : DOMAIN vendors[g] = VendorFields
  BY DEF IInv, VendorTypes, VendorOK
<1>4. DOMAIN vendors' = DOMAIN vendors
  BY <1>2
<1>5. \A g \in DOMAIN vendors : /\ vendors'[g].recorded = vendors[g].recorded
                                /\ vendors'[g].runtime \in {0, vendors[g].runtime}
  BY <1>2, <1>3 DEF VendorFields
<1> QED
  BY <1>1, <1>4, <1>5, BystanderStep

LEMMA CrashLedger ==
  ASSUME IInv, LedgerInv, Crash
  PROVE  LedgerInv'
<1>1. /\ at' = [h \in Attempt |-> Idle] /\ vendors' = <<>>
      /\ UNCHANGED <<containers, log, calls, correlated, recordedCalls, claimed>>
      /\ unwritten' = unwritten \cup {at[h].todo[1].call : h \in {k \in Attempt : at[k].step = "writing"}}
  BY DEF Crash, docker
<1>2. DOMAIN vendors' = {} /\ \A h \in Attempt : at'[h].step = "idle" /\ at'[h].c = 0
  BY <1>1 DEF Idle
<1>3. LogInv'
  BY <1>1 DEF LedgerInv, LogInv, MatchesDiffer
<1>4. OwnerInv' /\ HeldInv'
  BY <1>2 DEF OwnerInv, HeldInv, Collecting
<1>5. StoredInv' /\ OnceInv'
  BY <1>1, <1>2 DEF LedgerInv, StoredInv, OnceInv
<1>6. Covered' = Covered
  BY <1>1, <1>2 DEF Covered
<1>7. SummaryInv'
  BY <1>1, <1>2, <1>6 DEF LedgerInv, SummaryInv, Collecting
<1> QED
  BY <1>3, <1>4, <1>5, <1>7 DEF LedgerInv
-----------------------------------------------------------------------------
(* The calls a container serves.                                           *)

LEMMA GenuineKept ==
  ASSUME NEW old, NEW new, Grows(old, new),
         NEW corrs, \A i \in DOMAIN new : LogLine(new[i], corrs),
         NEW e, Genuine(e, old)
  PROVE  Genuine(e, new)
  BY ReadingKept DEF Genuine

LEMMA LogsGrow ==
  ASSUME IInv, LedgerInv, LogInv',
         UNCHANGED <<containers, vendors, at, correlated, recordedCalls, claimed, unwritten>>,
         \A c \in Container : Grows(log[c], log'[c])
  PROVE  LedgerInv'
<1>1. PICK logs : logs = log'
  OBVIOUS
<1>2. MatchesDiffer(logs) /\ \A c \in Container : \A i \in DOMAIN logs[c] : LogLine(logs[c][i], correlated)
  BY <1>1 DEF LogInv
<1>3. \A c \in Container : \A e : Genuine(e, log[c]) => Genuine(e, logs[c])
  BY <1>1, <1>2, GenuineKept
<1>4. OwnerInv' /\ OnceInv'
  BY DEF LedgerInv, OwnerInv, Owns, OnceInv
<1>5. HeldInv'
  <2>1. \A h \in Attempt : at[h].step \in Collecting => at[h].c \in Container
    BY DEF LedgerInv, OwnerInv, LogInv
  <2> QED
    BY <1>1, <1>3, <2>1 DEF LedgerInv, HeldInv
<1>6. StoredInv'
  <2>1. \A i \in DOMAIN recordedCalls : \E c \in Container : Genuine(recordedCalls[i], logs[c])
    BY <1>3 DEF LedgerInv, StoredInv
  <2> SUFFICES ASSUME NEW c \in DOMAIN containers, NEW g \in DOMAIN vendors, Owns(g, c),
                      NEW i \in DOMAIN recordedCalls,
                      recordedCalls[i].summary # 0, Genuine(recordedCalls[i], logs[c])
               PROVE  ledgerKey(recordedCalls[i]) \in vendors[g].recorded
    BY <1>1, <2>1 DEF LedgerInv, StoredInv, Owns
  <2>2. PICK d \in Container : Genuine(recordedCalls[i], log[d])
    BY DEF LedgerInv, StoredInv
  <2>3. Genuine(recordedCalls[i], logs[d]) /\ c \in Container
    BY <1>3, <2>2 DEF LedgerInv, LogInv
  <2>4. c = d
    BY <1>2, <2>3, OneReading DEF SameCall
  <2> QED
    BY <2>2, <2>4 DEF LedgerInv, StoredInv
<1>7. SummaryInv'
  BY DEF LedgerInv, SummaryInv, Covered
<1> QED
  BY <1>4, <1>5, <1>6, <1>7 DEF LedgerInv

LEMMA EventIsLine ==
  ASSUME NEW kind \in {"match", "state", "summary"}, NEW n \in Nat \ {0}
  PROVE  /\ LogLine(event(kind, n, corrOf(n)), correlated)
         /\ event(kind, n, corrOf(n)).call = n /\ event(kind, n, corrOf(n)).kind = kind
  BY DEF LogLine, event, corrOf

LEMMA AppendGrows ==
  ASSUME NEW s, IsList(s), NEW x
  PROVE  Grows(s, Append(s, x))
<1>1. DOMAIN s = 1..Len(s) /\ Len(s) \in Nat
  BY ListFacts
<1>2. /\ IsList(Append(s, x)) /\ DOMAIN Append(s, x) = 1..(Len(s) + 1)
      /\ \A i \in 1..Len(s) : Append(s, x)[i] = s[i]
  BY ListAppend
<1> QED
  BY <1>1, <1>2 DEF Grows

LEMMA ConcatTwo ==
  ASSUME NEW s, IsList(s), NEW x, NEW y
  PROVE  s \o <<x, y>> = Append(Append(s, x), y)
<1>1. PICK S : s \in Seq(S)
  BY DEF IsList
<1>2. s \in Seq(S \cup {x, y}) /\ <<x, y>> \in Seq(S \cup {x, y})
  BY <1>1
<1> QED
  BY <1>2

LEMMA GrowsOn ==
  ASSUME NEW r, NEW s, NEW t, Grows(r, s), Grows(s, t)
  PROVE  Grows(r, t)
<1>1. \A i \in DOMAIN t \ DOMAIN r : \A j \in DOMAIN r : j < i
  BY DEF Grows
<1> QED
  BY <1>1 DEF Grows

LEMMA GrowsSelf ==
  ASSUME NEW s, IsList(s)
  PROVE  Grows(s, s)
  BY DEF Grows

LEMMA AnsweredLedger ==
  ASSUME IInv, LedgerInv, NEW c \in DOMAIN containers, NEW n \in 1..MaxCalls, Answered(c, n)
  PROVE  LedgerInv'
<1> DEFINE e == event("summary", n, corrOf(n))
<1>1. /\ UNCHANGED <<containers, vendors, at, correlated, recordedCalls, claimed, unwritten, calls>>
      /\ log' = [log EXCEPT ![c] = Append(@, e)]
  BY DEF Answered, platform, database
<1>2. c \in Container /\ DOMAIN log = Container /\ \A d \in Container : IsList(log[d])
  BY DEF LedgerInv, LogInv
<1>3. LogLine(e, correlated) /\ e.kind = "summary"
  <2>1. n \in Nat \ {0}
    BY BoundsAssumption
  <2> QED
    BY <2>1, EventIsLine
<1>4. \A d \in Container : log'[d] = IF d = c THEN Append(log[c], e) ELSE log[d]
  BY <1>1, <1>2
<1> HIDE DEF e
<1>5. \A d \in Container : Grows(log[d], log'[d])
  BY <1>2, <1>4, AppendGrows, GrowsSelf
<1>6. /\ DOMAIN Append(log[c], e) = 1..(Len(log[c]) + 1) /\ DOMAIN log[c] = 1..Len(log[c])
      /\ Len(log[c]) \in Nat
      /\ Append(log[c], e)[Len(log[c]) + 1] = e
      /\ \A i \in 1..Len(log[c]) : Append(log[c], e)[i] = log[c][i]
  BY <1>2, ListAppend, ListFacts
<1>7. \A d \in Container : \A i \in DOMAIN log'[d] :
        \/ i \in DOMAIN log[d] /\ log'[d][i] = log[d][i]
        \/ log'[d][i] = e
  <2> DEFINE t == Append(log[c], e)
  <2>1. \A i \in DOMAIN t : (i \in DOMAIN log[c] /\ t[i] = log[c][i]) \/ t[i] = e
    BY <1>6
  <2>2. \A d \in Container : log'[d] = IF d = c THEN t ELSE log[d]
    BY <1>4
  <2> HIDE DEF t
  <2> QED
    BY <2>1, <2>2
<1>8. \A d \in Container : /\ eventsOf("match", log'[d]) = eventsOf("match", log[d])
                           /\ \A i \in eventsOf("match", log[d]) : log'[d][i] = log[d][i]
  BY <1>3, <1>5, <1>7 DEF eventsOf, Grows
<1>9. LogInv'
  <2>1. DOMAIN log' = Container
    BY <1>1, <1>2
  <2>2. \A d \in Container : IsList(log'[d]) /\ \A i \in DOMAIN log'[d] : LogLine(log'[d][i], correlated)
    BY <1>3, <1>5, <1>7 DEF LedgerInv, LogInv, Grows
  <2>3. MatchesDiffer(log')
    BY <1>8 DEF LedgerInv, LogInv, MatchesDiffer
  <2> QED
    BY <1>1, <1>4, <1>8, <2>1, <2>2, <2>3 DEF LedgerInv, LogInv
<1> QED
  BY <1>1, <1>5, <1>9, LogsGrow

LEMMA CalledLedger ==
  ASSUME IInv, LedgerInv, NEW c \in DOMAIN containers, Called(c)
  PROVE  LedgerInv'
<1> DEFINE n == calls + 1
           e == event("match", n, corrOf(n))
           f == event("state", n, corrOf(n))
<1>1. /\ UNCHANGED <<containers, vendors, at, correlated, recordedCalls, claimed, unwritten>>
      /\ calls' = n /\ log' = [log EXCEPT ![c] = @ \o <<event("match", calls', corrOf(calls')),
                                                         event("state", calls', corrOf(calls'))>>]
  BY DEF Called, platform, database
<1>2. c \in Container /\ DOMAIN log = Container /\ (\A d \in Container : IsList(log[d])) /\ calls \in Nat
  BY DEF LedgerInv, LogInv
<1>3. /\ LogLine(e, correlated) /\ e.kind = "match" /\ e.call = n
      /\ LogLine(f, correlated) /\ f.kind = "state"
  <2>1. n \in Nat \ {0}
    BY <1>2
  <2> QED
    BY <2>1, EventIsLine
<1>4. \A d \in Container : log'[d] = IF d = c THEN Append(Append(log[c], e), f) ELSE log[d]
  <2>1. log' = [log EXCEPT ![c] = log[c] \o <<e, f>>]
    BY <1>1 DEF corrOf
  <2>2. log[c] \o <<e, f>> = Append(Append(log[c], e), f)
    BY <1>2, ConcatTwo
  <2> QED
    BY <1>2, <2>1, <2>2
<1> HIDE DEF e, f
<1>5. /\ IsList(Append(log[c], e))
      /\ DOMAIN Append(log[c], e) = 1..(Len(log[c]) + 1) /\ DOMAIN log[c] = 1..Len(log[c])
      /\ Len(log[c]) \in Nat
      /\ Append(log[c], e)[Len(log[c]) + 1] = e
      /\ \A i \in 1..Len(log[c]) : Append(log[c], e)[i] = log[c][i]
  BY <1>2, ListAppend, ListFacts
<1> DEFINE s == Append(log[c], e)
           t == Append(s, f)
           last == Len(log[c]) + 1
<1>6. /\ Len(s) = last
      /\ DOMAIN t = 1..(Len(s) + 1) /\ t[Len(s) + 1] = f /\ \A i \in 1..Len(s) : t[i] = s[i]
  <2>1. IsList(s) /\ DOMAIN s = 1..last /\ last \in Nat
    BY <1>5
  <2>2. DOMAIN s = 1..Len(s) /\ Len(s) \in Nat
    BY <2>1, ListFacts
  <2> HIDE DEF s, last
  <2> QED
    BY <2>1, <2>2, ListAppend
<1>7. /\ DOMAIN t = 1..(last + 1) /\ t[last + 1] = f /\ t[last] = e
      /\ \A i \in DOMAIN log[c] : t[i] = log[c][i]
      /\ DOMAIN log[c] = 1..(last - 1) /\ last \in Nat \ {0}
  <2>1. \A i \in 1..(last - 1) : i \in 1..last
    BY <1>5
  <2> QED
    BY <1>5, <1>6, <2>1
<1>8. \A d \in Container : Grows(log[d], log'[d])
  <2>1. Grows(log[c], s) /\ Grows(s, t)
    BY <1>2, <1>5, AppendGrows
  <2>2. Grows(log[c], t)
    <3> HIDE DEF s, t
    <3> QED
      BY <2>1, GrowsOn
  <2> QED
    BY <1>2, <1>4, <2>2, GrowsSelf
<1>9. \A d \in Container : \A i \in DOMAIN log'[d] :
        \/ i \in DOMAIN log[d] /\ log'[d][i] = log[d][i]
        \/ d = c /\ i = last /\ log'[d][i] = e
        \/ d = c /\ log'[d][i] = f
  <2> HIDE DEF t, s, last
  <2>1. \A i \in DOMAIN t : i \in DOMAIN log[c] \/ i = last \/ i = last + 1
    BY <1>7
  <2>2. \A d \in Container : log'[d] = IF d = c THEN t ELSE log[d]
    BY <1>4 DEF t, s
  <2> QED
    BY <1>7, <2>1, <2>2
<1> HIDE DEF s, t, last, n
<1>10. \A d \in Container : \A i \in eventsOf("match", log'[d]) :
         \/ i \in eventsOf("match", log[d]) /\ log'[d][i] = log[d][i]
         \/ d = c /\ i = last /\ log'[d][i].call = n
  BY <1>3, <1>9 DEF eventsOf
<1>11. \A d \in Container : \A i \in eventsOf("match", log[d]) : log[d][i].call # n /\ log[d][i].call <= n
  <2>1. \A d \in Container : \A i \in eventsOf("match", log[d]) : log[d][i].call <= calls /\ log[d][i].call \in Nat
    BY DEF LedgerInv, LogInv, LogLine, eventsOf
  <2> QED
    BY <1>2, <2>1 DEF n
<1>12. LogInv'
  <2>1. DOMAIN log' = Container /\ calls' \in Nat
    BY <1>1, <1>2 DEF n
  <2>2. \A d \in Container : IsList(log'[d]) /\ \A i \in DOMAIN log'[d] : LogLine(log'[d][i], correlated)
    BY <1>3, <1>8, <1>9 DEF LedgerInv, LogInv, Grows
  <2>3. MatchesDiffer(log')
    BY <1>10, <1>11 DEF LedgerInv, LogInv, MatchesDiffer
  <2>4. \A d \in Container : \A i \in eventsOf("match", log'[d]) : log'[d][i].call <= calls'
    <3>1. n <= n
      BY <1>2 DEF n
    <3>2. calls' = n
      BY <1>1
    <3>3. ASSUME NEW d \in Container, NEW i \in eventsOf("match", log'[d])
          PROVE  log'[d][i].call <= n
      BY <1>10, <1>11, <3>1, <3>3
    <3> QED
      BY <3>2, <3>3
  <2>5. \A d \in Container \ DOMAIN containers : log'[d] = <<>>
    BY <1>4 DEF LedgerInv, LogInv
  <2> QED
    BY <1>1, <2>1, <2>2, <2>3, <2>4, <2>5 DEF LedgerInv, LogInv
<1> QED
  BY <1>1, <1>8, <1>12, LogsGrow
-----------------------------------------------------------------------------
(* The collections.                                                        *)

\* A step of a collection: its container, and the vendors' runtimes, are as they were.
Collects(h) ==
  /\ Others(h) /\ UNCHANGED <<containers, log, calls, correlated>>
  /\ DOMAIN vendors' = DOMAIN vendors
  /\ \A g \in DOMAIN vendors : /\ vendors'[g].runtime = vendors[g].runtime
                               /\ vendors[g].recorded \subseteq vendors'[g].recorded
  /\ \/ at'[h].step = "idle" /\ at'[h].c = 0
     \/ at'[h].c = at[h].c /\ at'[h].gen = at[h].gen
  /\ at[h].step \in Collecting \cup {"logs"}

LEMMA CollectsFacts ==
  ASSUME LedgerInv, NEW h \in Attempt, Collects(h)
  PROVE  /\ LogInv' /\ OwnerInv'
         /\ \A c \in DOMAIN containers, g \in DOMAIN vendors : Owns(g, c)' => Owns(g, c)
         /\ at[h].c \in DOMAIN containers /\ at[h].c \in Container /\ at[h].gen \in DOMAIN vendors
         /\ Owns(at[h].gen, at[h].c)
<1>1. LogInv'
  BY DEF Collects, LedgerInv, LogInv
<1>2. \A c \in DOMAIN containers : c # 0
  BY DEF LedgerInv, LogInv, Container
<1>3. \A c \in DOMAIN containers, g \in DOMAIN vendors : Owns(g, c)' => Owns(g, c)
  BY <1>2 DEF Owns, Collects, Others
<1>4. /\ at[h].c \in DOMAIN containers /\ at[h].c \in Container /\ at[h].gen \in DOMAIN vendors
      /\ Owns(at[h].gen, at[h].c)
  BY DEF LedgerInv, LogInv, OwnerInv, Owns, Collects
<1>5. OwnerInv'
  <2>1. \A k \in Attempt : at'[k].c # 0 => at'[k].c \in DOMAIN containers /\ at'[k].gen \in DOMAIN vendors
    BY <1>4 DEF Collects, Others, LedgerInv, OwnerInv
  <2>2. \A k \in Attempt : at'[k].step \in Collecting \cup {"logs"} => at'[k].c # 0
    BY <1>2, <1>4 DEF Collects, Others, LedgerInv, OwnerInv, Collecting
  <2> QED
    BY <1>3, <2>1, <2>2 DEF LedgerInv, OwnerInv, Collects
<1> QED
  BY <1>1, <1>3, <1>4, <1>5

\* A call that is accounted for remains so.
LEMMA CoveredOnlyGrows ==
  ASSUME NEW h \in Attempt, Others(h),
         \/ IsList(recordedCalls) /\ \E e : recordedCalls' = Append(recordedCalls, e)
         \/ UNCHANGED recordedCalls,
         unwritten \subseteq unwritten',
         at[h].step = "writing" => at[h].todo[1].call \in Covered'
  PROVE  Covered \subseteq Covered'
<1>1. \A i \in DOMAIN recordedCalls : i \in DOMAIN recordedCalls' /\ recordedCalls'[i] = recordedCalls[i]
  <2>1. ASSUME IsList(recordedCalls), NEW e, recordedCalls' = Append(recordedCalls, e)
        PROVE  \A i \in DOMAIN recordedCalls : i \in DOMAIN recordedCalls' /\ recordedCalls'[i] = recordedCalls[i]
    <3>1. PICK s, t : s = recordedCalls /\ t = Append(s, e)
      OBVIOUS
    <3>2. /\ DOMAIN s = 1..Len(s) /\ Len(s) \in Nat
          /\ DOMAIN t = 1..(Len(s) + 1) /\ \A i \in 1..Len(s) : t[i] = s[i]
      BY <2>1, <3>1, ListAppend, ListFacts
    <3>3. recordedCalls' = t /\ recordedCalls = s
      BY <2>1, <3>1
    <3>4. \A i \in DOMAIN s : i \in DOMAIN t /\ t[i] = s[i]
      BY <3>2
    <3> QED
      BY <3>3, <3>4
  <2> QED
    BY <2>1
<1>2. \A n \in {recordedCalls[i].call : i \in DOMAIN recordedCalls} :
        n \in {recordedCalls'[i].call : i \in DOMAIN recordedCalls'}
  BY <1>1
<1>3. \A k \in Attempt : at[k].step = "writing" => at[k].todo[1].call \in Covered'
  <2> SUFFICES ASSUME NEW k \in Attempt, at[k].step = "writing", k # h
               PROVE  at[k].todo[1].call \in Covered'
    OBVIOUS
  <2>1. at'[k] = at[k]
    BY DEF Others
  <2> QED
    BY <2>1 DEF Covered
<1> QED
  BY <1>2, <1>3 DEF Covered

\* With correlations, the key of an entry names its call.
LEMMA KeyNamesCall ==
  ASSUME NEW lines, NEW corrs, corrs, \A i \in DOMAIN lines : LogLine(lines[i], corrs), NEW e, Genuine(e, lines)
  PROVE  ledgerKey(e)[2] = e.call
<1>1. PICK m \in eventsOf("match", lines) : ReadFrom(e, lines, m)
  BY DEF Genuine
<1>2. LogLine(lines[m], corrs)
  BY DEF eventsOf
<1> QED
  BY <1>1, <1>2 DEF ledgerKey, LogLine, ReadFrom

LEMMA LogsReadLedger ==
  ASSUME IInv, LedgerInv, NEW h \in Attempt, NEW works \in BOOLEAN, LogsRead(h, works)
  PROVE  LedgerInv'
<1>1. /\ at[h].step = "logs"
      /\ UNCHANGED <<vendors, containers, log, calls, correlated, recordedCalls, claimed, unwritten>>
      /\ \E lines \in {log[at[h].c], <<>>} :
           LET entries == parseProviderCallLedger(lines)
           IN at' = [at EXCEPT ![h].step = "recording", ![h].todo = entries,
                               ![h].all = {entries[i].call : i \in DOMAIN entries}]
  <2>1. PICK lines \in {IF works /\ containers[at[h].c] = "running" THEN log[at[h].c] ELSE <<>>} :
          LET entries == parseProviderCallLedger(lines)
          IN at' = [at EXCEPT ![h].step = "recording", ![h].todo = entries,
                              ![h].all = {entries[i].call : i \in DOMAIN entries}]
    BY DEF LogsRead
  <2>2. lines \in {log[at[h].c], <<>>}
    OBVIOUS
  <2>3. /\ at[h].step = "logs"
        /\ UNCHANGED <<vendors, containers, log, calls, correlated, recordedCalls, claimed, unwritten>>
    BY DEF LogsRead, platform, handlersOnly, docker, database
  <2> QED
    BY <2>1, <2>2, <2>3
<1> PICK lines \in {log[at[h].c], <<>>} :
           LET entries == parseProviderCallLedger(lines)
           IN at' = [at EXCEPT ![h].step = "recording", ![h].todo = entries,
                               ![h].all = {entries[i].call : i \in DOMAIN entries}]
  BY <1>1
<1> DEFINE entries == parseProviderCallLedger(lines)
<1>2. /\ lines \in {log[at[h].c], <<>>} /\ entries = parseProviderCallLedger(lines)
      /\ at' = [at EXCEPT ![h].step = "recording", ![h].todo = entries,
                          ![h].all = {entries[i].call : i \in DOMAIN entries}]
  OBVIOUS
<1> HIDE DEF entries
<1>3. DOMAIN at = Attempt /\ DOMAIN at[h] = HandlerFields
  BY DEF IInv, HandlerTypes, HandlerOK
<1>4. /\ Others(h) /\ at'[h].step = "recording" /\ at'[h].todo = entries
      /\ at'[h].all = {entries[i].call : i \in DOMAIN entries}
      /\ at'[h].c = at[h].c /\ at'[h].gen = at[h].gen
  BY <1>2, <1>3 DEF HandlerFields, Others
<1>5. Collects(h)
  BY <1>1, <1>4 DEF Collects
<1>6. at[h].c \in Container
  BY <1>5, CollectsFacts
<1>7. IsList(entries) /\ \A i \in DOMAIN entries : Genuine(entries[i], log[at[h].c])
  <2>1. CASE lines = log[at[h].c]
    <3>1. IsList(lines) /\ \A i \in DOMAIN lines : LogLine(lines[i], correlated)
      BY <1>6, <2>1 DEF LedgerInv, LogInv
    <3>2. IsList(entries) /\ \A i \in DOMAIN entries : \E m \in eventsOf("match", lines) : ReadFrom(entries[i], lines, m)
      BY <1>2, <3>1, LedgerIsRead
    <3> QED
      BY <2>1, <3>2 DEF Genuine
  <2>2. CASE lines = <<>>
    <3>1. lines \in Seq({}) /\ DOMAIN lines = {}
      BY <2>2
    <3>2. IsList(entries) /\ \A i \in DOMAIN entries : \E m \in eventsOf("match", lines) : ReadFrom(entries[i], lines, m)
      <4>1. IsList(lines) /\ \A i \in DOMAIN lines : LogLine(lines[i], correlated)
        BY <3>1 DEF IsList
      <4> QED
        BY <1>2, <4>1, LedgerIsRead
    <3>3. eventsOf("match", lines) = {}
      BY <3>1 DEF eventsOf
    <3> QED
      BY <3>2, <3>3
  <2> QED
    BY <1>2, <2>1, <2>2
<1>8. HeldInv'
  BY <1>1, <1>4, <1>7 DEF LedgerInv, HeldInv, Others, Collecting
<1>9. StoredInv'
  BY <1>1, <1>5, CollectsFacts DEF LedgerInv, StoredInv
<1>10. OnceInv'
  BY <1>1, <1>4 DEF LedgerInv, OnceInv, Others
<1>11. SummaryInv'
  <2>1. Covered \subseteq Covered'
    BY <1>1, <1>4, CoveredOnlyGrows
  <2>2. \A n \in at'[h].all : \E i \in DOMAIN at'[h].todo : at'[h].todo[i].call = n
    BY <1>4
  <2> QED
    BY <1>1, <1>4, <2>1, <2>2 DEF LedgerInv, SummaryInv, Others
<1> QED
  BY <1>5, <1>8, <1>9, <1>10, <1>11, CollectsFacts DEF LedgerInv

LEMMA SummariseLedger ==
  ASSUME IInv, LedgerInv, NEW h \in Attempt, Summarise(h)
  PROVE  LedgerInv'
<1>1. /\ at[h].step = "recording" /\ unrecorded(h) = {} /\ claimed' = claimed \cup at[h].all
      /\ Ends(h)
      /\ UNCHANGED <<vendors, containers, log, calls, correlated, recordedCalls, unwritten>>
  BY DEF Summarise, platform, docker
<1>2. Others(h) /\ at'[h].step = "idle" /\ at'[h].c = 0
  BY <1>1, EndsFacts DEF IInv, Idle
<1>3. Collects(h)
  BY <1>1, <1>2 DEF Collects, Collecting
<1>4. at[h].c \in Container /\ at[h].gen \in DOMAIN vendors
  BY <1>3, CollectsFacts
<1>5. HeldInv'
  BY <1>1, <1>2 DEF LedgerInv, HeldInv, Others, Collecting
<1>6. StoredInv'
  BY <1>1, <1>3, CollectsFacts DEF LedgerInv, StoredInv
<1>7. OnceInv'
  BY <1>1, <1>2 DEF LedgerInv, OnceInv, Others
<1>8. SummaryInv'
  <2> SUFFICES ASSUME correlated
               PROVE  SummaryInv'
    BY <1>1 DEF SummaryInv
  <2>1. Covered \subseteq Covered'
    BY <1>1, <1>2, CoveredOnlyGrows
  <2>2. \A i \in DOMAIN at[h].todo : at[h].todo[i].call \in Covered
    <3> SUFFICES ASSUME NEW i \in DOMAIN at[h].todo
                 PROVE  at[h].todo[i].call \in Covered
      OBVIOUS
    <3>1. ledgerKey(at[h].todo[i]) \in vendors[at[h].gen].recorded
      BY <1>1 DEF unrecorded
    <3>2. ledgerKey(at[h].todo[i])[2] = at[h].todo[i].call
      BY <1>1, <1>4, KeyNamesCall DEF LedgerInv, HeldInv, LogInv, Collecting
    <3> QED
      BY <1>4, <3>1, <3>2 DEF LedgerInv, SummaryInv
  <2>3. at[h].all \subseteq Covered
    BY <1>1, <2>2 DEF LedgerInv, SummaryInv, Collecting
  <2> QED
    BY <1>1, <1>2, <2>1, <2>3 DEF LedgerInv, SummaryInv, Others, Collecting
<1> QED
  BY <1>3, <1>5, <1>6, <1>7, <1>8, CollectsFacts DEF LedgerInv

LEMMA TailFacts ==
  ASSUME NEW s, IsList(s), NEW i \in DOMAIN s
  PROVE  LET t == SubSeq(s, i, Len(s))
         IN /\ IsList(t) /\ 1 \in DOMAIN t /\ t[1] = s[i]
            /\ \A k \in DOMAIN t : \E j \in DOMAIN s : t[k] = s[j]
            /\ \A j \in DOMAIN s : i <= j => \E k \in DOMAIN t : t[k] = s[j]
<1> DEFINE t == SubSeq(s, i, Len(s))
           n == Len(s) - i + 1
<1>1. PICK S : s \in Seq(S)
  BY DEF IsList
<1>2. Len(s) \in Nat /\ DOMAIN s = 1..Len(s) /\ i \in 1..Len(s)
  BY <1>1
<1>3. t \in Seq(S) /\ Len(t) = n /\ \A k \in 1..n : t[k] = s[i + k - 1]
  BY <1>1, <1>2
<1>4. DOMAIN t = 1..n /\ n \in Nat \ {0}
  BY <1>2, <1>3
<1>5. IsList(t)
  BY <1>3 DEF IsList
<1> HIDE DEF t
<1>6. 1 \in DOMAIN t /\ t[1] = s[i]
  BY <1>2, <1>3, <1>4
<1>7. \A k \in DOMAIN t : \E j \in DOMAIN s : t[k] = s[j]
  <2>1. \A k \in 1..n : i + k - 1 \in 1..Len(s)
    BY <1>2
  <2> QED
    BY <1>2, <1>3, <1>4, <2>1
<1>8. ASSUME NEW j \in DOMAIN s, i <= j
      PROVE  \E k \in DOMAIN t : t[k] = s[j]
  <2>1. j - i + 1 \in 1..n /\ i + (j - i + 1) - 1 = j
    BY <1>2, <1>8
  <2> QED
    BY <1>3, <1>4, <2>1
<1> QED
  BY <1>5, <1>6, <1>7, <1>8 DEF t

LEMMA FirstOf ==
  ASSUME NEW S \in SUBSET Nat, IsFiniteSet(S), S # {}
  PROVE  \E i \in S : \A j \in S : i <= j
<1>1. Cardinality(S) \in Nat /\ Cardinality(S) # 0
  BY FS_CardinalityType, FS_EmptySet
<1>2. 1 \in 1..Cardinality(S)
  BY <1>1
<1>3. PICK i \in S : rank(S, i) = 1 - 1
  BY <1>2, EveryRankIsTaken
<1>4. IsFiniteSet({j \in S : j < i}) /\ Cardinality({j \in S : j < i}) = 0
  BY <1>3, FS_Subset DEF rank
<1>5. {j \in S : j < i} = {}
  BY <1>4, FS_EmptySet
<1> QED
  BY <1>5

LEMMA RecordNextLedger ==
  ASSUME IInv, LedgerInv, NEW h \in Attempt, RecordNext(h)
  PROVE  LedgerInv'
<1> DEFINE todo == at[h].todo
           gen == at[h].gen
           home == log[at[h].c]
           key(i) == ledgerKey(todo[i])
<1>1. /\ at[h].step = "recording" /\ unrecorded(h) # {}
      /\ UNCHANGED <<containers, log, calls, correlated, recordedCalls, claimed, unwritten>>
  BY DEF RecordNext, handlersOnly, docker, database
<1>2. /\ IsList(todo) /\ (\A j \in DOMAIN todo : Genuine(todo[j], home))
      /\ gen \in DOMAIN vendors /\ at[h].c \in Container /\ at[h].c \in DOMAIN containers
      /\ Owns(gen, at[h].c)
  BY <1>1 DEF LedgerInv, HeldInv, OwnerInv, LogInv, Owns, Collecting
<1>3. PICK i \in unrecorded(h) :
        /\ \A j \in unrecorded(h) : i <= j
        /\ vendors' = [vendors EXCEPT ![gen].recorded = @ \cup {key(i)}]
        /\ at' = [at EXCEPT ![h].step = "writing", ![h].todo = SubSeq(@, i, Len(@))]
  <2>1. unrecorded(h) \in SUBSET DOMAIN todo
    BY DEF unrecorded
  <2>2. unrecorded(h) \in SUBSET Nat /\ IsFiniteSet(unrecorded(h))
    BY <1>2, <2>1, PositionsAreFinite
  <2>3. \E i \in unrecorded(h) : \A j \in unrecorded(h) : i <= j
    BY <1>1, <2>2, FirstOf
  <2> QED
    BY <2>3 DEF RecordNext
<1>4. i \in DOMAIN todo /\ key(i) \notin vendors[gen].recorded
  BY <1>3 DEF unrecorded
<1>5. \A j \in DOMAIN todo : i <= j \/ key(j) \in vendors[gen].recorded
  BY <1>3 DEF unrecorded
<1>6. DOMAIN at = Attempt /\ DOMAIN at[h] = HandlerFields /\ \A g \in DOMAIN vendors : DOMAIN vendors[g] = VendorFields
  BY DEF IInv, HandlerTypes, HandlerOK, VendorTypes, VendorOK
<1> DEFINE rest == SubSeq(todo, i, Len(todo))
<1>7. /\ Others(h) /\ at'[h].step = "writing" /\ at'[h].todo = rest
      /\ at'[h].c = at[h].c /\ at'[h].gen = gen /\ at'[h].all = at[h].all
  BY <1>3, <1>6 DEF HandlerFields, Others
<1>8. /\ IsList(rest) /\ 1 \in DOMAIN rest /\ rest[1] = todo[i]
      /\ \A k \in DOMAIN rest : \E j \in DOMAIN todo : rest[k] = todo[j]
      /\ \A j \in DOMAIN todo : i <= j => \E k \in DOMAIN rest : rest[k] = todo[j]
  <2> HIDE DEF todo
  <2> QED
    BY <1>2, <1>4, TailFacts
<1>9. DOMAIN vendors' = DOMAIN vendors
  BY <1>3
<1>10. \A g \in DOMAIN vendors :
         /\ vendors'[g].runtime = vendors[g].runtime
         /\ vendors'[g].recorded = IF g = gen THEN vendors[gen].recorded \cup {key(i)} ELSE vendors[g].recorded
  <2>1. PICK k : k = key(i)
    OBVIOUS
  <2>2. vendors' = [vendors EXCEPT ![gen].recorded = vendors[gen].recorded \cup {k}]
    BY <1>3, <2>1
  <2> HIDE DEF gen, key
  <2> QED
    BY <1>6, <2>1, <2>2 DEF VendorFields
<1> HIDE DEF rest, todo, key
<1>11. Collects(h)
  BY <1>1, <1>7, <1>9, <1>10 DEF Collects, Collecting
<1>12. HeldInv'
  <2> SUFFICES ASSUME NEW k \in Attempt
               PROVE  /\ at'[k].step \in Collecting =>
                           /\ IsList(at'[k].todo)
                           /\ \A j \in DOMAIN at'[k].todo : Genuine(at'[k].todo[j], log[at'[k].c])
                      /\ at'[k].step = "writing" =>
                           /\ 1 \in DOMAIN at'[k].todo
                           /\ ledgerKey(at'[k].todo[1]) \in vendors'[at'[k].gen].recorded
    BY <1>1 DEF HeldInv
  <2>1. CASE k = h
    <3>1. ledgerKey(rest[1]) \in vendors'[gen].recorded
      BY <1>2, <1>8, <1>10 DEF key
    <3> QED
      BY <1>2, <1>7, <1>8, <2>1, <3>1
  <2>2. CASE k # h
    <3>1. at'[k] = at[k]
      BY <1>7, <2>2 DEF Others
    <3>2. at[k].step = "writing" => at[k].gen \in DOMAIN vendors
      BY DEF LedgerInv, OwnerInv, Collecting
    <3> QED
      BY <1>10, <3>1, <3>2 DEF LedgerInv, HeldInv
  <2> QED
    BY <2>1, <2>2
<1>13. StoredInv'
  BY <1>1, <1>9, <1>11, CollectsFacts DEF LedgerInv, StoredInv, Collects
<1>14. \A r \in DOMAIN recordedCalls : ~SameCall(rest[1], recordedCalls[r])
  <2> SUFFICES ASSUME NEW r \in DOMAIN recordedCalls, SameCall(todo[i], recordedCalls[r])
               PROVE  FALSE
    BY <1>8
  <2>1. PICK d \in Container : Genuine(recordedCalls[r], log[d])
    BY DEF LedgerInv, StoredInv
  <2>2. Genuine(todo[i], home) /\ MatchesDiffer(log)
    BY <1>2, <1>4 DEF LedgerInv, LogInv
  <2>3. at[h].c = d /\ key(i) = ledgerKey(recordedCalls[r])
    BY <1>2, <2>1, <2>2, OneReading DEF key
  <2>4. ledgerKey(recordedCalls[r]) \in vendors[gen].recorded
    BY <1>2, <2>1, <2>3 DEF LedgerInv, StoredInv, SameCall
  <2> QED
    BY <1>4, <2>3, <2>4
<1>15. \A k \in Attempt : k # h /\ at[k].step = "writing" => ~SameCall(rest[1], at[k].todo[1])
  <2> SUFFICES ASSUME NEW k \in Attempt, at[k].step = "writing", SameCall(todo[i], at[k].todo[1])
               PROVE  FALSE
    BY <1>8
  <2>1. /\ Genuine(at[k].todo[1], log[at[k].c]) /\ at[k].c \in Container /\ at[k].gen \in DOMAIN vendors
        /\ ledgerKey(at[k].todo[1]) \in vendors[at[k].gen].recorded /\ Owns(at[k].gen, at[k].c)
    BY DEF LedgerInv, HeldInv, OwnerInv, LogInv, Owns, Collecting
  <2>2. Genuine(todo[i], home) /\ MatchesDiffer(log)
    BY <1>2, <1>4 DEF LedgerInv, LogInv
  <2>3. at[h].c = at[k].c /\ key(i) = ledgerKey(at[k].todo[1])
    BY <1>2, <2>1, <2>2, OneReading DEF key
  <2>4. gen = at[k].gen
    BY <1>2, <2>1, <2>3 DEF LedgerInv, OwnerInv
  <2> QED
    BY <1>4, <2>1, <2>3, <2>4
<1>16. OnceInv'
  <2>1. \A e, f : SameCall(e, f) <=> SameCall(f, e)
    BY DEF SameCall
  <2> QED
    BY <1>1, <1>7, <1>14, <1>15, <2>1 DEF LedgerInv, OnceInv, Others
<1>17. SummaryInv'
  <2> SUFFICES ASSUME correlated
               PROVE  SummaryInv'
    BY <1>1 DEF SummaryInv
  <2>1. Covered \subseteq Covered'
    BY <1>1, <1>7, CoveredOnlyGrows
  <2>2. \A j \in DOMAIN todo : key(j)[2] = todo[j].call
    BY <1>2, KeyNamesCall DEF LedgerInv, LogInv, key
  <2>3. todo[i].call \in Covered'
    BY <1>7, <1>8 DEF Covered
  <2>4. \A g \in DOMAIN vendors : \A k \in vendors'[g].recorded : k[2] \in Covered'
    BY <1>4, <1>10, <2>1, <2>2, <2>3 DEF LedgerInv, SummaryInv
  <2>5. \A j \in DOMAIN todo : todo[j].call \in Covered' \/ i <= j
    BY <1>2, <1>5, <2>1, <2>2 DEF LedgerInv, SummaryInv
  <2>6. \A n \in at[h].all : n \in Covered' \/ \E k \in DOMAIN rest : rest[k].call = n
    <3>1. \A n \in at[h].all : n \in Covered \/ \E j \in DOMAIN todo : todo[j].call = n
      BY <1>1 DEF LedgerInv, SummaryInv, Collecting, todo
    <3> QED
      BY <1>8, <2>1, <2>5, <3>1
  <2>7. \A k \in Attempt : k # h /\ at[k].step \in Collecting =>
          \A n \in at[k].all : n \in Covered' \/ \E j \in DOMAIN at[k].todo : at[k].todo[j].call = n
    BY <2>1 DEF LedgerInv, SummaryInv
  <2>8. claimed \subseteq Covered'
    BY <2>1 DEF LedgerInv, SummaryInv
  <2> QED
    BY <1>1, <1>7, <1>9, <2>4, <2>6, <2>7, <2>8 DEF SummaryInv, Others
<1> QED
  BY <1>11, <1>12, <1>13, <1>16, <1>17, CollectsFacts DEF LedgerInv

LEMMA RestFacts ==
  ASSUME NEW s, IsList(s), 1 \in DOMAIN s
  PROVE  /\ IsList(Tail(s)) /\ \A k \in DOMAIN Tail(s) : \E j \in DOMAIN s : Tail(s)[k] = s[j]
         /\ \A j \in DOMAIN s : j = 1 \/ \E k \in DOMAIN Tail(s) : Tail(s)[k] = s[j]
<1>1. PICK S : s \in Seq(S)
  BY DEF IsList
<1>2. Len(s) \in Nat \ {0} /\ DOMAIN s = 1..Len(s)
  BY <1>1
<1>3. PICK t : t = Tail(s)
  OBVIOUS
<1>4. t \in Seq(S) /\ Len(t) = Len(s) - 1 /\ \A k \in 1..(Len(s) - 1) : t[k] = s[k + 1]
  BY <1>1, <1>2, <1>3
<1>5. DOMAIN t = 1..(Len(s) - 1)
  BY <1>2, <1>4
<1>6. \A k \in DOMAIN t : t[k] = s[k + 1] /\ k + 1 \in DOMAIN s
  BY <1>2, <1>4, <1>5
<1>7. ASSUME NEW j \in DOMAIN s, j # 1
      PROVE  \E k \in DOMAIN t : t[k] = s[j]
  <2>1. j - 1 \in DOMAIN t /\ (j - 1) + 1 = j
    BY <1>2, <1>5, <1>7
  <2> QED
    BY <1>6, <2>1
<1> QED
  BY <1>3, <1>4, <1>6, <1>7 DEF IsList

LEMMA CallWrittenLedger ==
  ASSUME IInv, LedgerInv, NEW h \in Attempt, NEW ok \in BOOLEAN, CallWritten(h, ok)
  PROVE  LedgerInv'
<1> DEFINE todo == at[h].todo
           gen == at[h].gen
           e == todo[1]
           home == log[at[h].c]
<1>1. /\ at[h].step = "writing"
      /\ UNCHANGED <<vendors, containers, log, calls, correlated, claimed>>
      /\ \/ /\ recordedCalls' = Append(recordedCalls, e) /\ unwritten' = unwritten
            /\ at' = [at EXCEPT ![h].step = "recording", ![h].todo = Tail(@)]
         \/ /\ UNCHANGED recordedCalls /\ Ends(h) /\ unwritten' = unwritten \cup {e.call}
  BY DEF CallWritten, platform, docker
<1>2. /\ IsList(todo) /\ 1 \in DOMAIN todo /\ (\A j \in DOMAIN todo : Genuine(todo[j], home))
      /\ gen \in DOMAIN vendors /\ at[h].c \in Container /\ at[h].c \in DOMAIN containers
      /\ Owns(gen, at[h].c) /\ ledgerKey(e) \in vendors[gen].recorded
  BY <1>1 DEF LedgerInv, HeldInv, OwnerInv, LogInv, Owns, Collecting
<1>3. DOMAIN at = Attempt /\ DOMAIN at[h] = HandlerFields
  BY DEF IInv, HandlerTypes, HandlerOK
<1>4. CASE UNCHANGED recordedCalls /\ Ends(h) /\ unwritten' = unwritten \cup {e.call}
  <2>1. Others(h) /\ at'[h].step = "idle" /\ at'[h].c = 0
    BY <1>4, EndsFacts DEF IInv, Idle
  <2>2. Collects(h)
    BY <1>1, <2>1 DEF Collects, Collecting
  <2>3. HeldInv'
    BY <1>1, <2>1 DEF LedgerInv, HeldInv, Others, Collecting
  <2>4. StoredInv'
    BY <1>1, <1>4, <2>2, CollectsFacts DEF LedgerInv, StoredInv
  <2>5. OnceInv'
    BY <1>1, <1>4, <2>1 DEF LedgerInv, OnceInv, Others
  <2>6. Covered \subseteq Covered'
    <3>1. e.call \in Covered'
      BY <1>4 DEF Covered
    <3> QED
      BY <1>4, <2>1, <3>1, CoveredOnlyGrows
  <2>7. SummaryInv'
    BY <1>1, <2>1, <2>6 DEF LedgerInv, SummaryInv, Others, Collecting
  <2> QED
    BY <2>2, <2>3, <2>4, <2>5, <2>7, CollectsFacts DEF LedgerInv
<1>5. CASE /\ recordedCalls' = Append(recordedCalls, e) /\ unwritten' = unwritten
           /\ at' = [at EXCEPT ![h].step = "recording", ![h].todo = Tail(@)]
  <2>1. /\ Others(h) /\ at'[h].step = "recording" /\ at'[h].todo = Tail(todo)
        /\ at'[h].c = at[h].c /\ at'[h].gen = gen /\ at'[h].all = at[h].all
    BY <1>3, <1>5 DEF HandlerFields, Others
  <2>2. Collects(h)
    BY <1>1, <2>1 DEF Collects, Collecting
  <2>3. /\ IsList(Tail(todo)) /\ \A k \in DOMAIN Tail(todo) : \E j \in DOMAIN todo : Tail(todo)[k] = todo[j]
        /\ \A j \in DOMAIN todo : j = 1 \/ \E k \in DOMAIN Tail(todo) : Tail(todo)[k] = todo[j]
    <3> HIDE DEF todo
    <3> QED
      BY <1>2, RestFacts
  <2> DEFINE rest == Tail(todo)
  <2> HIDE DEF rest
  <2>4. /\ IsList(recordedCalls) /\ DOMAIN recordedCalls' = 1..(Len(recordedCalls) + 1)
        /\ DOMAIN recordedCalls = 1..Len(recordedCalls) /\ Len(recordedCalls) \in Nat
        /\ recordedCalls'[Len(recordedCalls) + 1] = e
        /\ \A i \in DOMAIN recordedCalls : recordedCalls'[i] = recordedCalls[i]
        /\ IsList(recordedCalls')
    <3>1. PICK s, x, t : s = recordedCalls /\ x = e /\ t = Append(s, x)
      OBVIOUS
    <3>2. IsList(s)
      BY <3>1 DEF LedgerInv, StoredInv
    <3>3. /\ DOMAIN s = 1..Len(s) /\ Len(s) \in Nat /\ IsList(t)
          /\ DOMAIN t = 1..(Len(s) + 1) /\ t[Len(s) + 1] = x /\ \A i \in 1..Len(s) : t[i] = s[i]
      BY <3>1, <3>2, ListAppend, ListFacts
    <3>4. recordedCalls' = t
      BY <1>5, <3>1
    <3> HIDE DEF e
    <3> QED
      BY <3>1, <3>2, <3>3, <3>4
  <2> DEFINE new == Len(recordedCalls) + 1
  <2>5. /\ \A i \in DOMAIN recordedCalls' : i \in DOMAIN recordedCalls \/ i = new
        /\ new \in DOMAIN recordedCalls' /\ new \notin DOMAIN recordedCalls
    BY <2>4
  <2>6. recordedCalls'[new] = e
    BY <2>4
  <2> HIDE DEF new, todo, e
  <2>7. Genuine(e, home)
    BY <1>2 DEF e
  <2>8. HeldInv'
    <3> SUFFICES ASSUME NEW k \in Attempt
                 PROVE  /\ at'[k].step \in Collecting =>
                             /\ IsList(at'[k].todo)
                             /\ \A j \in DOMAIN at'[k].todo : Genuine(at'[k].todo[j], log[at'[k].c])
                        /\ at'[k].step = "writing" =>
                             /\ 1 \in DOMAIN at'[k].todo
                             /\ ledgerKey(at'[k].todo[1]) \in vendors[at'[k].gen].recorded
      BY <1>1 DEF HeldInv
    <3>1. CASE k = h
      <4>1. \A j \in DOMAIN Tail(todo) : Genuine(Tail(todo)[j], home)
        <5> HIDE DEF home
        <5> QED
          BY <1>2, <2>3
      <4>2. at'[k].todo = Tail(todo) /\ at'[k].step # "writing" /\ log[at'[k].c] = home
        BY <2>1, <3>1
      <4> HIDE DEF home
      <4> QED
        BY <2>3, <4>1, <4>2
    <3>2. CASE k # h
      BY <2>1, <3>2 DEF LedgerInv, HeldInv, Others
    <3> QED
      BY <3>1, <3>2
  <2>9. StoredInv'
    <3>1. \A i \in DOMAIN recordedCalls' : \E c \in Container : Genuine(recordedCalls'[i], log[c])
      BY <1>2, <2>4, <2>5, <2>6, <2>7 DEF LedgerInv, StoredInv
    <3>2. ASSUME NEW c \in DOMAIN containers, NEW g \in DOMAIN vendors, Owns(g, c)',
                 NEW i \in DOMAIN recordedCalls',
                 recordedCalls'[i].summary # 0, Genuine(recordedCalls'[i], log[c])
          PROVE  ledgerKey(recordedCalls'[i]) \in vendors[g].recorded
      <4>1. Owns(g, c) /\ c \in Container
        BY <2>2, <3>2, CollectsFacts DEF LedgerInv, LogInv
      <4>2. CASE i \in DOMAIN recordedCalls
        BY <2>4, <3>2, <4>1, <4>2 DEF LedgerInv, StoredInv
      <4>3. CASE i = new
        <5>1. c = at[h].c
          <6>1. MatchesDiffer(log) /\ SameCall(e, e) /\ Genuine(e, log[c])
            BY <2>6, <3>2, <4>3 DEF SameCall, LedgerInv, LogInv
          <6> QED
            BY <1>2, <2>7, <4>1, <6>1, OneReading
        <5>2. g = gen
          BY <1>2, <4>1, <5>1 DEF LedgerInv, OwnerInv
        <5> QED
          BY <1>2, <2>6, <4>3, <5>2 DEF e
      <4> QED
        BY <2>5, <4>2, <4>3
    <3> QED
      BY <1>1, <2>4, <3>1, <3>2 DEF StoredInv
  <2>10. OnceInv'
    <3>1. \A f, g : SameCall(f, g) <=> SameCall(g, f)
      BY DEF SameCall
    <3>2. /\ \A r \in DOMAIN recordedCalls : ~SameCall(e, recordedCalls[r])
          /\ \A k \in Attempt : k # h /\ at[k].step = "writing" => ~SameCall(at[k].todo[1], e)
      BY <1>1, <3>1 DEF LedgerInv, OnceInv, e, todo
    <3>3. \A i, j \in DOMAIN recordedCalls' : i # j => ~SameCall(recordedCalls'[i], recordedCalls'[j])
      BY <2>4, <2>5, <2>6, <3>1, <3>2 DEF LedgerInv, OnceInv
    <3>4. ASSUME NEW k \in Attempt, at'[k].step = "writing"
          PROVE  /\ k # h /\ at'[k] = at[k]
                 /\ \A i \in DOMAIN recordedCalls' : ~SameCall(at'[k].todo[1], recordedCalls'[i])
      <4>1. k # h /\ at'[k] = at[k]
        BY <2>1, <3>4 DEF Others
      <4> QED
        BY <2>4, <2>5, <2>6, <3>2, <3>4, <4>1 DEF LedgerInv, OnceInv
    <3> QED
      BY <3>3, <3>4 DEF LedgerInv, OnceInv
  <2>11. e.call \in Covered'
    BY <2>5, <2>6 DEF Covered
  <2>12. Covered \subseteq Covered'
    <3>1. IsList(recordedCalls) /\ \E x : recordedCalls' = Append(recordedCalls, x)
      BY <1>5, <2>4
    <3>2. at[h].todo[1].call \in Covered'
      BY <2>11 DEF e, todo
    <3> QED
      BY <1>5, <2>1, <3>1, <3>2, CoveredOnlyGrows
  <2>13. SummaryInv'
    <3> SUFFICES ASSUME correlated
                 PROVE  SummaryInv'
      BY <1>1 DEF SummaryInv
    <3>1. \A n \in at[h].all : n \in Covered' \/ \E k \in DOMAIN rest : rest[k].call = n
      <4>1. \A n \in at[h].all : n \in Covered \/ \E j \in DOMAIN todo : todo[j].call = n
        BY <1>1 DEF LedgerInv, SummaryInv, Collecting, todo
      <4>2. \A j \in DOMAIN todo : todo[j].call \in Covered' \/ \E k \in DOMAIN rest : rest[k] = todo[j]
        BY <2>3, <2>11 DEF e, rest
      <4> QED
        BY <2>12, <4>1, <4>2
    <3>2. \A k \in Attempt : k # h /\ at[k].step \in Collecting =>
            \A n \in at[k].all : n \in Covered' \/ \E j \in DOMAIN at[k].todo : at[k].todo[j].call = n
      BY <2>12 DEF LedgerInv, SummaryInv
    <3>3. claimed \subseteq Covered' /\ \A g \in DOMAIN vendors : \A k \in vendors[g].recorded : k[2] \in Covered'
      BY <2>12 DEF LedgerInv, SummaryInv
    <3>4. at'[h].todo = rest
      BY <2>1 DEF rest
    <3> QED
      BY <1>1, <2>1, <3>1, <3>2, <3>3, <3>4 DEF SummaryInv, Others
  <2> QED
    BY <2>2, <2>8, <2>9, <2>10, <2>13, CollectsFacts DEF LedgerInv
<1> QED
  BY <1>1, <1>4, <1>5
-----------------------------------------------------------------------------
(* The theorems about the ledger.                                          *)

LEMMA LedgerStep ==
  ASSUME IInv, LedgerInv, [Next]_vars
  PROVE  LedgerInv'
<1>1. CASE \E h \in Attempt : Handler(h)
  BY <1>1, BeginsLedger, DockerRunLedger, SimpleMoves DEF Handler
<1>2. CASE \E h \in Attempt : Continues(h)
  BY <1>2, CompiledLedger, SimpleMoves, DockerRunLedger, StoredLedger, RecordNextLedger,
     SummariseLedger, LogsReadLedger, CallWrittenLedger
     DEF Continues
<1>3. CASE \E c \in DOMAIN containers : Called(c) \/ (\E n \in 1..MaxCalls : Answered(c, n))
  BY <1>3, CalledLedger, AnsweredLedger
<1>4. CASE Crash \/ \E works \in BOOLEAN : CleanLease(works)
  BY <1>4, CrashLedger, CleanLeaseLedger
<1>5. CASE \/ BeginCleanup \/ CleanState \/ UNCHANGED vars
           \/ \E h \in Attempt : Abandon(h)
           \/ \E c \in DOMAIN containers, works \in BOOLEAN : Recover(c, works)
  BY <1>5, EndLedger
<1> QED
  BY <1>1, <1>2, <1>3, <1>4, <1>5 DEF Next

LEMMA LedgerImplies ==
  ASSUME LedgerInv
  PROVE  CallsRecordedOnce /\ SummaryIsTrue
<1>1. CallsRecordedOnce
  BY OnceImplied DEF LedgerInv
<1>2. SummaryIsTrue
  BY DEF LedgerInv, SummaryInv, SummaryIsTrue, Covered
<1> QED
  BY <1>1, <1>2

LEMMA LedgerInvariant == FairSpec => [](IInv /\ LedgerInv)
<1>1. Init => IInv /\ LedgerInv
  BY InitInv, LedgerInit
<1>2. IInv /\ LedgerInv /\ [Next]_vars => (IInv /\ LedgerInv)'
  BY StepInv, LedgerStep
<1> QED
  BY <1>1, <1>2, PTL DEF FairSpec

\* A collected call is stored once, however many collections of its container run side by
\* side and whatever they lose, but for a call that was read before its summary was logged.
THEOREM CallsRecordedOnceCorrect == FairSpec => []CallsRecordedOnce
<1>1. LedgerInv => CallsRecordedOnce
  BY LedgerImplies
<1> QED
  BY <1>1, LedgerInvariant, PTL

\* With correlations, a ledger summary counts no call that is not stored, being written, or
\* refused by the database: not when collections share their entries, not after a crash.
THEOREM SummaryIsTrueCorrect == FairSpec => []SummaryIsTrue
<1>1. LedgerInv => SummaryIsTrue
  BY LedgerImplies
<1> QED
  BY <1>1, LedgerInvariant, PTL
=============================================================================
