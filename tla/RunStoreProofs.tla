--------------------------- MODULE RunStoreProofs ---------------------------
(***************************************************************************)
(* Theorems about RunStore.tla for every set of descendants and files, and *)
(* every number of refusals, passes, exports and imports.                  *)
(***************************************************************************)
EXTENDS RunStore, TLAPS

(***************************************************************************)
(* The parts of Run: the rows each of them writes, and what a row waits    *)
(* for.                                                                    *)
(***************************************************************************)
RowsOf(s) == {s[i].row : i \in 1 .. Len(s)}
\* What a statement waits for was tried before it.
InTurn(s) == \A i \in 1 .. Len(s) : s[i].after \subseteq {s[j].row : j \in 1 .. i - 1}
IsEdge(r) == Table(r) = "graph_edges"
Free(s) == s.after = {}
WaitsFor(s, r) == s.after = {r}

\* What the recorder stores first, in its order.
LEMMA SetupRows ==
  /\ Len(Setup) = 7
  /\ \A i \in 1 .. 7 :
       /\ Setup[i].must /\ Free(Setup[i])
       /\ \/ i = 1 /\ Setup[i].row = Snapshot
          \/ i = 2 /\ Setup[i].row = Lease
          \/ i = 3 /\ Setup[i].row = Session
          \/ i = 4 /\ Setup[i].row = Rollout
          \/ i = 5 /\ Setup[i].row = Attempt
          \/ i = 6 /\ Setup[i].row = ToolCall
          \/ i = 7 /\ Setup[i].row = RootProcess
<1>1. /\ Setup[1] = Must(Snapshot) /\ Setup[2] = Must(Lease) /\ Setup[3] = Must(Session)
      /\ Setup[4] = Must(Rollout) /\ Setup[5] = Must(Attempt) /\ Setup[6] = Must(ToolCall)
      /\ Setup[7] = Must(RootProcess) /\ Len(Setup) = 7
  BY DEF Setup
<1> QED  BY <1>1 DEF Must, Statement, Free

\* The edges of a process, none of which waits for another row.
LEMMA LinksRows ==
  /\ Len(Links) = 6
  /\ \A i \in 1 .. 6 : IsEdge(Links[i].row) /\ Free(Links[i]) /\ ~Links[i].must
BY DEF Links, Try, Statement, Edge, IsEdge, Table, Free

\* A descendant's row and its edges.
LEMMA StartedRows ==
  /\ Len(Started) = 2
  /\ \A i \in 1 .. 2 :
       /\ ~Started[i].must /\ Free(Started[i])
       /\ Started[i].row = IF i = 1 THEN Binding("root") ELSE Event(Mark("exec_start"))
BY DEF Started, Try, Statement, Free

\* What a telemetry event brings in, and what each row waits for.
LEMMA ObservedRows ==
  ASSUME NEW k
  PROVE  /\ Len(Observed(k)) = 12
         /\ Observed(k)[2].row = Event(Seen(k))
         /\ \A i \in 1 .. 12 :
              /\ ~Observed(k)[i].must
              /\ \/ i <= 2 /\ Free(Observed(k)[i])
                 \/ i > 2 /\ WaitsFor(Observed(k)[i], Event(Seen(k)))
              /\ \/ Observed(k)[i].row \in {Binding(k), Event(Seen(k)), Evidence(Seen(k))}
                 \/ IsEdge(Observed(k)[i].row)
BY DEF Observed, EventEdges, Ingested, AllAfter, Try, After, Statement, Free, WaitsFor, IsEdge,
       Edge, Table

\* What an event without a process brings in.
LEMMA OrphanRows ==
  ASSUME NEW k
  PROVE  /\ Len(OrphanDecision(k)) = 11
         /\ \A i \in 1 .. 11 :
              /\ ~OrphanDecision(k)[i].must
              /\ \/ /\ i = 1 /\ Free(OrphanDecision(k)[i])
                    /\ OrphanDecision(k)[i].row = Event(Orphan(k))
                 \/ /\ i = 2 /\ WaitsFor(OrphanDecision(k)[i], Event(Orphan(k)))
                    /\ OrphanDecision(k)[i].row = Decision(k)
                 \/ /\ i = 3 /\ WaitsFor(OrphanDecision(k)[i], Decision(k))
                    /\ OrphanDecision(k)[i].row = Risk(k)
                 \/ /\ i > 3 /\ WaitsFor(OrphanDecision(k)[i], Risk(k))
                    /\ \/ OrphanDecision(k)[i].row
                            \in {Signal(k), Response(k), Cost(k), Evidence(Orphan(k))}
                       \/ IsEdge(OrphanDecision(k)[i].row)
BY DEF OrphanDecision, AllAfter, Try, After, Statement, Free, WaitsFor, IsEdge, Edge, Table

\* What a changed file brings in.
LEMMA ChangedRows ==
  ASSUME NEW f
  PROVE  /\ Len(Changed(f)) = 15
         /\ Changed(f)[1].row = Event(Written(f))
         /\ \A i \in 1 .. 15 :
              /\ ~Changed(f)[i].must
              /\ \/ i = 1 /\ Free(Changed(f)[i])
                 \/ i > 1 /\ WaitsFor(Changed(f)[i], Event(Written(f)))
              /\ \/ Changed(f)[i].row \in {Event(Written(f)), Evidence(Written(f))}
                 \/ IsEdge(Changed(f)[i].row)
BY DEF Changed, EventEdges, FileEdges, Ingested, AllAfter, Try, After, Statement, Free, WaitsFor,
       IsEdge, Edge, Table

\* The object of a changed file: its content, then its row.
LEMMA ObjectifiedRows ==
  ASSUME NEW f
  PROVE  /\ Len(Objectified(f)) = 2
         /\ \A i \in 1 .. 2 :
              /\ ~Objectified(f)[i].must
              /\ \/ /\ i = 1 /\ Free(Objectified(f)[i])
                    /\ Objectified(f)[i].row = Blob(Artifact(f))
                 \/ /\ i = 2 /\ WaitsFor(Objectified(f)[i], Blob(Artifact(f)))
                    /\ Objectified(f)[i].row = Object(Artifact(f))
BY DEF Objectified, Try, After, Statement, Free, WaitsFor

\* What the recorder stores last.
LEMMA ClosingRows ==
  /\ Len(Closing) = 7 /\ Closing[1].row = Ended(RootProcess)
  /\ \A i \in 1 .. 7 :
       /\ ~Closing[i].must /\ Free(Closing[i])
       /\ Closing[i].row \in {Ended(RootProcess), Ended(Session), Ended(ToolCall), Ended(Attempt),
                              Ended(Rollout), Event(Mark("exec_end")), Ended(Binding("root"))}
       /\ Closing[i].row = Ended(ToolCall) => i > 1
BY DEF Closing, Try, Statement, Free, Ended, Session, Rollout, Attempt, ToolCall, RootProcess,
       Binding, Event, Mark

\* What a recording stores whose command never started.
LEMMA NotStartedRows ==
  /\ Len(NotStarted) = 7 /\ NotStarted[1].row = Ended(RootProcess)
  /\ NotStarted[7].row = Binding("root")
  /\ \A i \in 1 .. 7 :
       /\ ~NotStarted[i].must /\ Free(NotStarted[i])
       /\ NotStarted[i].row \in {Ended(RootProcess), Ended(Session), Ended(ToolCall), Ended(Attempt),
                                 Failed(Rollout), Event(Mark("exec_error")), Binding("root")}
       /\ NotStarted[i].row = Ended(ToolCall) => i > 1
BY DEF NotStarted, Try, Statement, Free, Ended, Failed, Session, Rollout, Attempt, ToolCall,
       RootProcess, Binding, Event, Mark

\* In every part a row comes after the rows it waits for.
LEMMA PartsInTurn ==
  /\ InTurn(Setup) /\ InTurn(Links) /\ InTurn(Started) /\ InTurn(Closing) /\ InTurn(NotStarted)
  /\ \A x : /\ InTurn(Observed(x)) /\ InTurn(OrphanDecision(x)) /\ InTurn(Changed(x))
            /\ InTurn(Objectified(x))
<1>1. InTurn(Setup) /\ InTurn(Links) /\ InTurn(Started) /\ InTurn(Closing) /\ InTurn(NotStarted)
  BY SetupRows, LinksRows, StartedRows, ClosingRows, NotStartedRows DEF InTurn, Free
<1>2. ASSUME NEW x PROVE InTurn(Observed(x))
  <2>1. /\ Len(Observed(x)) = 12 /\ Observed(x)[2].row = Event(Seen(x))
        /\ \A i \in 1 .. 12 : \/ i <= 2 /\ Free(Observed(x)[i])
                              \/ i > 2 /\ WaitsFor(Observed(x)[i], Event(Seen(x)))
    BY ObservedRows
  <2> QED  BY <2>1 DEF InTurn, Free, WaitsFor
<1>3. ASSUME NEW x PROVE InTurn(OrphanDecision(x))
  <2>1. /\ Len(OrphanDecision(x)) = 11 /\ OrphanDecision(x)[1].row = Event(Orphan(x))
        /\ OrphanDecision(x)[2].row = Decision(x) /\ OrphanDecision(x)[3].row = Risk(x)
        /\ \A i \in 1 .. 11 : \/ i = 1 /\ Free(OrphanDecision(x)[i])
                              \/ i = 2 /\ WaitsFor(OrphanDecision(x)[i], Event(Orphan(x)))
                              \/ i = 3 /\ WaitsFor(OrphanDecision(x)[i], Decision(x))
                              \/ i > 3 /\ WaitsFor(OrphanDecision(x)[i], Risk(x))
    BY DEF OrphanDecision, AllAfter, Try, After, Statement, Free, WaitsFor
  <2> QED  BY <2>1 DEF InTurn, Free, WaitsFor
<1>4. ASSUME NEW x PROVE InTurn(Changed(x))
  <2>1. /\ Len(Changed(x)) = 15 /\ Changed(x)[1].row = Event(Written(x))
        /\ \A i \in 1 .. 15 : \/ i = 1 /\ Free(Changed(x)[i])
                              \/ i > 1 /\ WaitsFor(Changed(x)[i], Event(Written(x)))
    BY ChangedRows
  <2> QED  BY <2>1 DEF InTurn, Free, WaitsFor
<1>5. ASSUME NEW x PROVE InTurn(Objectified(x))
  BY DEF InTurn, Objectified, Try, After, Statement
<1> QED  BY <1>1, <1>2, <1>3, <1>4, <1>5

(* What a part that has stored all its rows leaves behind.                 *)
LEMMA ObservedWhole ==
  ASSUME NEW k
  PROVE  LET e == Seen(k) IN
         {Event(e), Evidence(e), Edge("runtime_attempt_event", e),
          Edge("runtime_tool_call_process", <<"record">>), Edge("runtime_tool_call_event", e),
          Edge("runtime_process_event", e), Edge("runtime_process_observed", <<Pid(e)>>),
          Edge("runtime_process_parent", <<Pid(e)>>), Edge("runtime_process_child_of", <<Pid(e)>>)}
         \subseteq RowsOf(Observed(k))
<1>1. /\ Len(Observed(k)) = 12
      /\ Observed(k)[2].row = Event(Seen(k)) /\ Observed(k)[12].row = Evidence(Seen(k))
      /\ Observed(k)[3].row = Edge("runtime_attempt_event", Seen(k))
      /\ Observed(k)[4].row = Edge("runtime_tool_call_process", <<"record">>)
      /\ Observed(k)[5].row = Edge("runtime_tool_call_event", Seen(k))
      /\ Observed(k)[6].row = Edge("runtime_process_event", Seen(k))
      /\ Observed(k)[8].row = Edge("runtime_process_observed", <<Pid(Seen(k))>>)
      /\ Observed(k)[10].row = Edge("runtime_process_parent", <<Pid(Seen(k))>>)
      /\ Observed(k)[11].row = Edge("runtime_process_child_of", <<Pid(Seen(k))>>)
  BY DEF Observed, EventEdges, Ingested, AllAfter, Try, After, Statement
<1>2. \A i \in 1 .. 12 : Observed(k)[i].row \in RowsOf(Observed(k))
  BY <1>1 DEF RowsOf
<1> QED  BY <1>1, <1>2

LEMMA OrphanWhole ==
  ASSUME NEW k
  PROVE  {Event(Orphan(k)), Decision(k), Risk(k), Signal(k), Response(k), Evidence(Orphan(k)),
          Edge("policy_decision_risk_signal", <<k>>), Edge("runtime_event_policy_decision", <<k>>),
          Edge("policy_decision_session", <<k>>), Edge("risk_signal_response_action", <<k>>)}
         \subseteq RowsOf(OrphanDecision(k))
<1>1. /\ Len(OrphanDecision(k)) = 11
      /\ OrphanDecision(k)[1].row = Event(Orphan(k)) /\ OrphanDecision(k)[2].row = Decision(k)
      /\ OrphanDecision(k)[3].row = Risk(k) /\ OrphanDecision(k)[4].row = Signal(k)
      /\ OrphanDecision(k)[5].row = Edge("policy_decision_risk_signal", <<k>>)
      /\ OrphanDecision(k)[6].row = Edge("runtime_event_policy_decision", <<k>>)
      /\ OrphanDecision(k)[7].row = Edge("policy_decision_session", <<k>>)
      /\ OrphanDecision(k)[8].row = Response(k)
      /\ OrphanDecision(k)[9].row = Edge("risk_signal_response_action", <<k>>)
      /\ OrphanDecision(k)[11].row = Evidence(Orphan(k))
  BY DEF OrphanDecision, AllAfter, Try, After, Statement
<1>2. \A i \in 1 .. 11 : OrphanDecision(k)[i].row \in RowsOf(OrphanDecision(k))
  BY <1>1 DEF RowsOf
<1> QED  BY <1>1, <1>2

LEMMA ChangedWhole ==
  ASSUME NEW f
  PROVE  LET e == Written(f) IN
         {Event(e), Edge("runtime_attempt_event", e), Edge("runtime_tool_call_process", <<"record">>),
          Edge("runtime_tool_call_event", e), Edge("runtime_process_event", e),
          Edge("runtime_process_observed", <<Pid(e)>>), Edge("runtime_process_parent", <<Pid(e)>>),
          Edge("runtime_process_child_of", <<Pid(e)>>), Edge("runtime_event_file", e),
          Edge("runtime_process_file", <<f>>), Edge("runtime_tool_call_file", <<f>>),
          Edge("runtime_attempt_file", <<f>>)}
         \subseteq RowsOf(Changed(f))
<1>1. /\ Len(Changed(f)) = 15
      /\ Changed(f)[1].row = Event(Written(f))
      /\ Changed(f)[2].row = Edge("runtime_attempt_event", Written(f))
      /\ Changed(f)[3].row = Edge("runtime_tool_call_process", <<"record">>)
      /\ Changed(f)[4].row = Edge("runtime_tool_call_event", Written(f))
      /\ Changed(f)[5].row = Edge("runtime_process_event", Written(f))
      /\ Changed(f)[7].row = Edge("runtime_process_observed", <<Pid(Written(f))>>)
      /\ Changed(f)[9].row = Edge("runtime_process_parent", <<Pid(Written(f))>>)
      /\ Changed(f)[10].row = Edge("runtime_process_child_of", <<Pid(Written(f))>>)
      /\ Changed(f)[11].row = Edge("runtime_event_file", Written(f))
      /\ Changed(f)[12].row = Edge("runtime_process_file", <<f>>)
      /\ Changed(f)[13].row = Edge("runtime_tool_call_file", <<f>>)
      /\ Changed(f)[14].row = Edge("runtime_attempt_file", <<f>>)
  BY DEF Changed, EventEdges, FileEdges, Ingested, AllAfter, Try, After, Statement
<1>2. \A i \in 1 .. 15 : Changed(f)[i].row \in RowsOf(Changed(f))
  BY <1>1 DEF RowsOf
<1> QED  BY <1>1, <1>2

-----------------------------------------------------------------------------
(***************************************************************************)
(* The rows of the store.                                                  *)
(***************************************************************************)
SetupTables == {"snapshots", "leases", "sessions", "rollouts", "fork_attempts", "tool_calls",
                "processes"}
RecordedTables ==
  SetupTables \cup {"execution_context_bindings", "events", "evidence_events", "graph_edges",
                    "policy_decisions", "risk_signals", "signals", "response_actions",
                    "cost_samples"}
ObjectTables == {"provenance_objects", "blob"}

\* What the evidence worker writes, and what only a recording does.
WorkerRow(r) ==
  \/ Table(r) = "evidence_events" /\ IsUpdate(r)
  \/ Table(r) = "graph_edges" /\ r[2] \in {LinkTypes[i] : i \in 1 .. WorkerEdges}
Recorded(r) == Table(r) \in RecordedTables /\ ~WorkerRow(r)

\* Rows that are written once the recording has set itself up.
Late(r) == Table(r) \in RecordedTables /\ (Table(r) \notin SetupTables \/ IsUpdate(r))

-----------------------------------------------------------------------------
(***************************************************************************)
(* The inductive invariant.                                                *)
(***************************************************************************)
Seeing == [started : BOOLEAN, kids : SUBSET Kids, orphans : SUBSET Kids, files : SUBSET Files]
Parts == {"setup", "links", "started", "process", "orphan", "file", "artifact", "closing",
          "not_started"}
Types ==
  /\ run \in [at : Parts \cup {"returned", "error", "killed"}, next : Nat \ {0},
              who : Kids \cup Files \cup {"root"}, saw : Seeing,
              kids : SUBSET Kids, files : SUBSET Files]
  /\ worker \in [batch : SUBSET Telemetry, step : 1 .. WorkerEdges + 1]
  /\ pass.step \in 0 .. Len(MaterializeOrder)
  /\ DOMAIN pass = {"step", "left", "known", "put", "count"}
  /\ bundle.at \in {"none", "dumping", "ready", "failed"}
  /\ bundle.next \in 1 .. Len(DumpOrder) + 1
  /\ DOMAIN bundle = {"at", "next", "rows", "blobs", "count"}
  /\ load.at \in {"none", "restoring", "failed", "done"}
  /\ DOMAIN load = {"at", "left", "count"}
  /\ refused \in Nat

(* Where the recorder is, and what it is about.                            *)
Launched == run.at \in Parts \ {"setup", "links"} \/ run.at = "returned"
Subject ==
  /\ run.saw.orphans \subseteq run.saw.kids
  /\ run.at \in {"setup", "links"} => run.saw.kids = {} /\ run.saw.files = {}
  /\ run.kids \subseteq run.saw.kids /\ run.files \subseteq run.saw.files
  /\ run.at \in {"process", "orphan"} => run.who \in run.saw.kids \ run.kids
  /\ run.at = "orphan" => run.who \in run.saw.orphans
  /\ run.at \in {"file", "artifact"} => run.who \in run.saw.files \ run.files
  /\ run.at \in {"file", "artifact", "closing", "returned"} => run.kids = {}
  /\ run.at \in {"closing", "returned"} => run.files = {}
  /\ run.at = "not_started" => run.saw.kids = {} /\ run.saw.files = {}

(* The rows a recording starts with are stored in their order, and before  *)
(* any other.                                                              *)
SetupOrder ==
  /\ Lease \in here => Snapshot \in here
  /\ Session \in here => Lease \in here
  /\ Rollout \in here => Session \in here
  /\ Attempt \in here => Rollout \in here
  /\ ToolCall \in here => Attempt \in here
  /\ RootProcess \in here => ToolCall \in here
  /\ \A r \in here : Late(r) => RootProcess \in here
  /\ \A r \in here : Table(r) \in {"rollouts", "fork_attempts", "tool_calls", "processes"}
                       => Rollout \in here
  /\ run.at = "setup" => \A i \in 1 .. 7 : i < run.next => Setup[i].row \in here
  /\ run.at \in Parts \cup {"returned"} => run.at = "setup" \/ RootProcess \in here

(* A row that is written after another is there only if that one is.       *)
AfterOrder ==
  \A k \in Kids :
    /\ Decision(k) \in here => Event(Orphan(k)) \in here
    /\ Risk(k) \in here => Decision(k) \in here
    /\ Response(k) \in here => Risk(k) \in here

(* Nothing refused, every statement so far has stored its row.             *)
Made == refused = 0 /\ Recording => \A i \in 1 .. Len(Part(run)) : i < run.next => Part(run)[i].row \in here
EndOrder == Ended(ToolCall) \in here => Ended(RootProcess) \in here \/ refused > 0

(* Only what was seen is recorded ...                                      *)
OnlySeen ==
  /\ \A k \in Kids : Event(Seen(k)) \in here => k \in run.saw.kids
  /\ \A k \in Kids : Event(Orphan(k)) \in here => k \in run.saw.orphans
  /\ \A f \in Files : Event(Written(f)) \in here => f \in run.saw.files
(* ... and nothing refused, all of it is.                                  *)
About(parts, x) == run.at \in parts /\ run.who = x
AllSeen ==
  refused = 0 /\ Launched =>
    /\ \A k \in run.saw.kids \ run.kids :
         /\ About({"process"}, k) \/ RowsOf(Observed(k)) \subseteq here
         /\ k \in run.saw.orphans =>
              About({"process", "orphan"}, k) \/ RowsOf(OrphanDecision(k)) \subseteq here
    /\ \A f \in run.saw.files \ run.files : About({"file"}, f) \/ RowsOf(Changed(f)) \subseteq here
    /\ run.at \notin {"started", "not_started"} => Binding("root") \in here

(* Objects: the file before the row, and the parents before both.          *)
ObjectsWhole ==
  /\ \A r \in here : Table(r) \in RecordedTables \cup ObjectTables
  /\ \A o \in Objects(here) : Blob(o) \in here
  /\ \A o \in Objects(here) \cup pass.put : o.parents \subseteq {p.of : p \in Objects(here)}
  /\ \A o \in pass.put : Blob(o) \in here
  /\ pass.known \subseteq {p.of : p \in Objects(here)}

(* A pass that was begun after the recording.                              *)
Found(i) == Subjects(MaterializeOrder[i], here, run.saw.files)
Available == UNION {Found(i) : i \in 1 .. Len(MaterializeOrder)}
IsArtifact(o) == Table(o.of) = "artifact" /\ o.parents = {}
Step == pass.step
PassWaits == Recording => Step = 0 /\ \A o \in Objects(here) : IsArtifact(o)
PassFinds ==
  /\ \A i \in 1 .. Len(MaterializeOrder) : i < Step => Found(i) \subseteq pass.known
  /\ Step # 0 => Found(Step) \subseteq pass.left \cup pass.known
  /\ Step # 0 => pass.left \subseteq Found(Step) \cup Blames
  /\ Step = 0 => pass.left = {}
PassBlames == \A f \in Files : Blame(f) \in pass.left => Diff(f) \in pass.known
PassTurn == \A o \in pass.put : pass.left # {} /\ o.of = Turn
PassNames(o) ==
  /\ IsArtifact(o) \/ o.of \in Available \cup Blames
  /\ Named(o.of) \cap (here \cup Available) \subseteq o.parents
  /\ o.of = Manifest("record_manifest") => o.body = RecordManifest(here)
PassOrder ==
  "pass" \notin early =>
    /\ PassWaits /\ PassFinds /\ PassBlames /\ PassTurn
    /\ \A o \in Objects(here) \cup pass.put : PassNames(o)

(* The evidence worker.                                                    *)
Linked(e, rows) == \A i \in 1 .. WorkerEdges : WorkerEdge(i, e) \in rows
WorkerOrder ==
  /\ \A e \in worker.batch : Evidence(e) \in here
  /\ refused = 0 =>
       /\ \A e \in Telemetry : Processed(e) \in here => Linked(e, here)
       /\ worker.batch # {} =>
            \A i \in 1 .. WorkerEdges : i < worker.step => WorkerEdge(i, First(worker.batch)) \in here

(* The bundle, and the replaying host.                                     *)
Dumped == bundle.next = Len(DumpOrder) + 1
BundleOrder ==
  /\ bundle.rows \subseteq here
  /\ \A r \in bundle.rows : Table(r) # "blob"
  /\ ~Dumped => Objects(bundle.rows) = {}
  /\ \A o \in Objects(bundle.rows) : o.parents \subseteq {p.of : p \in Objects(bundle.rows)}
  /\ bundle.at = "ready" =>
       /\ Dumped
       /\ bundle.blobs = {o \in Objects(bundle.rows) : o.of \notin large}
       /\ Objects(there) \subseteq Objects(bundle.rows)
  /\ bundle.at = "dumping" /\ Dumped => Objects(there) \subseteq Objects(bundle.rows)
  /\ refused = 0 /\ bundle.next <= 15 => \A r \in bundle.rows : Table(r) # "graph_edges"
  /\ refused = 0 /\ bundle.next > 15 =>
       \A e \in Telemetry : Processed(e) \in bundle.rows => Linked(e, bundle.rows)
Settled(r) == Recorded(r) /\ (Rollout \in here \/ r = Session)
BundleWhole ==
  "export" \notin early /\ bundle.at # "none" =>
    /\ ~Recording
    /\ \A i \in 1 .. Len(DumpOrder) : i < bundle.next =>
         \A r \in here : Table(r) = DumpOrder[i] /\ Settled(r) => r \in bundle.rows
LoadOrder ==
  /\ \A r \in there : r \in here \/ Table(r) = "foreign"
  /\ load.at = "restoring" => load.left \subseteq Objects(here)
  /\ refused = 0 => \A e \in Telemetry : Processed(e) \in there => Linked(e, there)
  /\ \A o \in Objects(there) : o.parents \subseteq {p.of : p \in Objects(there)}
  /\ load.at = "restoring" =>
       \A o \in Objects(there) : o \in load.left \/ o.of \in large \/ Readable(o, there)
  /\ load.at = "done" => \A o \in Objects(there) : o.of \in large \/ Readable(o, there)
LoadWhole ==
  /\ load.at # "none" => bundle.at # "none"
  /\ "export" \notin early /\ load.at # "none" => \A r \in here : Settled(r) => r \in there

-----------------------------------------------------------------------------
(* The part the recorder is in, and the statement it is at.                *)
LEMMA PartIs ==
  /\ run.at = "setup" => Part(run) = Setup
  /\ run.at = "links" => Part(run) = Links
  /\ run.at = "started" => Part(run) = Started
  /\ run.at = "process" => Part(run) = Observed(run.who)
  /\ run.at = "orphan" => Part(run) = OrphanDecision(run.who)
  /\ run.at = "file" => Part(run) = Changed(run.who)
  /\ run.at = "artifact" => Part(run) = Objectified(run.who)
  /\ run.at = "closing" => Part(run) = Closing
  /\ run.at = "not_started" => Part(run) = NotStarted
BY DEF Part

LEMMA PartInTurn ==
  ASSUME Recording
  PROVE  InTurn(Part(run)) /\ Len(Part(run)) \in Nat \ {0}
<1>1. CASE run.at = "setup"
  BY <1>1, PartIs, PartsInTurn, SetupRows
<1>2. CASE run.at = "links"
  BY <1>2, PartIs, PartsInTurn, LinksRows
<1>3. CASE run.at = "started"
  BY <1>3, PartIs, PartsInTurn, StartedRows
<1>4. CASE run.at = "process"
  BY <1>4, PartIs, PartsInTurn, ObservedRows
<1>5. CASE run.at = "orphan"
  BY <1>5, PartIs, PartsInTurn, OrphanRows
<1>6. CASE run.at = "file"
  BY <1>6, PartIs, PartsInTurn, ChangedRows
<1>7. CASE run.at = "artifact"
  BY <1>7, PartIs, PartsInTurn, ObjectifiedRows
<1>8. CASE run.at = "closing"
  BY <1>8, PartIs, PartsInTurn, ClosingRows
<1>9. CASE run.at = "not_started"
  BY <1>9, PartIs, PartsInTurn, NotStartedRows
<1> QED  BY <1>1, <1>2, <1>3, <1>4, <1>5, <1>6, <1>7, <1>8, <1>9 DEF Recording

(* What the statement that is next may write.                              *)
RowFacts(s, i) ==
  LET r == s.row IN
  /\ run.at # "setup" =>
       /\ ~s.must
       /\ Late(r) \/ Table(r) \in ObjectTables
  /\ run.at # "artifact" => Table(r) \in RecordedTables
  /\ run.at = "artifact" =>
       \/ r = Blob(Artifact(run.who))
       \/ r = Object(Artifact(run.who)) /\ s.after = {Blob(Artifact(run.who))}
  /\ \A k : r = Decision(k) => s.after = {Event(Orphan(k))}
  /\ \A k : r = Risk(k) => s.after = {Decision(k)}
  /\ \A k : r = Response(k) => s.after = {Risk(k)}
  /\ r = Ended(ToolCall) => i > 1 /\ Part(run)[1].row = Ended(RootProcess)
  /\ \A k : r = Event(Seen(k)) => run.at = "process" /\ run.who = k
  /\ \A k : r = Event(Orphan(k)) => run.at = "orphan" /\ run.who = k
  /\ \A f : r = Event(Written(f)) => run.at = "file" /\ run.who = f
  /\ \A e : r # Processed(e)

LEMMA NextRow ==
  ASSUME Recording, NEW i \in 1 .. Len(Part(run))
  PROVE  RowFacts(Part(run)[i], i)
<1> DEFINE s == Part(run)[i]
           x == run.who
<1> SUFFICES RowFacts(s, i)
  OBVIOUS
<1>1. CASE run.at = "setup"
  <2>1. s.row \in {Snapshot, Lease, Session, Rollout, Attempt, ToolCall, RootProcess}
    BY <1>1, PartIs, SetupRows
  <2> HIDE DEF s
  <2> QED
    BY <1>1, <2>1 DEF RowFacts, Table, SetupTables, RecordedTables, Snapshot, Lease, Session,
       Rollout, Attempt, ToolCall, RootProcess, Ended, Event, Decision, Risk, Response, Processed
<1>2. CASE run.at = "links"
  <2>1. IsEdge(s.row) /\ ~s.must
    BY <1>2, PartIs, LinksRows
  <2> HIDE DEF s
  <2> QED
    BY <1>2, <2>1 DEF RowFacts, Late, Table, SetupTables, RecordedTables, IsEdge,
       ToolCall, Ended, Event, Decision, Risk, Response, Processed
<1>3. CASE run.at = "started"
  <2>1. s.row \in {Binding("root"), Event(Mark("exec_start"))} /\ ~s.must
    BY <1>3, PartIs, StartedRows
  <2> HIDE DEF s
  <2> QED
    BY <1>3, <2>1 DEF RowFacts, Late, Table, SetupTables, RecordedTables, Binding, Mark,
       ToolCall, Ended, Event, Decision, Risk, Response, Processed, Seen, Orphan, Written
<1>4. CASE run.at = "process"
  <2>1. /\ ~s.must
        /\ s.row \in {Binding(x), Event(Seen(x)), Evidence(Seen(x))} \/ IsEdge(s.row)
    BY <1>4, PartIs, ObservedRows
  <2> HIDE DEF s
  <2> QED
    BY <1>4, <2>1 DEF RowFacts, Late, Table, SetupTables, RecordedTables, Binding, IsEdge, Evidence,
       ToolCall, Ended, Event, Decision, Risk, Response, Processed, Seen, Orphan, Written
<1>5. CASE run.at = "orphan"
  <2>1. /\ ~s.must
        /\ \/ s.row = Event(Orphan(x))
           \/ s.row = Decision(x) /\ s.after = {Event(Orphan(x))}
           \/ s.row = Risk(x) /\ s.after = {Decision(x)}
           \/ /\ s.row \in {Signal(x), Response(x), Cost(x), Evidence(Orphan(x))} \/ IsEdge(s.row)
              /\ s.after = {Risk(x)}
    BY <1>5, PartIs, OrphanRows DEF WaitsFor
  <2> HIDE DEF s
  <2> QED
    BY <1>5, <2>1 DEF RowFacts, Late, Table, SetupTables, RecordedTables, IsEdge, Evidence, Signal,
       Cost, ToolCall, Ended, Event, Decision, Risk, Response, Processed, Seen, Orphan, Written
<1>6. CASE run.at = "file"
  <2>1. ~s.must /\ (s.row \in {Event(Written(x)), Evidence(Written(x))} \/ IsEdge(s.row))
    BY <1>6, PartIs, ChangedRows
  <2> HIDE DEF s
  <2> QED
    BY <1>6, <2>1 DEF RowFacts, Late, Table, SetupTables, RecordedTables, IsEdge, Evidence,
       ToolCall, Ended, Event, Decision, Risk, Response, Processed, Seen, Orphan, Written
<1>7. CASE run.at = "artifact"
  <2>1. /\ ~s.must
        /\ \/ s.row = Blob(Artifact(x))
           \/ s.row = Object(Artifact(x)) /\ s.after = {Blob(Artifact(x))}
    BY <1>7, PartIs, ObjectifiedRows DEF WaitsFor
  <2> HIDE DEF s
  <2> QED
    BY <1>7, <2>1 DEF RowFacts, Late, Table, ObjectTables, Blob, Object,
       ToolCall, Ended, Event, Decision, Risk, Response, Processed
<1>8. CASE run.at = "closing"
  <2>1. /\ ~s.must
        /\ s.row \in {Ended(RootProcess), Ended(Session), Ended(ToolCall), Ended(Attempt),
                      Ended(Rollout), Event(Mark("exec_end")), Ended(Binding("root"))}
        /\ s.row = Ended(ToolCall) => i > 1
        /\ Part(run)[1].row = Ended(RootProcess)
    BY <1>8, PartIs, ClosingRows
  <2> HIDE DEF s
  <2> QED
    BY <1>8, <2>1 DEF RowFacts, Late, IsUpdate, Table, SetupTables, RecordedTables, Mark, Binding,
       Session, Rollout, Attempt, ToolCall, RootProcess, Ended, Event, Decision, Risk, Response,
       Processed, Seen, Orphan, Written
<1>9. CASE run.at = "not_started"
  <2>1. /\ ~s.must
        /\ s.row \in {Ended(RootProcess), Ended(Session), Ended(ToolCall), Ended(Attempt),
                      Failed(Rollout), Event(Mark("exec_error")), Binding("root")}
        /\ s.row = Ended(ToolCall) => i > 1
        /\ Part(run)[1].row = Ended(RootProcess)
    BY <1>9, PartIs, NotStartedRows
  <2> HIDE DEF s
  <2> QED
    BY <1>9, <2>1 DEF RowFacts, Late, IsUpdate, Table, SetupTables, RecordedTables, Mark, Binding,
       Session, Rollout, Attempt, ToolCall, RootProcess, Ended, Failed, Event, Decision, Risk,
       Response, Processed, Seen, Orphan, Written
<1> QED  BY <1>1, <1>2, <1>3, <1>4, <1>5, <1>6, <1>7, <1>8, <1>9 DEF Recording

LEMMA FirstOf == ASSUME NEW S, S # {} PROVE First(S) \in S
BY DEF First

LEMMA Orders ==
  /\ Len(MaterializeOrder) = 16 /\ Len(DumpOrder) = 17
  /\ WorkerEdges = 5
BY DEF MaterializeOrder, DumpOrder, WorkerEdges

LEMMA SightingsAre ==
  \A x \in Sightings :
    x \in Seeing /\ x.orphans \subseteq x.kids /\ (~x.started => x.kids = {} /\ x.files = {})
<1> SUFFICES ASSUME NEW x \in Sightings
             PROVE  x \in Seeing /\ x.orphans \subseteq x.kids /\ (~x.started => x.kids = {} /\ x.files = {})
  OBVIOUS
<1>1. CASE x \in Outcomes /\ x.orphans \subseteq x.kids
  <2>1. PICK ks \in SUBSET Kids, os \in SUBSET Kids, fs \in SUBSET Files :
          x = [started |-> TRUE, kids |-> ks, orphans |-> os, files |-> fs]
    BY <1>1 DEF Outcomes
  <2> QED  BY <1>1, <2>1 DEF Seeing
<1>2. CASE x = [NothingSeen EXCEPT !.started = FALSE]
  BY <1>2 DEF NothingSeen, Seeing
<1> QED  BY <1>1, <1>2 DEF Sightings

-----------------------------------------------------------------------------
(* Types: the variables are records of the shape the actions expect.       *)
LEMMA InitTypes == StoreInit => Types
BY Orders DEF StoreInit, Types, Seeing, NothingSeen, Parts, Telemetry

\* A step of the recorder leads to a part it has and to something it saw.
LEMMA RunTypes ==
  ASSUME Types, RecorderSteps
  PROVE  Types'
<1> DEFINE RunType == [at : Parts \cup {"returned", "error", "killed"}, next : Nat \ {0},
                       who : Kids \cup Files \cup {"root"}, saw : Seeing,
                       kids : SUBSET Kids, files : SUBSET Files]
<1>1. run \in RunType
  BY DEF Types
<1>2. Advance(run) \in RunType
  BY <1>1 DEF Advance
<1>3. ASSUME NEW part \in Parts PROVE Enter(part) \in RunType
  <2>1. part \in Parts \cup {"returned", "error", "killed"} /\ 1 \in Nat \ {0}
    OBVIOUS
  <2> QED  BY <1>1, <2>1 DEF Enter
<1>4. run' \in RunType /\ refused' \in Nat
  <2>1. CASE Record
    <3>1. [run EXCEPT !.at = "error"] \in RunType
      BY <1>1
    <3> HIDE DEF RunType
    <3> QED  BY <2>1, <3>1, <1>2 DEF Record, Refusal, NoRefusal, Types
  <2>2. CASE Launch
    <3>1. PICK x \in Sightings :
            run' = [Enter(IF x.started THEN "started" ELSE "not_started")
                      EXCEPT !.saw = x, !.kids = x.kids, !.files = x.files]
      BY <2>2 DEF Launch
    <3>2. x \in Seeing
      BY SightingsAre
    <3>3. Enter(IF x.started THEN "started" ELSE "not_started") \in RunType
      BY <1>3 DEF Parts
    <3> QED  BY <2>2, <3>1, <3>2, <3>3 DEF Launch, Seeing, Types
  <2>3. CASE NextPart
    <3>1. CASE SameSubject
      BY <3>1, <2>3, <1>3 DEF SameSubject, Parts, NextPart, Types
    <3>2. CASE Onward
      <4>1. CASE NextObserved
        <5>1. First(run.kids) \in Kids
          BY <4>1, <1>1, FirstOf DEF NextObserved
        <5>2. Enter("process") \in RunType
          BY <1>3 DEF Parts
        <5> QED  BY <4>1, <5>1, <5>2, <2>3 DEF NextObserved, NextPart, Types
      <4>2. CASE NextChanged
        <5>1. First(run.files) \in Files
          BY <4>2, <1>1, FirstOf DEF NextChanged
        <5>2. Enter("file") \in RunType
          BY <1>3 DEF Parts
        <5> QED  BY <4>2, <5>1, <5>2, <2>3 DEF NextChanged, NextPart, Types
      <4>3. CASE run' = Enter("closing")
        BY <4>3, <2>3, <1>3 DEF Parts, NextPart, Types
      <4> QED  BY <3>2, <4>1, <4>2, <4>3 DEF Onward
    <3> QED  BY <2>3, <3>1, <3>2 DEF NextPart
  <2>4. CASE Return
    BY <2>4, <1>1 DEF Return, Types
  <2>5. CASE Interrupted
    BY <2>5, <1>1 DEF Interrupted, Types
  <2> QED  BY <2>1, <2>2, <2>3, <2>4, <2>5 DEF RecorderSteps
<1>5. UNCHANGED <<worker, pass, bundle, load>>
  BY DEF RecorderSteps, Record, Launch, NextPart, Return, Interrupted
<1> QED  BY <1>4, <1>5 DEF Types

LEMMA NextTypes ==
  ASSUME Types, StoreNext
  PROVE  Types'
<1>1. CASE RecorderSteps
  BY <1>1, RunTypes
<1>2. CASE WorkerSteps
  <2>1. worker' \in [batch : SUBSET Telemetry, step : 1 .. WorkerEdges + 1]
    <3>1. CASE ProcessEvidence
      BY <3>1, Orders DEF ProcessEvidence, Unprocessed
    <3>2. CASE InsertWorkerEdge
      BY <3>2, Orders DEF InsertWorkerEdge, Types
    <3>3. CASE UpdateStatus
      BY <3>3, Orders DEF UpdateStatus, Types
    <3> QED  BY <1>2, <3>1, <3>2, <3>3 DEF WorkerSteps
  <2>2. refused' \in Nat
    BY <1>2 DEF WorkerSteps, ProcessEvidence, InsertWorkerEdge, UpdateStatus, Refusal, NoRefusal, Types
  <2>3. UNCHANGED <<run, pass, bundle, load>>
    BY <1>2 DEF WorkerSteps, ProcessEvidence, InsertWorkerEdge, UpdateStatus
  <2> QED  BY <2>1, <2>2, <2>3 DEF Types
<1>3. CASE PassSteps
  <2>1. /\ pass'.step \in 0 .. Len(MaterializeOrder)
        /\ DOMAIN pass' = {"step", "left", "known", "put", "count"}
        /\ refused' \in Nat
    <3>1. CASE Materialize
      BY <3>1, Orders DEF Materialize, Types
    <3>2. CASE NextTable
      BY <3>2, Orders DEF NextTable, Types
    <3>3. CASE PutBlob
      BY <3>3, Orders DEF PutBlob, Types
    <3>4. CASE PutRow
      BY <3>4, Orders DEF PutRow, Types
    <3>5. CASE PassFails
      BY <3>5, Orders DEF PassFails, Refusal, Types
    <3> QED  BY <1>3, <3>1, <3>2, <3>3, <3>4, <3>5 DEF PassSteps
  <2>2. UNCHANGED <<run, worker, bundle, load>>
    BY <1>3 DEF PassSteps, Materialize, NextTable, PutBlob, PutRow, PassFails
  <2> QED  BY <2>1, <2>2 DEF Types
<1>4. CASE BundleSteps
  <2>1. /\ bundle'.at \in {"none", "dumping", "ready", "failed"}
        /\ bundle'.next \in 1 .. Len(DumpOrder) + 1
        /\ DOMAIN bundle' = {"at", "next", "rows", "blobs", "count"}
        /\ load'.at \in {"none", "restoring", "failed", "done"}
        /\ DOMAIN load' = {"at", "left", "count"}
        /\ refused' \in Nat
    <3>1. CASE Export
      BY <3>1, Orders DEF Export, Types
    <3>2. CASE Dump
      BY <3>2, Orders DEF Dump, Types
    <3>3. CASE Embed
      BY <3>3, Orders DEF Embed, Types
    <3>4. CASE Import
      BY <3>4, Orders DEF Import, Types
    <3>5. CASE RestoreObject
      BY <3>5, Orders DEF RestoreObject, Refusal, NoRefusal, Types
    <3>6. CASE Imported
      BY <3>6, Orders DEF Imported, Types
    <3> QED  BY <1>4, <3>1, <3>2, <3>3, <3>4, <3>5, <3>6 DEF BundleSteps
  <2>2. UNCHANGED <<run, worker, pass>>
    BY <1>4 DEF BundleSteps, Export, Dump, Embed, Import, RestoreObject, Imported
  <2> QED  BY <2>1, <2>2 DEF Types
<1> QED  BY <1>1, <1>2, <1>3, <1>4 DEF StoreNext

-----------------------------------------------------------------------------
(* Subject: the recorder goes through what it saw.                         *)
LEMMA InitSubject == StoreInit => Subject
BY DEF StoreInit, Subject, NothingSeen

\* A part is entered at its first statement, with all else as it was.
LEMMA EnterIs ==
  ASSUME Types, NEW part
  PROVE  Enter(part).at = part /\ Enter(part).next = 1 /\ Enter(part).who = run.who
         /\ Enter(part).saw = run.saw /\ Enter(part).kids = run.kids /\ Enter(part).files = run.files
BY DEF Types, Enter

LEMMA NextSubject ==
  ASSUME Types, Subject, StoreNext
  PROVE  Subject'
<1>1. CASE Record
  <2>1. run'.at \in {run.at, "error"} /\ UNCHANGED <<run.who, run.saw, run.kids, run.files>>
    BY <1>1 DEF Record, Advance, Types
  <2> QED  BY <2>1 DEF Subject
<1>2. CASE Launch
  <2>1. PICK x \in Sightings :
          run' = [Enter(IF x.started THEN "started" ELSE "not_started")
                    EXCEPT !.saw = x, !.kids = x.kids, !.files = x.files]
    BY <1>2 DEF Launch
  <2>2. /\ run'.at = IF x.started THEN "started" ELSE "not_started"
        /\ run'.saw = x /\ run'.kids = x.kids /\ run'.files = x.files
    BY <2>1 DEF Enter, Types
  <2> QED  BY <2>2, SightingsAre DEF Subject
<1>3. CASE NextPart
  <2>1. CASE SameSubject
    BY <2>1, EnterIs DEF SameSubject, Finished, Subject
  <2>2. CASE Onward
    <3>1. run.at \in {"started", "process", "orphan", "artifact"}
      BY <2>2 DEF Onward, Finished
    <3>2. CASE NextObserved
      <4>1. First(run.kids) \in run.kids
        BY <3>2, FirstOf DEF NextObserved
      <4>2. /\ run'.at = "process" /\ run'.who = First(run.kids) /\ run'.saw = run.saw
            /\ run'.kids = run.kids \ {First(run.kids)} /\ run'.files = run.files
        BY <3>2, EnterIs DEF NextObserved, Enter, Types
      <4> QED  BY <3>1, <4>1, <4>2 DEF Subject
    <3>3. CASE NextChanged
      <4>1. First(run.files) \in run.files /\ run.kids = {}
        BY <3>3, FirstOf DEF NextChanged
      <4>2. /\ run'.at = "file" /\ run'.who = First(run.files) /\ run'.saw = run.saw
            /\ run'.kids = run.kids /\ run'.files = run.files \ {First(run.files)}
        BY <3>3, EnterIs DEF NextChanged, Enter, Types
      <4> QED  BY <3>1, <4>1, <4>2 DEF Subject
    <3>4. CASE run.kids = {} /\ run.files = {} /\ run' = Enter("closing")
      BY <3>4, EnterIs DEF Subject
    <3> QED  BY <2>2, <3>2, <3>3, <3>4 DEF Onward
  <2> QED  BY <1>3, <2>1, <2>2 DEF NextPart
<1>4. CASE Return
  <2>1. /\ run'.at = "returned" /\ UNCHANGED <<run.who, run.saw, run.kids, run.files>>
        /\ run.at \in {"closing", "not_started"}
    BY <1>4 DEF Return, Finished, Types
  <2> QED  BY <2>1 DEF Subject
<1>5. CASE Interrupted
  <2>1. run'.at = "killed" /\ UNCHANGED <<run.who, run.saw, run.kids, run.files>>
    BY <1>5 DEF Interrupted, Types
  <2> QED  BY <2>1 DEF Subject
<1>6. CASE UNCHANGED run
  BY <1>6 DEF Subject
<1> QED
  BY <1>1, <1>2, <1>3, <1>4, <1>5, <1>6
  DEF StoreNext, RecorderSteps, WorkerSteps, PassSteps, BundleSteps, ProcessEvidence, InsertWorkerEdge,
      UpdateStatus, Materialize, NextTable, PutBlob, PutRow, PassFails, Export, Dump, Embed, Import,
      RestoreObject, Imported

-----------------------------------------------------------------------------
(* What a step may add to the rows here.                                   *)
Upcoming == Part(run)[run.next]
Stores ==
  /\ Recording /\ run.next \in 1 .. Len(Part(run)) /\ Upcoming.after \subseteq here
  /\ here' = here \cup {Upcoming.row} /\ run' = Advance(run)
  /\ UNCHANGED <<there, worker, pass, bundle, load, large, refused, early>>
Works(r) ==
  /\ WorkerRow(r) /\ Table(r) \in RecordedTables
  /\ worker.batch # {} /\ UNCHANGED <<run, pass, bundle, load, there, large, early>>
Puts(r) == Table(r) \in ObjectTables /\ UNCHANGED <<run, worker, there, bundle, load, large, refused, early>>

\* A step stores the recorder's row, or one of a worker or a pass, or nothing.
LEMMA HereChanges ==
  ASSUME Types, StoreNext
  PROVE  \/ UNCHANGED here
         \/ Stores
         \/ \E r : here' = here \cup {r} /\ (Works(r) \/ Puts(r))
<1>1. CASE Record
  <2>1. Recording /\ run.next \in 1 .. Len(Part(run))
    BY <1>1, PartInTurn DEF Record, Types
  <2> QED  BY <1>1, <2>1 DEF Record, Stores, Upcoming, NoRefusal
<1>2. CASE InsertWorkerEdge
  <2>1. WorkerRow(WorkerEdge(worker.step, First(worker.batch)))
    BY <1>2, Orders DEF InsertWorkerEdge, WorkerRow, WorkerEdge, Edge, Table, Types
  <2>2. Table(WorkerEdge(worker.step, First(worker.batch))) \in RecordedTables
    BY DEF WorkerEdge, Edge, Table, RecordedTables
  <2> QED  BY <1>2, <2>1, <2>2 DEF InsertWorkerEdge, Works
<1>3. CASE UpdateStatus
  <2>1. /\ WorkerRow(Processed(First(worker.batch)))
        /\ Table(Processed(First(worker.batch))) \in RecordedTables
    BY DEF Processed, WorkerRow, IsUpdate, Table, RecordedTables
  <2> QED  BY <1>3, <2>1 DEF UpdateStatus, Works
<1>4. CASE PutBlob
  <2>1. PICK o : here' = here \cup {Blob(o)}
    BY <1>4 DEF PutBlob
  <2>2. Table(Blob(o)) \in ObjectTables
    BY DEF Blob, Table, ObjectTables
  <2> QED  BY <1>4, <2>1, <2>2 DEF PutBlob, Puts
<1>5. CASE PutRow
  <2>1. PICK o : here' = here \cup {Object(o)}
    BY <1>5 DEF PutRow
  <2>2. Table(Object(o)) \in ObjectTables
    BY DEF Object, Table, ObjectTables
  <2> QED  BY <1>5, <2>1, <2>2 DEF PutRow, Puts
<1>6. CASE \/ Launch \/ NextPart \/ Return \/ Interrupted \/ ProcessEvidence
           \/ Materialize \/ NextTable \/ PassFails \/ BundleSteps
  BY <1>6 DEF Launch, NextPart, Return, Interrupted, ProcessEvidence, Materialize, NextTable, PassFails,
              BundleSteps, Export, Dump, Embed, Import, RestoreObject, Imported
<1> QED
  BY <1>1, <1>2, <1>3, <1>4, <1>5, <1>6 DEF StoreNext, RecorderSteps, WorkerSteps, PassSteps

\* No step takes a row away.
LEMMA HereGrows ==
  ASSUME Types, StoreNext
  PROVE  here \subseteq here'
BY HereChanges DEF Stores

(* Rows the recorder alone writes, and rows that come late.                *)
LEMMA SetupRowsEarly ==
  /\ ~Late(Snapshot) /\ ~Late(Lease) /\ ~Late(Session) /\ ~Late(Rollout) /\ ~Late(Attempt)
  /\ ~Late(ToolCall) /\ ~Late(RootProcess)
  /\ Table(Snapshot) = "snapshots" /\ Table(Lease) = "leases" /\ Table(Session) = "sessions"
  /\ Table(Rollout) = "rollouts" /\ Table(Attempt) = "fork_attempts"
  /\ Table(ToolCall) = "tool_calls" /\ Table(RootProcess) = "processes"
BY DEF Late, IsUpdate, Table, SetupTables, Snapshot, Lease, Session, Rollout, Attempt, ToolCall, RootProcess

\* Which rows come late.
LEMMA LateRows ==
  /\ \A e : Late(Event(e)) /\ Late(Evidence(e)) /\ Late(Processed(e))
  /\ \A k : Late(Decision(k)) /\ Late(Risk(k)) /\ Late(Response(k)) /\ Late(Binding(k))
  /\ Late(Ended(ToolCall)) /\ Late(Ended(RootProcess)) /\ Late(Ended(Rollout))
  /\ \A r : Table(r) \in ObjectTables => ~Late(r) /\ ~Recorded(r)
  /\ \A r : WorkerRow(r) /\ Table(r) \in RecordedTables => Late(r)
BY DEF Late, IsUpdate, Table, SetupTables, RecordedTables, ObjectTables, WorkerRow, Recorded,
       Event, Evidence, Processed, Decision, Risk, Response, Binding, Ended, ToolCall, RootProcess, Rollout

\* Which rows only a recording writes.
LEMMA RecordedRows ==
  /\ \A e : Recorded(Event(e)) /\ Recorded(Evidence(e))
  /\ \A k : Recorded(Decision(k)) /\ Recorded(Risk(k)) /\ Recorded(Response(k))
            /\ Recorded(Signal(k)) /\ Recorded(Binding(k))
  /\ Recorded(Snapshot) /\ Recorded(Lease) /\ Recorded(Session) /\ Recorded(Rollout)
  /\ Recorded(Attempt) /\ Recorded(ToolCall) /\ Recorded(RootProcess)
  /\ Recorded(Ended(Rollout)) /\ Recorded(Ended(Attempt)) /\ Recorded(Ended(ToolCall))
  /\ Recorded(Ended(RootProcess)) /\ Recorded(Ended(Binding("root")))
<1>1. \A i \in 1 .. WorkerEdges : LinkTypes[i] \in {"rollout_attempt", "snapshot_attempt",
        "attempt_tool_call", "attempt_session", "tool_call_session"}
  BY Orders DEF LinkTypes
<1> QED
  BY <1>1 DEF Recorded, WorkerRow, IsUpdate, Table, SetupTables, RecordedTables, Event, Evidence,
     Decision, Risk, Response, Signal, Binding, Snapshot, Lease, Session, Rollout, Attempt,
     ToolCall, RootProcess, Ended

\* What the worker and the passes store is not the recorder's.
LEMMA AddedRow ==
  ASSUME Types, NEW r, Works(r) \/ Puts(r)
  PROVE  ~Recorded(r)
BY LateRows DEF Works, Puts, Recorded

(* Of the recorder's rows only its own steps add one.                      *)
LEMMA RecordedStays ==
  ASSUME Types, StoreNext, ~Stores, NEW r, Recorded(r)
  PROVE  r \in here' <=> r \in here
BY HereChanges, AddedRow

-----------------------------------------------------------------------------
(* SetupOrder.                                                             *)
LEMMA InitSetupOrder == StoreInit => SetupOrder
BY DEF StoreInit, SetupOrder

\* Until it has stored them all, the recorder does not go past its first rows.
LEMMA SetupStep ==
  ASSUME Types, StoreNext, SetupOrder
  PROVE  /\ run'.at = "setup" /\ ~Stores => run.at = "setup" /\ run'.next = run.next
         /\ run'.at \in Parts \cup {"returned"} /\ run'.at # "setup" => RootProcess \in here
<1>1. CASE Record /\ ~Stores
  <2>1. Recording /\ run.next \in 1 .. Len(Part(run))
    BY <1>1, PartInTurn DEF Record, Types
  <2>2. run.at = "setup" => run'.at = "error"
    <3>1. run.at = "setup" => Upcoming.must /\ Upcoming.after = {}
      BY <2>1, PartIs, SetupRows DEF Upcoming, Free
    <3> QED  BY <1>1, <2>1, <3>1 DEF Record, Stores, Upcoming, NoRefusal, Types
  <2>3. run'.at \in {run.at, "error"}
    BY <1>1 DEF Record, Advance, Types
  <2> QED  BY <2>1, <2>2, <2>3 DEF Recording, SetupOrder, Parts
<1>2. CASE Stores
  BY <1>2 DEF Stores, Advance, Types, SetupOrder, Recording, Parts
<1>3. CASE Launch
  <2>1. run.at = "links" /\ run'.at # "setup"
    BY <1>3 DEF Launch, Finished, Enter, Types
  <2> QED  BY <2>1 DEF SetupOrder, Parts
<1>4. CASE NextPart
  <2>1. run'.at # "setup" /\ run.at \in Parts
    <3>1. CASE SameSubject
      BY <3>1, EnterIs DEF SameSubject, Finished, Parts
    <3>2. CASE Onward
      <4>1. run.at \in Parts
        BY <3>2 DEF Onward, Finished, Parts
      <4>2. run'.at \in {"process", "file", "closing"}
        <5>1. NextObserved => run'.at = "process"
          BY EnterIs DEF NextObserved, Enter, Types
        <5>2. NextChanged => run'.at = "file"
          BY EnterIs DEF NextChanged, Enter, Types
        <5>3. run' = Enter("closing") => run'.at = "closing"
          BY EnterIs
        <5> QED  BY <3>2, <5>1, <5>2, <5>3 DEF Onward
      <4> QED  BY <4>1, <4>2
    <3> QED  BY <1>4, <3>1, <3>2 DEF NextPart
  <2>2. run.at = "setup" => run.next > 7
    BY <1>4, PartIs, SetupRows DEF NextPart, SameSubject, Onward, Finished
  <2> QED  BY <2>1, <2>2, SetupRows DEF SetupOrder, Types
<1>5. CASE Return
  BY <1>5 DEF Return, Finished, SetupOrder, Parts, Types
<1>6. CASE Interrupted
  BY <1>6 DEF Interrupted, Types, Parts
<1>7. CASE UNCHANGED run
  BY <1>7 DEF SetupOrder, Stores, Advance, Types
<1> QED
  BY <1>1, <1>2, <1>3, <1>4, <1>5, <1>6, <1>7
  DEF StoreNext, RecorderSteps, WorkerSteps, PassSteps, BundleSteps, ProcessEvidence, InsertWorkerEdge,
      UpdateStatus, Materialize, NextTable, PutBlob, PutRow, PassFails, Export, Dump, Embed, Import,
      RestoreObject, Imported

LEMMA NextSetupOrder ==
  ASSUME Types, SetupOrder, WorkerOrder, StoreNext
  PROVE  SetupOrder'
<1> DEFINE After4 == {"rollouts", "fork_attempts", "tool_calls", "processes"}
<1>1. CASE UNCHANGED here
  <2>1. run'.at = "setup" => ~Stores \/ run'.next = run.next + 1
    BY DEF Stores, Advance, Types
  <2>2. CASE ~Stores
    BY <1>1, <2>2, SetupStep DEF SetupOrder
  <2>3. CASE Stores
    <3>1. Upcoming.row \in here
      BY <1>1, <2>3 DEF Stores
    <3>2. run'.at = run.at /\ run'.next = run.next + 1
      BY <2>3 DEF Stores, Advance, Types
    <3>3. run.at = "setup" => Upcoming = Setup[run.next]
      BY PartIs DEF Upcoming
    <3> QED  BY <1>1, <3>1, <3>2, <3>3, SetupRows DEF SetupOrder, Types
  <2> QED  BY <2>2, <2>3
<1>2. CASE Stores /\ run.at = "setup"
  <2> DEFINE i == run.next
             r == Upcoming.row
  <2>1. i \in 1 .. 7 /\ Upcoming = Setup[i]
    BY <1>2, PartIs, SetupRows DEF Stores, Upcoming
  <2>2. run'.at = "setup" /\ run'.next = i + 1 /\ here' = here \cup {r}
    BY <1>2 DEF Stores, Advance, Types
  <2>3. \A j \in 1 .. 7 : j < i => Setup[j].row \in here
    BY <1>2 DEF SetupOrder
  <2>4. \/ i = 1 /\ r = Snapshot
        \/ i = 2 /\ r = Lease
        \/ i = 3 /\ r = Session
        \/ i = 4 /\ r = Rollout
        \/ i = 5 /\ r = Attempt
        \/ i = 6 /\ r = ToolCall
        \/ i = 7 /\ r = RootProcess
    BY <2>1, SetupRows
  <2>5. /\ i > 1 => Snapshot \in here
        /\ i > 2 => Lease \in here
        /\ i > 3 => Session \in here
        /\ i > 4 => Rollout \in here
        /\ i > 5 => Attempt \in here
        /\ i > 6 => ToolCall \in here
    BY <2>1, <2>3, SetupRows
  <2>6. /\ Lease \in here' => Snapshot \in here'
        /\ Session \in here' => Lease \in here'
        /\ Rollout \in here' => Session \in here'
        /\ Attempt \in here' => Rollout \in here'
        /\ ToolCall \in here' => Attempt \in here'
        /\ RootProcess \in here' => ToolCall \in here'
    <3>1. Lease \in here' => Snapshot \in here'
      BY <2>2, <2>4, <2>5, SetupRowsEarly DEF SetupOrder
    <3>2. Session \in here' => Lease \in here'
      BY <2>2, <2>4, <2>5, SetupRowsEarly DEF SetupOrder
    <3>3. Rollout \in here' => Session \in here'
      BY <2>2, <2>4, <2>5, SetupRowsEarly DEF SetupOrder
    <3>4. Attempt \in here' => Rollout \in here'
      BY <2>2, <2>4, <2>5, SetupRowsEarly DEF SetupOrder
    <3>5. ToolCall \in here' => Attempt \in here'
      BY <2>2, <2>4, <2>5, SetupRowsEarly DEF SetupOrder
    <3>6. RootProcess \in here' => ToolCall \in here'
      BY <2>2, <2>4, <2>5, SetupRowsEarly DEF SetupOrder
    <3> QED  BY <3>1, <3>2, <3>3, <3>4, <3>5, <3>6
  <2>7. \A q \in here' : Late(q) => RootProcess \in here'
    BY <2>2, <2>4, SetupRowsEarly DEF SetupOrder
  <2>8. \A q \in here' : Table(q) \in After4 => Rollout \in here'
    BY <2>1, <2>2, <2>4, <2>5, SetupRowsEarly DEF SetupOrder
  <2>9. \A j \in 1 .. 7 : j < run'.next => Setup[j].row \in here'
    BY <2>1, <2>2, <2>3
  <2> QED  BY <2>2, <2>6, <2>7, <2>8, <2>9 DEF SetupOrder
<1>3. CASE Stores /\ run.at # "setup"
  <2> DEFINE r == Upcoming.row
  <2>1. RootProcess \in here
    BY <1>3 DEF Stores, SetupOrder, Recording, Parts
  <2>2. Late(r) \/ Table(r) \in ObjectTables
    BY <1>3, NextRow DEF Stores, Upcoming, RowFacts
  <2>3. run'.at = run.at /\ here' = here \cup {r}
    BY <1>3 DEF Stores, Advance, Types
  <2>4. Rollout \in here
    BY <2>1 DEF SetupOrder
  <2>5. r \notin {Lease, Session, Rollout, Attempt, ToolCall, RootProcess}
    BY <2>2, SetupRowsEarly DEF ObjectTables
  <2> HIDE DEF r
  <2> QED  BY <1>3, <2>1, <2>3, <2>4, <2>5 DEF SetupOrder
<1>4. ASSUME NEW r, here' = here \cup {r}, Works(r) \/ Puts(r)
      PROVE  SetupOrder'
  <2>1. UNCHANGED run
    BY <1>4 DEF Works, Puts
  <2>2. r \notin {Lease, Session, Rollout, Attempt, ToolCall, RootProcess}
    BY <1>4, AddedRow, RecordedRows
  <2>3. Late(r) => RootProcess \in here
    <3>1. CASE Works(r)
      <4>1. PICK e \in worker.batch : Evidence(e) \in here
        BY <3>1 DEF Works, WorkerOrder
      <4> QED  BY <4>1, LateRows DEF SetupOrder
    <3>2. CASE Puts(r)
      BY <3>2, LateRows DEF Puts
    <3> QED  BY <1>4, <3>1, <3>2
  <2>4. Table(r) \notin After4
    BY <1>4 DEF Works, Puts, WorkerRow, ObjectTables
  <2> QED  BY <1>4, <2>1, <2>2, <2>3, <2>4 DEF SetupOrder
<1> QED  BY <1>1, <1>2, <1>3, <1>4, HereChanges

-----------------------------------------------------------------------------
(* AfterOrder.                                                             *)
LEMMA NewRow ==
  ASSUME Types, Stores
  PROVE  RowFacts(Upcoming, run.next)
BY NextRow DEF Stores, Upcoming

LEMMA InitAfterOrder == StoreInit => AfterOrder
BY DEF StoreInit, AfterOrder

LEMMA NextAfterOrder ==
  ASSUME Types, AfterOrder, StoreNext
  PROVE  AfterOrder'
<1>1. CASE ~Stores
  BY <1>1, RecordedStays, RecordedRows DEF AfterOrder
<1>2. CASE Stores
  <2>1. /\ \A k : Upcoming.row = Decision(k) => Upcoming.after = {Event(Orphan(k))}
        /\ \A k : Upcoming.row = Risk(k) => Upcoming.after = {Decision(k)}
        /\ \A k : Upcoming.row = Response(k) => Upcoming.after = {Risk(k)}
    BY <1>2, NewRow DEF RowFacts
  <2>2. Upcoming.after \subseteq here /\ here' = here \cup {Upcoming.row}
    BY <1>2 DEF Stores
  <2> QED  BY <2>1, <2>2 DEF AfterOrder
<1> QED  BY <1>1, <1>2

-----------------------------------------------------------------------------
(* Made: nothing refused, the recorder stores every row it comes to.       *)
LEMMA InitMade == StoreInit => Made
BY DEF StoreInit, Made

\* Only the recorder's own steps move it.
LEMMA RunKept ==
  ASSUME Types, StoreNext, ~Record, ~Launch, ~NextPart, ~Return, ~Interrupted
  PROVE  UNCHANGED run
BY DEF StoreNext, RecorderSteps, WorkerSteps, PassSteps, BundleSteps, ProcessEvidence,
       InsertWorkerEdge, UpdateStatus, Materialize, NextTable, PutBlob, PutRow, PassFails, Export,
       Dump, Embed, Import, RestoreObject, Imported

\* A step refuses one statement at most, and forgets no refusal.
LEMMA RefusedGrows ==
  ASSUME Types, StoreNext
  PROVE  refused' \in {refused, refused + 1}
BY DEF StoreNext, RecorderSteps, WorkerSteps, PassSteps, BundleSteps, Record, Launch, NextPart, Return,
       Interrupted, ProcessEvidence, InsertWorkerEdge, UpdateStatus, Materialize, NextTable, PutBlob,
       PutRow, PassFails, Export, Dump, Embed, Import, RestoreObject, Imported, Refusal, NoRefusal

\* Nothing refused after a step, nothing was before it.
LEMMA RefusedBefore ==
  ASSUME Types, StoreNext, refused' = 0
  PROVE  refused = 0
BY RefusedGrows DEF Types

\* With nothing refused, the row the recorder is at is stored.
LEMMA RecordStores ==
  ASSUME Types, Made, Record, refused' = 0
  PROVE  Stores
<1>1. Recording /\ run.next \in 1 .. Len(Part(run)) /\ refused = 0
  BY PartInTurn DEF Record, Types, Refusal, NoRefusal
<1>2. Upcoming.after \subseteq here
  BY <1>1, PartInTurn DEF InTurn, Made, Upcoming
<1> QED  BY <1>1, <1>2 DEF Record, Stores, Upcoming, NoRefusal, Refusal, Types

\* A part does not change while the recorder is in it.
LEMMA PartKept ==
  ASSUME UNCHANGED run \/ Advance(run) = run', Types
  PROVE  Part(run)' = Part(run) /\ (Recording' <=> Recording)
BY DEF Part, Advance, Types, Recording

\* The recorder enters a part at its first statement.
LEMMA EnterNext ==
  ASSUME Types, Launch \/ NextPart
  PROVE  run'.next = 1
<1>1. CASE Launch
  BY <1>1 DEF Launch, Enter, Types
<1>2. CASE SameSubject
  BY <1>2, EnterIs DEF SameSubject
<1>3. CASE NextObserved
  BY <1>3 DEF NextObserved, Enter, Types
<1>4. CASE NextChanged
  BY <1>4 DEF NextChanged, Enter, Types
<1>5. CASE run' = Enter("closing")
  BY <1>5, EnterIs
<1> QED  BY <1>1, <1>2, <1>3, <1>4, <1>5 DEF NextPart, Onward

LEMMA NextMade ==
  ASSUME Types, Made, StoreNext
  PROVE  Made'
<1> SUFFICES ASSUME refused' = 0, Recording'
             PROVE  \A i \in 1 .. Len(Part(run)') : i < run'.next => Part(run)'[i].row \in here'
  BY DEF Made
<1>1. refused = 0
  BY RefusedBefore
<1>2. CASE Stores
  <2>1. run' = Advance(run) /\ run'.next = run.next + 1 /\ here' = here \cup {Part(run)[run.next].row}
    BY <1>2 DEF Stores, Advance, Types, Upcoming
  <2>2. Part(run)' = Part(run) /\ Recording
    BY <2>1, PartKept
  <2>3. \A i \in 1 .. Len(Part(run)) : i < run.next => Part(run)[i].row \in here
    BY <1>1, <2>2 DEF Made
  <2> QED  BY <2>1, <2>2, <2>3 DEF Types
<1>3. CASE UNCHANGED run
  <2>1. Part(run)' = Part(run) /\ Recording
    BY <1>3, PartKept
  <2> QED  BY <1>1, <1>3, <2>1, HereGrows DEF Made
<1>4. CASE Launch \/ NextPart
  BY <1>4, EnterNext
<1>5. CASE Return \/ Interrupted
  BY <1>5 DEF Return, Interrupted, Recording, Types
<1>6. CASE Record
  BY <1>2, <1>6, RecordStores
<1> QED  BY <1>2, <1>3, <1>4, <1>5, <1>6, RunKept

LEMMA InitEndOrder == StoreInit => EndOrder
BY DEF StoreInit, EndOrder

LEMMA NextEndOrder ==
  ASSUME Types, Made, EndOrder, StoreNext
  PROVE  EndOrder'
<1>1. refused \in Nat /\ refused' \in {refused, refused + 1}
  BY RefusedGrows DEF Types
<1>2. CASE ~Stores
  BY <1>1, <1>2, RecordedStays, RecordedRows DEF EndOrder
<1>3. CASE Stores
  <2>1. Upcoming.row = Ended(ToolCall) =>
          run.next > 1 /\ Part(run)[1].row = Ended(RootProcess)
    BY <1>3, NewRow DEF RowFacts
  <2>2. Recording /\ run.next \in 1 .. Len(Part(run)) /\ here' = here \cup {Upcoming.row}
    BY <1>3 DEF Stores
  <2>3. Upcoming.row = Ended(ToolCall) /\ refused = 0 => Ended(RootProcess) \in here
    BY <2>1, <2>2, PartInTurn DEF Made
  <2> QED  BY <1>1, <2>2, <2>3 DEF EndOrder
<1> QED  BY <1>2, <1>3

-----------------------------------------------------------------------------
(* OnlySeen and AllSeen.                                                   *)
LEMMA SawKept ==
  ASSUME Types, StoreNext, ~Launch
  PROVE  run'.saw = run.saw
<1>1. CASE Record
  BY <1>1 DEF Record, Advance, Types
<1>2. CASE NextPart
  <2>1. CASE SameSubject
    BY <2>1, EnterIs DEF SameSubject
  <2>2. CASE NextObserved
    BY <2>2 DEF NextObserved, Enter, Types
  <2>3. CASE NextChanged
    BY <2>3 DEF NextChanged, Enter, Types
  <2>4. CASE run' = Enter("closing")
    BY <2>4, EnterIs
  <2> QED  BY <1>2, <2>1, <2>2, <2>3, <2>4 DEF NextPart, Onward
<1>3. CASE Return \/ Interrupted
  BY <1>3 DEF Return, Interrupted, Types
<1> QED  BY <1>1, <1>2, <1>3, RunKept

\* The launch follows the links, stores nothing, and settles what is seen.
LEMMA LaunchIs ==
  ASSUME Types, Launch
  PROVE  /\ run.at = "links" /\ Finished("links") /\ UNCHANGED <<here, refused, pass, early, bundle, there, load, large, worker>>
         /\ run'.at \in {"started", "not_started"}
         /\ run'.kids = run'.saw.kids /\ run'.files = run'.saw.files
BY DEF Launch, Finished, Enter, Types

LEMMA InitOnlySeen == StoreInit => OnlySeen
BY DEF StoreInit, OnlySeen

LEMMA NextOnlySeen ==
  ASSUME Types, Subject, OnlySeen, StoreNext
  PROVE  OnlySeen'
<1>1. CASE Launch
  <2>1. run.saw.kids = {} /\ run.saw.orphans = {} /\ run.saw.files = {}
    BY <1>1, LaunchIs DEF Subject
  <2> QED  BY <1>1, <2>1, LaunchIs DEF OnlySeen
<1>2. CASE ~Launch /\ ~Stores
  BY <1>2, SawKept, RecordedStays, RecordedRows DEF OnlySeen
<1>3. CASE ~Launch /\ Stores
  <2>1. /\ \A k : Upcoming.row = Event(Seen(k)) => run.at = "process" /\ run.who = k
        /\ \A k : Upcoming.row = Event(Orphan(k)) => run.at = "orphan" /\ run.who = k
        /\ \A f : Upcoming.row = Event(Written(f)) => run.at = "file" /\ run.who = f
    BY <1>3, NewRow DEF RowFacts
  <2>2. here' = here \cup {Upcoming.row}
    BY <1>3 DEF Stores
  <2> QED  BY <1>3, <2>1, <2>2, SawKept DEF OnlySeen, Subject
<1> QED  BY <1>1, <1>2, <1>3

\* A part that has ended, nothing refused, has stored its rows.
LEMMA PartStored ==
  ASSUME Types, Made, refused = 0, NEW part \in Parts, Finished(part)
  PROVE  RowsOf(Part(run)) \subseteq here
<1>1. Recording
  BY DEF Finished, Recording, Parts
<1> QED  BY <1>1, PartInTurn DEF RowsOf, Made, Finished, Types

LEMMA InitAllSeen == StoreInit => AllSeen
BY DEF StoreInit, AllSeen, Launched, Parts

\* When the recorder goes on, all it has gone through is stored.
LEMMA Passed ==
  ASSUME Types, Subject, Made, AllSeen, refused = 0, Onward
  PROVE  /\ \A k \in run.saw.kids \ run.kids :
              /\ RowsOf(Observed(k)) \subseteq here
              /\ k \in run.saw.orphans => RowsOf(OrphanDecision(k)) \subseteq here
         /\ \A f \in run.saw.files \ run.files : RowsOf(Changed(f)) \subseteq here
         /\ Binding("root") \in here
<1>1. Launched /\ run.at \in {"started", "process", "orphan", "artifact"}
  BY DEF Onward, Finished, Launched, Parts
<1>2. RowsOf(Part(run)) \subseteq here
  BY <1>1, PartStored DEF Onward, Parts
<1>3. run.at = "process" => RowsOf(Observed(run.who)) \subseteq here /\ run.who \notin run.saw.orphans
  BY <1>2, PartIs DEF Onward, Finished
<1>4. run.at = "orphan" => RowsOf(OrphanDecision(run.who)) \subseteq here
  BY <1>2, PartIs
<1>5. run.at = "started" => Binding("root") \in here
  <2>1. Binding("root") \in RowsOf(Started)
    <3>1. 1 \in 1 .. Len(Started) /\ Started[1].row = Binding("root")
      BY StartedRows
    <3> QED  BY <3>1 DEF RowsOf
  <2> QED  BY <1>2, <2>1, PartIs
<1> QED  BY <1>1, <1>3, <1>4, <1>5 DEF AllSeen, About

LEMMA NextAllSeen ==
  ASSUME Types, Subject, Made, AllSeen, StoreNext
  PROVE  AllSeen'
<1> SUFFICES ASSUME refused' = 0, Launched'
             PROVE  AllSeen'
  BY DEF AllSeen
<1>1. refused = 0 /\ here \subseteq here'
  BY RefusedBefore, HereGrows
<1>2. CASE Stores \/ UNCHANGED run
  <2>1. UNCHANGED <<run.at, run.who, run.saw, run.kids, run.files>>
    BY <1>2 DEF Stores, Advance, Types
  <2>2. Launched
    BY <2>1 DEF Launched
  <2> QED  BY <1>1, <2>1, <2>2 DEF AllSeen, About
<1>3. CASE Launch
  BY <1>3, LaunchIs DEF AllSeen
<1>4. CASE SameSubject
  <2>1. \/ Finished("process") /\ run.who \in run.saw.orphans /\ run' = Enter("orphan")
        \/ Finished("file") /\ run' = Enter("artifact")
    <3>1. run' = Enter("links") => run'.at = "links"
      BY EnterIs
    <3>2. run'.at # "links"
      BY DEF Launched, Parts
    <3> QED  BY <1>4, <3>1, <3>2 DEF SameSubject
  <2>2. RowsOf(Part(run)) \subseteq here /\ Launched
    BY <1>1, <2>1, PartStored DEF Parts, Launched, Finished
  <2>3. /\ run.at = "process" => RowsOf(Observed(run.who)) \subseteq here
        /\ run.at = "file" => RowsOf(Changed(run.who)) \subseteq here
    BY <2>2, PartIs
  <2>4. /\ UNCHANGED <<run.who, run.saw, run.kids, run.files>>
        /\ \/ run.at = "process" /\ run'.at = "orphan"
           \/ run.at = "file" /\ run'.at = "artifact"
    BY <2>1, EnterIs DEF Finished
  <2> QED  BY <1>1, <2>2, <2>3, <2>4 DEF AllSeen, About
<1>5. CASE Onward
  <2>1. /\ \A k \in run.saw.kids \ run.kids :
             /\ RowsOf(Observed(k)) \subseteq here'
             /\ k \in run.saw.orphans => RowsOf(OrphanDecision(k)) \subseteq here'
        /\ \A f \in run.saw.files \ run.files : RowsOf(Changed(f)) \subseteq here'
        /\ Binding("root") \in here'
    BY <1>1, <1>5, Passed
  <2>2. CASE NextObserved
    <3>1. /\ run'.at = "process" /\ run'.who = First(run.kids) /\ run'.saw = run.saw
          /\ run'.kids = run.kids \ {First(run.kids)} /\ run'.files = run.files
      BY <2>2, EnterIs DEF NextObserved, Enter, Types
    <3> QED  BY <2>1, <3>1 DEF AllSeen, About
  <2>3. CASE NextChanged
    <3>1. /\ run'.at = "file" /\ run'.who = First(run.files) /\ run'.saw = run.saw
          /\ run'.kids = run.kids /\ run'.files = run.files \ {First(run.files)}
      BY <2>3, EnterIs DEF NextChanged, Enter, Types
    <3> QED  BY <2>1, <3>1 DEF AllSeen, About
  <2>4. CASE run' = Enter("closing")
    BY <2>1, <2>4, EnterIs DEF AllSeen, About
  <2> QED  BY <1>5, <2>2, <2>3, <2>4 DEF Onward
<1>6. CASE Return
  <2>1. /\ run'.at = "returned" /\ UNCHANGED <<run.who, run.saw, run.kids, run.files>>
        /\ run.at \in {"closing", "not_started"}
    BY <1>6 DEF Return, Finished, Types
  <2>2. RowsOf(Part(run)) \subseteq here /\ Launched
    BY <1>1, <1>6, <2>1, PartStored DEF Return, Parts, Launched
  <2>3. run.at = "not_started" => Binding("root") \in here
    <3>1. 7 \in 1 .. Len(NotStarted) /\ NotStarted[7].row = Binding("root")
      BY NotStartedRows
    <3> QED  BY <2>2, <3>1, PartIs DEF RowsOf
  <2> QED  BY <1>1, <2>1, <2>2, <2>3 DEF AllSeen, About, Subject
<1>7. CASE Interrupted
  BY <1>7 DEF Interrupted, Launched, Parts, Types
<1>8. CASE Record
  BY <1>2, <1>8, RecordStores
<1> QED
  BY <1>2, <1>3, <1>4, <1>5, <1>6, <1>7, <1>8, RunKept DEF NextPart

-----------------------------------------------------------------------------
(* ObjectsWhole.                                                           *)
LEMMA ObjectsGain ==
  ASSUME NEW rows, NEW r
  PROVE  Objects(rows \cup {r})
         = Objects(rows) \cup (IF Table(r) = "provenance_objects" THEN {r[2]} ELSE {})
BY DEF Objects

\* Objects and their files, told apart from the recorder's rows.
LEMMA ObjectRows ==
  /\ \A o : Table(Object(o)) = "provenance_objects" /\ Object(o)[2] = o
  /\ \A o : Table(Blob(o)) = "blob"
  /\ \A f : /\ Artifact(f).of = <<"artifact", f>> /\ Artifact(f).parents = {}
            /\ IsArtifact(Artifact(f))
  /\ \A r : Table(r) \in RecordedTables => Table(r) \notin ObjectTables
BY DEF Object, Blob, Artifact, ObjectOf, IsArtifact, Table, RecordedTables, SetupTables, ObjectTables

\* What a statement stores, where objects are concerned.
LEMMA StoredObject ==
  ASSUME Types, Stores
  PROVE  LET a == Artifact(run.who) IN
         \/ Table(Upcoming.row) \in RecordedTables
         \/ Upcoming.row = Blob(a)
         \/ Upcoming.row = Object(a) /\ Blob(a) \in here
<1>1. RowFacts(Upcoming, run.next) /\ Upcoming.after \subseteq here
  BY NewRow DEF Stores
<1> QED  BY <1>1 DEF RowFacts

\* Only the steps of a pass move it.
LEMMA PassKept ==
  ASSUME StoreNext, ~PassSteps
  PROVE  UNCHANGED pass
BY DEF StoreNext, RecorderSteps, WorkerSteps, BundleSteps, Record, Launch, NextPart, Return,
       Interrupted, ProcessEvidence, InsertWorkerEdge, UpdateStatus, Export, Dump, Embed, Import,
       RestoreObject, Imported

LEMMA InitObjectsWhole == StoreInit => ObjectsWhole
BY DEF StoreInit, ObjectsWhole, Objects

\* The rows here, and the objects among them, when no pass takes a step.
LEMMA OtherRows ==
  ASSUME Types, ObjectsWhole, StoreNext, ~PassSteps
  PROVE  \/ here' = here /\ Objects(here') = Objects(here)
         \/ \E r : /\ here' = here \cup {r} /\ Objects(here') = Objects(here)
                   /\ Table(r) \in RecordedTables \cup {"blob"}
         \/ /\ here' = here \cup {Object(Artifact(run.who))}
            /\ Objects(here') = Objects(here) \cup {Artifact(run.who)}
            /\ Blob(Artifact(run.who)) \in here
<1>1. CASE Stores
  <2>1. here' = here \cup {Upcoming.row}
    BY <1>1 DEF Stores
  <2>2. CASE Table(Upcoming.row) \in RecordedTables \/ Upcoming.row = Blob(Artifact(run.who))
    <3>1. Table(Upcoming.row) \in RecordedTables \cup {"blob"} /\ Table(Upcoming.row) # "provenance_objects"
      BY <2>2, ObjectRows DEF ObjectTables
    <3>2. Objects(here') = Objects(here)
      BY <2>1, <3>1, ObjectsGain
    <3> QED  BY <2>1, <3>1, <3>2
  <2>3. CASE Upcoming.row = Object(Artifact(run.who)) /\ Blob(Artifact(run.who)) \in here
    BY <2>1, <2>3, ObjectsGain, ObjectRows
  <2> QED  BY <1>1, <2>2, <2>3, StoredObject
<1>2. ASSUME NEW r, here' = here \cup {r}, Works(r)
      PROVE  Objects(here') = Objects(here) /\ Table(r) \in RecordedTables
  <2>1. Table(r) \in RecordedTables
    BY <1>2 DEF Works
  <2>2. Table(r) # "provenance_objects"
    BY <2>1, ObjectRows DEF ObjectTables
  <2> QED  BY <1>2, <2>1, <2>2, ObjectsGain
<1>3. CASE WorkerSteps
  <2>1. \A r : ~(here' = here \cup {r} /\ Puts(r)) \/ UNCHANGED here \/ \E q : here' = here \cup {q} /\ Works(q)
    <3>1. CASE InsertWorkerEdge \/ UpdateStatus
      <4>1. worker' # worker
        BY <3>1, FirstOf, Orders DEF InsertWorkerEdge, UpdateStatus, Types
      <4> QED  BY <4>1 DEF Puts
    <3>2. CASE ProcessEvidence
      BY <3>2 DEF ProcessEvidence
    <3> QED  BY <1>3, <3>1, <3>2 DEF WorkerSteps
  <2> QED  BY <1>1, <1>2, <2>1, HereChanges
<1>4. CASE Record
  <2>1. UNCHANGED here \/ Stores
    <3>1. Recording /\ run.next \in 1 .. Len(Part(run))
      BY <1>4, PartInTurn DEF Record, Types
    <3> QED  BY <1>4, <3>1 DEF Record, Stores, Upcoming, NoRefusal
  <2> QED  BY <1>1, <2>1
<1>5. CASE UNCHANGED here
  BY <1>5
<1> QED
  BY <1>1, <1>3, <1>4, <1>5 DEF StoreNext, RecorderSteps, BundleSteps, Launch, NextPart, Return, Interrupted,
     Export, Dump, Embed, Import, RestoreObject, Imported

LEMMA NextObjectsWhole ==
  ASSUME Types, ObjectsWhole, StoreNext
  PROVE  ObjectsWhole'
<1> DEFINE Subs(S) == {p.of : p \in S}
<1>1. CASE ~PassSteps
  <2>1. UNCHANGED pass
    BY <1>1, PassKept
  <2>2. CASE Objects(here') = Objects(here) /\ (here' = here \/ \E r : /\ here' = here \cup {r}
                                                                      /\ Table(r) \in RecordedTables \cup {"blob"})
    BY <2>1, <2>2 DEF ObjectsWhole, ObjectTables
  <2>3. CASE /\ here' = here \cup {Object(Artifact(run.who))}
             /\ Objects(here') = Objects(here) \cup {Artifact(run.who)}
             /\ Blob(Artifact(run.who)) \in here
    <3> DEFINE a == Artifact(run.who)
    <3>1. Table(Object(a)) \in ObjectTables /\ a.parents = {}
      BY ObjectRows DEF ObjectTables
    <3>2. /\ here' = here \cup {Object(a)} /\ Objects(here') = Objects(here) \cup {a}
          /\ Blob(a) \in here
      BY <2>3
    <3> HIDE DEF a
    <3> QED  BY <2>1, <3>1, <3>2 DEF ObjectsWhole
  <2> QED  BY <1>1, <2>2, <2>3, OtherRows
<1>2. CASE PutBlob
  <2> DEFINE o == ObjectOf(Turn, Named(Turn) \cap pass.known, Body(Turn, here))
  <2>1. here' = here \cup {Blob(o)} /\ pass'.put = {o} /\ pass'.known = pass.known
    BY <1>2 DEF PutBlob, Types
  <2>2. o.parents \subseteq pass.known
    BY DEF ObjectOf
  <2> HIDE DEF o
  <2>3. Objects(here') = Objects(here)
    <3>1. Table(Blob(o)) # "provenance_objects"
      BY ObjectRows
    <3> QED  BY <2>1, <3>1, ObjectsGain
  <2>4. \A r \in here' : Table(r) \in RecordedTables \cup ObjectTables
    BY <2>1, ObjectRows DEF ObjectsWhole, ObjectTables
  <2> QED  BY <2>1, <2>2, <2>3, <2>4 DEF ObjectsWhole
<1>3. CASE PutRow
  <2>1. PICK o \in pass.put : /\ here' = here \cup {Object(o)}
                              /\ pass'.put = {} /\ pass'.known = pass.known \cup {o.of}
    BY <1>3 DEF PutRow, Types
  <2>2. Objects(here') = Objects(here) \cup {o}
    BY <2>1, ObjectsGain, ObjectRows
  <2>3. \A r \in here' : Table(r) \in RecordedTables \cup ObjectTables
    BY <2>1, ObjectRows DEF ObjectsWhole, ObjectTables
  <2>4. \A q \in Objects(here) \cup {o} : /\ q.parents \subseteq {p.of : p \in Objects(here')}
                                         /\ Blob(q) \in here'
    BY <2>1, <2>2 DEF ObjectsWhole
  <2>5. pass'.known \subseteq {p.of : p \in Objects(here')}
    BY <2>1, <2>2 DEF ObjectsWhole
  <2> QED  BY <2>1, <2>2, <2>3, <2>4, <2>5 DEF ObjectsWhole
<1>4. CASE Materialize \/ PassFails \/ NextTable
  <2>1. /\ UNCHANGED here /\ pass'.known \subseteq pass.known
        /\ pass'.put \subseteq pass.put
    <3>1. CASE Materialize
      BY <3>1 DEF Materialize
    <3>2. CASE PassFails
      BY <3>2 DEF PassFails, Types
    <3>3. CASE NextTable
      BY <3>3 DEF NextTable, Types
    <3> QED  BY <1>4, <3>1, <3>2, <3>3
  <2> QED  BY <2>1 DEF ObjectsWhole
<1> QED  BY <1>1, <1>2, <1>3, <1>4 DEF PassSteps

-----------------------------------------------------------------------------
(* PassOrder: what a pass finds, and in which order it names it.           *)
LEMMA SubjectTable ==
  ASSUME NEW i \in 1 .. 16, NEW rows, NEW files, NEW x \in Subjects(MaterializeOrder[i], rows, files)
  PROVE  /\ Table(x) = MaterializeOrder[i]
         /\ i <= 11 => x \in rows /\ ~IsUpdate(x)
         /\ i = 14 => \E f \in files : x = Diff(f)
         /\ i \in {12, 13, 14} => Rollout \in rows
         /\ i = 16 => Attempt \in rows
<1> DEFINE t == MaterializeOrder[i]
<1>1. /\ i = 12 => t = "replay_manifest"
      /\ i = 13 => t = "trajectory_manifest"
      /\ i = 14 => t = "diff_manifest"
      /\ i = 15 => t = "audit_manifest"
      /\ i = 16 => t = "record_manifest"
      /\ i <= 11 => t \in {"snapshots", "rollouts", "fork_attempts", "tool_calls", "processes",
                           "evidence_events", "events", "policy_decisions", "risk_signals",
                           "response_actions", "cost_samples"}
  BY DEF MaterializeOrder
<1>2. x \in Subjects(t, rows, files)
  OBVIOUS
<1> HIDE DEF t
<1>3. CASE i <= 11
  <2>1. x \in RowsIn(t, rows)
    BY <1>1, <1>2, <1>3 DEF Subjects
  <2> QED  BY <1>3, <2>1 DEF RowsIn, t
<1>4. CASE i \in {12, 13}
  BY <1>1, <1>2, <1>4 DEF Subjects, Manifest, Table, Replayable, t
<1>5. CASE i = 14
  BY <1>1, <1>2, <1>5 DEF Subjects, Diff, Table, Replayable, t
<1>6. CASE i \in {15, 16}
  BY <1>1, <1>2, <1>6 DEF Subjects, Manifest, Table, t
<1> QED  BY <1>3, <1>4, <1>5, <1>6

\* In which order a pass takes the tables.
LEMMA OrderIs ==
  /\ MaterializeOrder[1] = "snapshots" /\ MaterializeOrder[2] = "rollouts"
  /\ MaterializeOrder[3] = "fork_attempts" /\ MaterializeOrder[4] = "tool_calls"
  /\ MaterializeOrder[5] = "processes" /\ MaterializeOrder[6] = "evidence_events"
  /\ MaterializeOrder[7] = "events" /\ MaterializeOrder[8] = "policy_decisions"
  /\ MaterializeOrder[9] = "risk_signals" /\ MaterializeOrder[10] = "response_actions"
  /\ MaterializeOrder[11] = "cost_samples" /\ MaterializeOrder[12] = "replay_manifest"
  /\ MaterializeOrder[13] = "trajectory_manifest" /\ MaterializeOrder[14] = "diff_manifest"
  /\ MaterializeOrder[15] = "audit_manifest" /\ MaterializeOrder[16] = "record_manifest"
BY DEF MaterializeOrder

\* No table is taken twice, and none of the others is taken at all.
LEMMA TablesDiffer ==
  /\ \A i, j \in 1 .. 16 : MaterializeOrder[i] = MaterializeOrder[j] => i = j
  /\ \A i \in 1 .. 16 : /\ MaterializeOrder[i] \notin {"blame_manifest", "graph_edges", "artifact", "foreign"}
                        /\ MaterializeOrder[i] \notin ObjectTables
                        /\ MaterializeOrder[i] \in RecordedTables <=> i <= 11
BY OrderIs DEF ObjectTables, RecordedTables, SetupTables

\* A row that is not the recorder's changes nothing a pass finds.
LEMMA ManifestRows ==
  ASSUME NEW rows, NEW r, ~Recorded(r)
  PROVE  RecordManifest(rows \cup {r}) = RecordManifest(rows)
<1> DEFINE T == {Attempt, Ended(Attempt), Session, RootProcess, Ended(RootProcess),
                 Binding("root"), Ended(Binding("root"))} \cup {Event(e) : e \in Telemetry}
<1>1. \A x \in T : Recorded(x)
  BY RecordedRows
<1>2. RecordManifest(rows) = rows \cap T /\ RecordManifest(rows \cup {r}) = (rows \cup {r}) \cap T
  BY DEF RecordManifest
<1> HIDE DEF T
<1> QED  BY <1>1, <1>2

\* What a pass finds depends on the recorder's rows alone.
LEMMA SubjectsSame ==
  ASSUME NEW rows, NEW r, NEW files, NEW i \in 1 .. 16, ~Recorded(r)
  PROVE  Subjects(MaterializeOrder[i], rows \cup {r}, files) = Subjects(MaterializeOrder[i], rows, files)
<1> DEFINE t == MaterializeOrder[i]
           new == rows \cup {r}
<1>1. r \notin {Rollout, Snapshot, Attempt, ToolCall}
  BY RecordedRows
<1>2. /\ Replayable(new) <=> Replayable(rows)
      /\ Rollout \in new <=> Rollout \in rows
      /\ Attempt \in new <=> Attempt \in rows
  BY <1>1 DEF Replayable
<1>3. i <= 11 => RowsIn(t, new) = RowsIn(t, rows)
  BY TablesDiffer DEF RowsIn, Recorded, WorkerRow
<1>4. i > 11 => t \in {"replay_manifest", "trajectory_manifest", "diff_manifest", "audit_manifest",
                       "record_manifest"}
  BY OrderIs
<1>5. i <= 11 => t \notin {"replay_manifest", "trajectory_manifest", "diff_manifest", "audit_manifest",
                       "record_manifest"}
  BY OrderIs
<1> SUFFICES Subjects(t, new, files) = Subjects(t, rows, files)
  OBVIOUS
<1> HIDE DEF t, new
<1> QED  BY <1>2, <1>3, <1>4, <1>5 DEF Subjects

\* What is named is stored before what names it.
LEMMA NamedIs ==
  ASSUME NEW x
  PROVE  /\ Table(x) \in {"snapshots", "cost_samples", "artifact"} => Named(x) = {}
         /\ Table(x) = "rollouts" => Named(x) = {Snapshot}
         /\ Table(x) = "fork_attempts" => Named(x) = {Rollout, Snapshot}
         /\ Table(x) = "tool_calls" => Named(x) = {Attempt, Rollout}
         /\ Table(x) = "processes" => Named(x) = {ToolCall}
         /\ Table(x) = "evidence_events" => Named(x) \subseteq {Attempt, ToolCall, Snapshot}
         /\ Table(x) = "events" => Named(x) \subseteq {ToolCall, RootProcess, Snapshot}
         /\ Table(x) = "policy_decisions" => Named(x) = {Event(Orphan(x[2]))}
         /\ Table(x) = "risk_signals" =>
              Named(x) = {Event(Orphan(x[2])), Decision(x[2]), ToolCall, RootProcess}
         /\ Table(x) = "response_actions" => Named(x) = {Risk(x[2]), Decision(x[2]), RootProcess}
         /\ Table(x) = "replay_manifest" => Named(x) = {Rollout}
         /\ Table(x) = "trajectory_manifest" => Named(x) = {Manifest("replay_manifest")}
         /\ Table(x) = "diff_manifest" => Named(x) = {Manifest("trajectory_manifest"), Snapshot}
         /\ Table(x) = "blame_manifest" => Named(x) = {Diff(x[2])}
         /\ Table(x) = "audit_manifest" =>
              Named(x) = {Rollout, Manifest("replay_manifest"), Manifest("trajectory_manifest")}
         /\ Table(x) = "record_manifest" => Named(x) = {Rollout, Attempt, ToolCall, RootProcess, Snapshot}
BY DEF Named, RolloutParents, AttemptParents, ToolCallParents, ProcessParents, EvidenceParents,
       EventParents, DecisionParents, RiskParents, ResponseParents, ReplayParents, TrajectoryParents,
       DiffParents, BlameParents, AuditParents, RecordParents

\* The tables of the rows that others name.
LEMMA NamedTables ==
  /\ Table(Snapshot) = "snapshots" /\ Table(Rollout) = "rollouts" /\ Table(Attempt) = "fork_attempts"
  /\ Table(ToolCall) = "tool_calls" /\ Table(RootProcess) = "processes"
  /\ ~IsUpdate(Snapshot) /\ ~IsUpdate(Rollout) /\ ~IsUpdate(Attempt) /\ ~IsUpdate(ToolCall)
  /\ ~IsUpdate(RootProcess)
  /\ \A e : Table(Event(e)) = "events" /\ ~IsUpdate(Event(e))
  /\ \A k : /\ Table(Decision(k)) = "policy_decisions" /\ ~IsUpdate(Decision(k))
            /\ Table(Risk(k)) = "risk_signals" /\ ~IsUpdate(Risk(k))
            /\ Table(Diff(k)) = "diff_manifest" /\ ~IsUpdate(Diff(k))
            /\ Table(Blame(k)) = "blame_manifest"
  /\ \A t : Table(Manifest(t)) = t /\ ~IsUpdate(Manifest(t))
BY DEF Table, IsUpdate, Snapshot, Rollout, Attempt, ToolCall, RootProcess, Event, Decision, Risk,
       Diff, Blame, Manifest

\* A row that is available is found at the place of its table.
LEMMA FoundAt ==
  ASSUME ObjectsWhole, NEW j \in 1 .. 16, NEW y \in here \cup Available,
         Table(y) = MaterializeOrder[j], ~IsUpdate(y), j = 1 => Rollout \in here
  PROVE  y \in Found(j)
<1>1. CASE y \in here
  <2>1. j <= 11
    BY <1>1, TablesDiffer DEF ObjectsWhole
  <2>2. y \in RowsIn(MaterializeOrder[j], here)
    BY <1>1 DEF RowsIn
  <2>3. MaterializeOrder[j] \notin {"replay_manifest", "trajectory_manifest", "diff_manifest",
                                    "audit_manifest", "record_manifest"}
        /\ (MaterializeOrder[j] = "snapshots" => j = 1)
    BY <2>1, OrderIs
  <2> QED  BY <2>2, <2>3 DEF Found, Subjects
<1>2. CASE y \in Available
  <2>1. PICK i \in 1 .. 16 : y \in Found(i)
    BY <1>2, Orders DEF Available
  <2>2. Table(y) = MaterializeOrder[i]
    BY <2>1, SubjectTable DEF Found
  <2> QED  BY <2>1, <2>2, TablesDiffer
<1> QED  BY <1>1, <1>2

\* What a row names is found before the row is.
LEMMA NamedEarlier ==
  ASSUME ObjectsWhole, SetupOrder, NEW i \in 1 .. 16, NEW x \in Found(i),
         NEW y \in Named(x) \cap (here \cup Available)
  PROVE  \E j \in 1 .. i - 1 : y \in Found(j)
<1>1. /\ Table(x) = MaterializeOrder[i]
      /\ i <= 11 => x \in here
      /\ i \in {12, 13, 14} => Rollout \in here
      /\ i = 16 => Attempt \in here
  BY SubjectTable DEF Found
<1>2. i \notin {1, 15} => Rollout \in here
  <2>1. CASE i \in 2 .. 5
    BY <1>1, <2>1, OrderIs DEF SetupOrder
  <2>2. CASE i \in 6 .. 11
    <3>1. Late(x)
      <4>1. Table(x) \in RecordedTables \ SetupTables
        BY <1>1, <2>2, OrderIs DEF RecordedTables, SetupTables
      <4> QED  BY <4>1 DEF Late
    <3> QED  BY <1>1, <2>2, <3>1 DEF SetupOrder
  <2>3. CASE i = 16
    BY <1>1, <2>3 DEF SetupOrder
  <2> QED  BY <1>1, <2>1, <2>2, <2>3
<1>3. /\ i = 15 => Named(x) = {Rollout, Manifest("replay_manifest"), Manifest("trajectory_manifest")}
      /\ i = 1 => Named(x) = {}
  BY <1>1, OrderIs, NamedIs
<1>4. \E j \in 1 .. i - 1 : Table(y) = MaterializeOrder[j] /\ ~IsUpdate(y)
  <2>1. /\ i \in {1, 11} => Named(x) = {}
        /\ i = 2 => Named(x) = {Snapshot}
        /\ i = 3 => Named(x) = {Rollout, Snapshot}
        /\ i = 4 => Named(x) = {Attempt, Rollout}
        /\ i = 5 => Named(x) = {ToolCall}
        /\ i = 6 => Named(x) \subseteq {Attempt, ToolCall, Snapshot}
        /\ i = 7 => Named(x) \subseteq {ToolCall, RootProcess, Snapshot}
    BY <1>1, OrderIs, NamedIs
  <2>2. /\ i = 8 => Named(x) = {Event(Orphan(x[2]))}
        /\ i = 9 => Named(x) = {Event(Orphan(x[2])), Decision(x[2]), ToolCall, RootProcess}
        /\ i = 10 => Named(x) = {Risk(x[2]), Decision(x[2]), RootProcess}
        /\ i = 12 => Named(x) = {Rollout}
        /\ i = 13 => Named(x) = {Manifest("replay_manifest")}
        /\ i = 14 => Named(x) = {Manifest("trajectory_manifest"), Snapshot}
        /\ i = 16 => Named(x) = {Rollout, Attempt, ToolCall, RootProcess, Snapshot}
    BY <1>1, OrderIs, NamedIs
  <2>3. y \in Named(x)
    OBVIOUS
  <2>4. CASE i \in 1 .. 7
    BY <2>1, <2>3, <2>4, NamedTables, OrderIs
  <2>5. CASE i \in 8 .. 11
    BY <2>1, <2>2, <2>3, <2>5, NamedTables, OrderIs
  <2>6. CASE i \in 12 .. 16
    BY <1>3, <2>2, <2>3, <2>6, NamedTables, OrderIs
  <2> QED  BY <2>4, <2>5, <2>6
<1>5. PICK j \in 1 .. i - 1 : Table(y) = MaterializeOrder[j] /\ ~IsUpdate(y)
  BY <1>4
<1>6. j = 1 => Rollout \in here
  <2>1. i = 15 => j # 1
    BY <1>3, <1>5, NamedTables, OrderIs
  <2> QED  BY <1>2, <1>3, <2>1
<1>7. y \in Found(j)
  BY <1>5, <1>6, FoundAt
<1> QED  BY <1>7

\* A pass or an export begun too early stays one.
LEMMA EarlyGrows ==
  ASSUME StoreNext
  PROVE  early \subseteq early'
BY DEF StoreNext, RecorderSteps, WorkerSteps, PassSteps, BundleSteps, Record, Launch, NextPart, Return,
       Interrupted, ProcessEvidence, InsertWorkerEdge, UpdateStatus, Materialize, NextTable, PutBlob,
       PutRow, PassFails, Export, Dump, Embed, Import, RestoreObject, Imported

\* After the recording only rows are added that change nothing a pass finds.
LEMMA Frozen ==
  ASSUME Types, ObjectsWhole, StoreNext, ~Recording
  PROVE  /\ UNCHANGED run /\ Recording' = FALSE
         /\ \A i \in 1 .. 16 : Found(i)' = Found(i)
         /\ Available' = Available
         /\ RecordManifest(here)' = RecordManifest(here)
         /\ \A r : Recorded(r) => (r \in here' <=> r \in here)
<1>1. UNCHANGED run
  BY RunKept DEF Record, Launch, NextPart, Return, Interrupted, SameSubject, Onward, Finished, Recording
<1>2. UNCHANGED here \/ \E r : here' = here \cup {r} /\ ~Recorded(r)
  BY HereChanges, AddedRow DEF Stores
<1>3. \A i \in 1 .. 16 : Found(i)' = Found(i)
  BY <1>1, <1>2, SubjectsSame DEF Found
<1>4. Available' = Available
  BY <1>3, Orders DEF Available
<1>5. RecordManifest(here)' = RecordManifest(here)
  <2>1. RecordManifest(here') = RecordManifest(here)
    BY <1>2, ManifestRows
  <2> QED  BY <2>1 DEF RecordManifest
<1> QED  BY <1>1, <1>2, <1>3, <1>4, <1>5 DEF Recording

\* A row that is added names nothing, and is named by nothing, that a pass finds.
LEMMA NamedRecorded ==
  ASSUME NEW x, NEW y \in Named(x)
  PROVE  Recorded(y) \/ Table(y) \notin RecordedTables \cup ObjectTables
<1>1. \A t : t \in {"replay_manifest", "trajectory_manifest", "diff_manifest"} =>
               t \notin RecordedTables \cup ObjectTables
  BY DEF RecordedTables, SetupTables, ObjectTables
<1>2. Table(x) \in {"snapshots", "cost_samples", "artifact", "rollouts", "fork_attempts", "tool_calls",
                    "processes", "evidence_events", "events", "policy_decisions", "risk_signals",
                    "response_actions", "replay_manifest", "trajectory_manifest", "diff_manifest",
                    "blame_manifest", "audit_manifest", "record_manifest"} \/ Named(x) = {}
  BY DEF Named
<1>3. \/ y \in {Snapshot, Rollout, Attempt, ToolCall, RootProcess}
      \/ y = Event(Orphan(x[2])) \/ y = Decision(x[2]) \/ y = Risk(x[2])
      \/ Table(y) \in {"replay_manifest", "trajectory_manifest", "diff_manifest"}
  BY <1>2, NamedIs, NamedTables
<1> QED  BY <1>1, <1>3, RecordedRows

\* After the recording no step stores a row that another one names.
LEMMA NamedHere ==
  ASSUME Types, ObjectsWhole, StoreNext, ~Recording, NEW x
  PROVE  Named(x) \cap here' = Named(x) \cap here
<1>1. \A r \in here' : Table(r) \in RecordedTables \cup ObjectTables
  BY NextObjectsWhole DEF ObjectsWhole
<1>2. \A r : Recorded(r) => (r \in here' <=> r \in here)
  BY Frozen
<1>3. here \subseteq here'
  BY HereGrows
<1> QED  BY <1>1, <1>2, <1>3, NamedRecorded

\* The turn is one of what is left, and a blame's before any other.
LEMMA TurnIs ==
  ASSUME pass.left # {}
  PROVE  Turn \in pass.left /\ (Turn \in Blames \/ pass.left \cap Blames = {})
BY FirstOf DEF Turn

\* The recorder's own objects name nothing.
LEMMA ArtifactsName ==
  ASSUME NEW o, IsArtifact(o)
  PROVE  Named(o.of) = {} /\ o.of # Manifest("record_manifest") /\ Table(o.of) # "record_manifest"
BY NamedIs, NamedTables DEF IsArtifact

LEMMA InitPassOrder == StoreInit => PassOrder
BY Orders DEF StoreInit, PassOrder, PassWaits, PassFinds, PassBlames, PassTurn, Objects, Step

\* A pass that steps during the recording was begun too early.
LEMMA RecordingPass ==
  ASSUME Types, PassOrder, StoreNext, "pass" \notin early', Recording
  PROVE  ~PassSteps
<1>1. "pass" \notin early
  BY EarlyGrows
<1>2. Step = 0 /\ pass.left = {} /\ pass.put = {}
  BY <1>1 DEF PassOrder, PassWaits, PassFinds, PassTurn
<1> QED  BY <1>2 DEF PassSteps, Materialize, NextTable, PutBlob, PutRow, PassFails, Step

LEMMA NextPassOrder ==
  ASSUME Types, ObjectsWhole, SetupOrder, PassOrder, StoreNext
  PROVE  PassOrder'
<1> SUFFICES ASSUME "pass" \notin early'
             PROVE  /\ PassWaits' /\ PassFinds' /\ PassBlames' /\ PassTurn'
                    /\ \A o \in Objects(here') \cup pass'.put : PassNames(o)'
  BY DEF PassOrder, Objects
<1>0. "pass" \notin early
  BY EarlyGrows
<1>1. CASE Recording
  <2>1. pass' = pass /\ Step = 0 /\ pass.left = {} /\ pass.put = {}
    BY <1>0, <1>1, RecordingPass, PassKept DEF PassOrder, PassWaits, PassFinds, PassTurn
  <2>2. \A o \in Objects(here') : IsArtifact(o)
    <3>1. Objects(here') \subseteq Objects(here) \cup {Artifact(run.who)}
      BY <1>1, RecordingPass, OtherRows
    <3> QED  BY <1>0, <1>1, <3>1, ObjectRows DEF PassOrder, PassWaits
  <2>3. PassWaits'
    BY <2>1, <2>2 DEF PassWaits, Step, Objects
  <2>4. PassFinds' /\ PassBlames' /\ PassTurn'
    BY <2>1, Orders DEF PassFinds, PassBlames, PassTurn, Step
  <2>5. \A o \in Objects(here') : PassNames(o)'
    <3>1. \A o \in Objects(here') : /\ IsArtifact(o) /\ Named(o.of) = {}
                                    /\ o.of # Manifest("record_manifest")
      BY <2>2, ArtifactsName
    <3> QED  BY <3>1 DEF PassNames
  <2> QED  BY <2>1, <2>3, <2>4, <2>5
<1>2. CASE ~Recording
  <2>1. /\ ~Recording' /\ UNCHANGED run
        /\ \A i \in 1 .. 16 : Found(i)' = Found(i)
        /\ Available' = Available
        /\ RecordManifest(here)' = RecordManifest(here)
    BY <1>2, Frozen
  <2>2. PassWaits'
    BY <2>1 DEF PassWaits
  <2>3. ASSUME NEW o PROVE PassNames(o) <=> PassNames(o)'
    <3>1. Named(o.of) \cap here' = Named(o.of) \cap here
      BY <1>2, NamedHere
    <3>2. Named(o.of) \cap (here' \cup Available) = Named(o.of) \cap (here \cup Available)
      BY <3>1
    <3> QED  BY <2>1, <3>2 DEF PassNames
  <2>4. PassFinds /\ PassBlames /\ PassTurn /\ \A o \in Objects(here) \cup pass.put : PassNames(o)
    BY <1>0 DEF PassOrder
  <2>5. CASE ~PassSteps
    <3>1. pass' = pass
      BY <2>5, PassKept
    <3>2. Objects(here') \subseteq Objects(here) \cup {Artifact(run.who)}
      BY <2>5, OtherRows
    <3>3. PassNames(Artifact(run.who))
      BY ObjectRows, ArtifactsName DEF PassNames
    <3>4. PassFinds' /\ PassBlames' /\ PassTurn'
      BY <2>1, <2>4, <3>1, Orders DEF PassFinds, PassBlames, PassTurn, Step, Types, Turn
    <3> QED  BY <2>2, <2>3, <2>4, <3>1, <3>2, <3>3, <3>4
  <2>6. CASE Materialize
    <3>1. /\ here' = here /\ pass'.put = {} /\ pass'.known = {} /\ pass'.step = 1
          /\ pass'.left = Found(1)
      BY <2>6 DEF Materialize, Found
    <3>2. \A f : Blame(f) \notin Found(1)
      BY SubjectTable, TablesDiffer, NamedTables DEF Found
    <3>3. PassFinds' /\ PassBlames' /\ PassTurn'
      BY <2>1, <3>1, <3>2, Orders DEF PassFinds, PassBlames, PassTurn, Step
    <3> QED  BY <2>2, <2>3, <2>4, <3>1, <3>3
  <2>7. CASE NextTable
    <3>1. /\ here' = here /\ pass'.put = pass.put /\ pass'.known = pass.known
          /\ Step # 0 /\ pass.left = {} /\ Step \in 0 .. 16
          /\ \/ Step = 16 /\ pass'.step = 0 /\ pass'.left = {}
             \/ Step < 16 /\ pass'.step = Step + 1 /\ pass'.left = Found(Step + 1)
      BY <2>7, Orders DEF NextTable, Found, Types, Step
    <3>2. \A f, i : i \in 1 .. 16 => Blame(f) \notin Found(i)
      BY SubjectTable, TablesDiffer, NamedTables DEF Found
    <3>3. pass.put = {}
      BY <2>4, <3>1 DEF PassTurn
    <3>4. PassTurn' /\ PassBlames'
      BY <3>1, <3>2, <3>3 DEF PassTurn, PassBlames
    <3>5. PassFinds'
      BY <2>1, <2>4, <3>1, Orders DEF PassFinds, Step
    <3> QED  BY <2>2, <2>3, <2>4, <3>1, <3>4, <3>5
  <2>8. CASE PutBlob
    <3> DEFINE o == ObjectOf(Turn, Named(Turn) \cap pass.known, Body(Turn, here))
    <3>1. /\ here' = here \cup {Blob(o)} /\ pass'.put = {o} /\ pass'.known = pass.known
          /\ pass'.step = pass.step /\ pass'.left = pass.left /\ pass.left # {}
      BY <2>8 DEF PutBlob, Types
    <3>2. o.of = Turn /\ o.parents = Named(Turn) \cap pass.known /\ o.body = Body(Turn, here)
      BY DEF ObjectOf
    <3> HIDE DEF o
    <3>3. Objects(here') = Objects(here)
      <4>1. Table(Blob(o)) # "provenance_objects"
        BY ObjectRows
      <4> QED  BY <3>1, <4>1, ObjectsGain
    <3>4. Step \in 1 .. 16 /\ Turn \in Found(Step) \cup Blames
      BY <2>4, <3>1, TurnIs, Orders DEF PassFinds, Types, Step
    <3>5. Turn \in Available \cup Blames
      BY <3>4, Orders DEF Available
    <3>6. Named(Turn) \cap (here \cup Available) \subseteq pass.known
      <4>1. CASE Turn \in Found(Step)
        <5>1. \A y \in Named(Turn) \cap (here \cup Available) : \E j \in 1 .. Step - 1 : y \in Found(j)
          BY <3>4, <4>1, NamedEarlier
        <5>2. \A j \in 1 .. Step - 1 : Found(j) \subseteq pass.known
          BY <2>4, <3>4, Orders DEF PassFinds
        <5> QED  BY <5>1, <5>2
      <4>2. CASE Turn \in Blames
        <5>1. PICK f \in Files : Turn = Blame(f)
          BY <4>2 DEF Blames
        <5>2. Named(Turn) = {Diff(f)}
          BY <5>1, NamedIs, NamedTables DEF Blame
        <5> QED  BY <2>4, <3>1, <5>1, <5>2, TurnIs DEF PassBlames
      <4> QED  BY <3>4, <4>1, <4>2
    <3>7. Turn = Manifest("record_manifest") => o.body = RecordManifest(here)
      BY <3>2 DEF Body
    <3>8. PassNames(o)
      BY <3>2, <3>5, <3>6, <3>7 DEF PassNames
    <3>9. PassFinds' /\ PassBlames' /\ PassTurn'
      <4>1. PassFinds' /\ PassBlames'
        <5>1. pass'.step = pass.step /\ pass'.left = pass.left /\ pass'.known = pass.known
          BY <3>1
        <5>2. PassFinds'
          BY <2>1, <2>4, <5>1, Orders DEF PassFinds, Step, Types
        <5>3. PassBlames'
          BY <2>4, <5>1 DEF PassBlames
        <5> QED  BY <5>2, <5>3
      <4>2. Turn' = Turn
        BY <3>1 DEF Turn
      <4> QED  BY <3>1, <3>2, <4>1, <4>2 DEF PassTurn
    <3> QED  BY <2>2, <2>3, <2>4, <3>1, <3>3, <3>8, <3>9
  <2>9. CASE PutRow
    <3>1. PICK o \in pass.put : /\ here' = here \cup {Object(o)}
                                /\ pass'.put = {} /\ pass'.known = pass.known \cup {o.of}
                                /\ pass'.step = pass.step
                                /\ pass'.left = (pass.left \ {o.of}) \cup Blamed(o.of)
      BY <2>9 DEF PutRow, Types
    <3>2. Objects(here') = Objects(here) \cup {o}
      BY <3>1, ObjectsGain, ObjectRows
    <3>3. Step \in 1 .. 16 /\ o.of \in Found(Step) \cup Blames
      BY <2>4, <3>1, TurnIs, Orders DEF PassFinds, PassTurn, Types, Step
    <3>4. \A x \in Blamed(o.of) : \E f \in Files : x = Blame(f) /\ o.of = Diff(f)
      <4>1. SUFFICES ASSUME Table(o.of) = "diff_manifest"
                     PROVE  \E f \in Files : Blame(o.of[2]) = Blame(f) /\ o.of = Diff(f)
        BY DEF Blamed
      <4>2. o.of \in Found(Step) /\ Step = 14
        <5>1. o.of \notin Blames
          BY <4>1, NamedTables DEF Blames
        <5>2. Table(o.of) = MaterializeOrder[Step]
          BY <3>3, <5>1, SubjectTable DEF Found
        <5> QED  BY <3>3, <4>1, <5>1, <5>2, TablesDiffer, OrderIs
      <4>3. PICK f \in run.saw.files : o.of = Diff(f)
        BY <4>2, SubjectTable DEF Found
      <4>4. f \in Files
        BY DEF Types, Seeing
      <4> QED  BY <4>3, <4>4 DEF Diff, Blame
    <3>5. Blamed(o.of) \subseteq Blames
      BY <3>4 DEF Blames
    <3>6. PassBlames'
      <4>1. \A f, g : Blame(f) = Blame(g) => f = g
        BY DEF Blame
      <4> QED  BY <2>4, <3>1, <3>4, <4>1 DEF PassBlames
    <3>7. PassFinds'
      BY <2>1, <2>4, <3>1, <3>3, <3>5, Orders DEF PassFinds, Step
    <3>8. PassTurn'
      BY <3>1 DEF PassTurn
    <3> QED  BY <2>2, <2>3, <2>4, <3>1, <3>2, <3>6, <3>7, <3>8
  <2>10. CASE PassFails
    <3>1. /\ here' = here /\ pass'.put = {} /\ pass'.known = {} /\ pass'.step = 0 /\ pass'.left = {}
      BY <2>10 DEF PassFails, Types
    <3>2. PassFinds' /\ PassBlames' /\ PassTurn'
      BY <3>1, Orders DEF PassFinds, PassBlames, PassTurn, Step
    <3> QED  BY <2>2, <2>3, <2>4, <3>1, <3>2
  <2> QED  BY <2>5, <2>6, <2>7, <2>8, <2>9, <2>10 DEF PassSteps
<1> QED  BY <1>1, <1>2

-----------------------------------------------------------------------------
(* WorkerOrder.                                                            *)
LEMMA WorkerRowsDiffer ==
  /\ \A e : Table(Processed(e)) = "evidence_events" /\ WorkerRow(Processed(e)) /\ ~Recorded(Processed(e))
  /\ \A i, e : Table(WorkerEdge(i, e)) = "graph_edges"
  /\ \A i, e, x : WorkerEdge(i, e) # Processed(x)
  /\ \A e, x : Processed(e) = Processed(x) => e = x
  /\ \A t \in ObjectTables : t # "evidence_events"
BY DEF Processed, WorkerRow, Recorded, IsUpdate, Table, WorkerEdge, Edge, ObjectTables

\* Nothing but the worker's own steps marks a row as processed.
LEMMA OthersKeep ==
  ASSUME Types, StoreNext, ~WorkerSteps
  PROVE  worker' = worker /\ \A e : Processed(e) \in here' => Processed(e) \in here
<1>1. worker' = worker
  BY DEF StoreNext, RecorderSteps, PassSteps, BundleSteps, Record, Launch, NextPart, Return,
         Interrupted, Materialize, NextTable, PutBlob, PutRow, PassFails, Export, Dump, Embed, Import,
         RestoreObject, Imported
<1>2. CASE Stores
  <2>1. \A e : Upcoming.row # Processed(e)
    BY <1>2, NewRow DEF RowFacts
  <2> QED  BY <1>1, <1>2, <2>1 DEF Stores
<1>3. CASE PassSteps
  <2>1. UNCHANGED here \/ \E r : here' = here \cup {r} /\ Table(r) \in ObjectTables
    <3>1. CASE PutBlob
      BY <3>1, ObjectRows DEF PutBlob, ObjectTables
    <3>2. CASE PutRow
      BY <3>2, ObjectRows DEF PutRow, ObjectTables
    <3>3. CASE Materialize \/ NextTable \/ PassFails
      BY <3>3 DEF Materialize, NextTable, PassFails
    <3> QED  BY <1>3, <3>1, <3>2, <3>3 DEF PassSteps
  <2> QED  BY <1>1, <2>1, WorkerRowsDiffer
<1>4. CASE Record
  <2>1. Recording /\ run.next \in 1 .. Len(Part(run))
    BY <1>4, PartInTurn DEF Record, Types
  <2>2. UNCHANGED here \/ Stores
    BY <1>4, <2>1 DEF Record, Stores, Upcoming, NoRefusal
  <2> QED  BY <1>1, <1>2, <2>2
<1>5. CASE Launch \/ NextPart \/ Return \/ Interrupted \/ BundleSteps
  BY <1>1, <1>5 DEF Launch, NextPart, Return, Interrupted, BundleSteps, Export, Dump, Embed, Import,
     RestoreObject, Imported
<1> QED  BY <1>3, <1>4, <1>5 DEF StoreNext, RecorderSteps

LEMMA InitWorkerOrder == StoreInit => WorkerOrder
BY DEF StoreInit, WorkerOrder

LEMMA NextWorkerOrder ==
  ASSUME Types, WorkerOrder, StoreNext
  PROVE  WorkerOrder'
<1>1. here \subseteq here' /\ (refused' = 0 => refused = 0)
  BY HereGrows, RefusedBefore
<1>2. \A e : Linked(e, here) => Linked(e, here')
  BY <1>1 DEF Linked
<1>3. CASE ~WorkerSteps
  <2>1. worker' = worker /\ \A e : Processed(e) \in here' => Processed(e) \in here
    BY <1>3, OthersKeep
  <2> QED  BY <1>1, <1>2, <2>1 DEF WorkerOrder
<1>4. CASE ProcessEvidence
  <2>1. here' = here /\ worker'.batch = Unprocessed /\ worker'.step = 1 /\ refused' = refused
    BY <1>4 DEF ProcessEvidence
  <2> QED  BY <2>1, Orders DEF WorkerOrder, Unprocessed
<1>5. CASE InsertWorkerEdge
  <2> DEFINE e == First(worker.batch)
             n == worker.step
  <2>1. /\ worker'.batch = worker.batch /\ worker'.step = n + 1 /\ n \in 1 .. 5
        /\ worker.batch # {}
    BY <1>5, Orders DEF InsertWorkerEdge, Types
  <2>2. \/ here' = here \cup {WorkerEdge(n, e)}
        \/ here' = here /\ refused' # 0
    BY <1>5 DEF InsertWorkerEdge, Refusal, Types
  <2>3. \A x \in Telemetry : Processed(x) \in here' => Processed(x) \in here
    BY <2>2, WorkerRowsDiffer
  <2>4. refused' = 0 =>
          \A i \in 1 .. WorkerEdges : i < worker'.step => WorkerEdge(i, First(worker'.batch)) \in here'
    BY <1>1, <2>1, <2>2, Orders DEF WorkerOrder
  <2> QED  BY <1>1, <1>2, <2>1, <2>3, <2>4 DEF WorkerOrder
<1>6. CASE UpdateStatus
  <2> DEFINE e == First(worker.batch)
  <2>1. /\ worker'.batch \subseteq worker.batch /\ worker'.step = 1 /\ worker.batch # {}
        /\ worker.step = 6
    BY <1>6, Orders DEF UpdateStatus, Types
  <2>2. here' = here \cup {Processed(e)} \/ (here' = here /\ refused' # 0)
    BY <1>6 DEF UpdateStatus, Refusal, Types
  <2>3. refused = 0 => Linked(e, here)
    BY <2>1, Orders DEF WorkerOrder, Linked
  <2>4. refused' = 0 => \A x \in Telemetry : Processed(x) \in here' => Linked(x, here')
    BY <1>1, <1>2, <2>2, <2>3, WorkerRowsDiffer DEF WorkerOrder
  <2> QED  BY <1>1, <2>1, <2>4, Orders DEF WorkerOrder
<1> QED  BY <1>3, <1>4, <1>5, <1>6 DEF WorkerSteps

-----------------------------------------------------------------------------
(* BundleOrder and BundleWhole.                                            *)
LEMMA DumpIs ==
  /\ DumpOrder[15] = "graph_edges" /\ DumpOrder[17] = "provenance_objects"
  /\ \A i \in 1 .. 17 : /\ DumpOrder[i] = "graph_edges" => i = 15
                        /\ DumpOrder[i] = "provenance_objects" => i = 17
                        /\ DumpOrder[i] = "evidence_events" => i = 14
                        /\ DumpOrder[i] # "blob"
  /\ \A t \in RecordedTables : \E i \in 1 .. 17 : t = DumpOrder[i]
<1>1. /\ DumpOrder[1] = "leases" /\ DumpOrder[2] = "sessions"
      /\ DumpOrder[3] = "execution_context_bindings" /\ DumpOrder[4] = "rollouts"
      /\ DumpOrder[5] = "tool_calls" /\ DumpOrder[6] = "processes" /\ DumpOrder[7] = "fork_attempts"
      /\ DumpOrder[8] = "snapshots" /\ DumpOrder[9] = "events" /\ DumpOrder[10] = "policy_decisions"
      /\ DumpOrder[11] = "risk_signals" /\ DumpOrder[12] = "signals"
      /\ DumpOrder[13] = "response_actions" /\ DumpOrder[14] = "evidence_events"
      /\ DumpOrder[15] = "graph_edges" /\ DumpOrder[16] = "cost_samples"
      /\ DumpOrder[17] = "provenance_objects"
  BY DEF DumpOrder
<1>2. \A i \in 1 .. 17 : /\ DumpOrder[i] = "graph_edges" => i = 15
                         /\ DumpOrder[i] = "provenance_objects" => i = 17
                         /\ DumpOrder[i] = "evidence_events" => i = 14
                         /\ DumpOrder[i] # "blob"
  BY <1>1
<1>3. \A t \in RecordedTables : \E i \in 1 .. 17 : t = DumpOrder[i]
  BY <1>1 DEF RecordedTables, SetupTables
<1> QED  BY <1>1, <1>2, <1>3

\* Only exports and imports move the bundle and the replaying host.
LEMMA BundleKept ==
  ASSUME StoreNext, ~BundleSteps
  PROVE  UNCHANGED <<there, bundle, load>>
BY DEF StoreNext, RecorderSteps, WorkerSteps, PassSteps, Record, Launch, NextPart, Return,
       Interrupted, ProcessEvidence, InsertWorkerEdge, UpdateStatus, Materialize, NextTable, PutBlob,
       PutRow, PassFails

\* The objects among two sets of rows.
LEMMA ObjectsUnion ==
  ASSUME NEW A, NEW B
  PROVE  /\ Objects(A \cup B) = Objects(A) \cup Objects(B)
         /\ A \subseteq B => Objects(A) \subseteq Objects(B)
         /\ (\A r \in A : Table(r) # "provenance_objects") => Objects(A) = {}
BY DEF Objects

\* What an export takes of a table is here, and of most tables all that is.
LEMMA ReachedRows ==
  ASSUME NEW t
  PROVE  /\ Reached(t) \subseteq here /\ \A r \in Reached(t) : Table(r) = t
         /\ t \notin {"processes", "fork_attempts", "snapshots"} =>
              \A r \in here : Table(r) = t => r \in Reached(t)
BY DEF Reached

\* Rows of the replaying host that are none of the run's.
LEMMA ForeignRows ==
  /\ \A o : Table(Foreign(o)) = "foreign" /\ ~Recorded(Foreign(o))
  /\ \A o, p : Blob(o) # Foreign(p) /\ (Foreign(o) = Foreign(p) => o = p)
  /\ \A o : ~Recorded(Blob(o))
  /\ \A e, o : Processed(e) # Foreign(o) /\ Processed(e) # Blob(o)
  /\ \A i, e, o : WorkerEdge(i, e) # Foreign(o)
BY DEF Foreign, Blob, Table, Recorded, RecordedTables, SetupTables, Processed, WorkerEdge, Edge

LEMMA InitBundleOrder == StoreInit => BundleOrder
BY Orders DEF StoreInit, BundleOrder, Objects, Dumped

\* A step that leaves the bundle alone and imports no object disturbs nothing.
LEMMA BundleIsKept ==
  ASSUME Types, BundleOrder, StoreNext, UNCHANGED bundle, Objects(there') \subseteq Objects(there)
  PROVE  BundleOrder'
<1>1. here \subseteq here' /\ (refused' = 0 => refused = 0)
  BY HereGrows, RefusedBefore
<1>2. /\ Objects(bundle.rows)' = Objects(bundle.rows) /\ large' = large
      /\ Objects(there)' = Objects(there')
  BY DEF Objects, StoreNext, RecorderSteps, WorkerSteps, PassSteps, BundleSteps, Record, Launch, NextPart,
         Return, Interrupted, ProcessEvidence, InsertWorkerEdge, UpdateStatus, Materialize, NextTable,
         PutBlob, PutRow, PassFails, Export, Dump, Embed, Import, RestoreObject, Imported
<1> QED  BY <1>1, <1>2 DEF BundleOrder, Dumped, Linked

LEMMA NextBundleOrder ==
  ASSUME Types, ObjectsWhole, WorkerOrder, BundleOrder, LoadOrder, StoreNext
  PROVE  BundleOrder'
<1>0. refused' = 0 => refused = 0
  BY RefusedBefore
<1>1. CASE ~BundleSteps
  <2>1. UNCHANGED <<there, bundle>>
    BY <1>1, BundleKept
  <2> QED  BY <2>1, BundleIsKept
<1>2. CASE Export
  <2>1. bundle'.rows = {} /\ bundle'.next = 1 /\ bundle'.at = "dumping"
    BY <1>2 DEF Export
  <2> QED  BY <2>1, Orders DEF BundleOrder, Dumped, Objects
<1>3. CASE Dump
  <2> DEFINE n == bundle.next
             new == Reached(DumpOrder[n])
             rows == bundle.rows \cup new
  <2>1. /\ bundle.at = "dumping" /\ bundle'.at = "dumping" /\ n \in 1 .. 17
        /\ bundle'.next = n + 1 /\ bundle'.rows = rows
        /\ UNCHANGED <<here, there, refused>>
    BY <1>3, Orders DEF Dump, Types
  <2>2. \A r \in new : r \in here /\ Table(r) = DumpOrder[n]
    BY ReachedRows
  <2>3. n \in {15, 17} => \A r \in here : Table(r) = DumpOrder[n] => r \in new
    BY DumpIs, ReachedRows
  <2>4. ~Dumped /\ (Dumped' <=> n = 17)
    BY <2>1, Orders DEF Dumped
  <2>5. Objects(bundle.rows) = {} /\ Objects(rows) = Objects(new)
    BY <2>4, ObjectsUnion DEF BundleOrder
  <2>6. n # 17 => Objects(rows) = {}
    BY <2>1, <2>2, <2>5, DumpIs, ObjectsUnion
  <2>7. n = 17 => Objects(rows) = Objects(here)
    BY <2>2, <2>3, <2>5, DumpIs DEF Objects
  <2>8. Objects(there) \subseteq Objects(here)
    BY DEF LoadOrder, Objects
  <2> HIDE DEF new
  <2>9. /\ rows \subseteq here /\ \A r \in rows : Table(r) # "blob"
    BY <2>1, <2>2, DumpIs DEF BundleOrder
  <2>10. \A o \in Objects(rows) : o.parents \subseteq {p.of : p \in Objects(rows)}
    BY <2>1, <2>6, <2>7 DEF ObjectsWhole
  <2>11. refused = 0 /\ n + 1 <= 15 => \A r \in rows : Table(r) # "graph_edges"
    BY <2>1, <2>2, DumpIs DEF BundleOrder
  <2>12. refused = 0 /\ n + 1 > 15 =>
           \A e \in Telemetry : Processed(e) \in rows => Linked(e, rows)
    <3> SUFFICES ASSUME refused = 0, n + 1 > 15, NEW e \in Telemetry, Processed(e) \in rows
                 PROVE  Linked(e, rows)
      OBVIOUS
    <3>1. Processed(e) \in bundle.rows
      BY <2>1, <2>2, DumpIs, WorkerRowsDiffer
    <3>2. CASE n = 15
      <4>1. Linked(e, here)
        BY <3>1 DEF BundleOrder, WorkerOrder
      <4>2. \A i \in 1 .. WorkerEdges : WorkerEdge(i, e) \in new
        BY <2>3, <3>2, <4>1, DumpIs, WorkerRowsDiffer DEF Linked
      <4> QED  BY <4>2 DEF Linked
    <3>3. CASE n > 15
      BY <3>1, <3>3 DEF BundleOrder, Linked
    <3> QED  BY <2>1, <3>2, <3>3
  <2> HIDE DEF rows
  <2>13. /\ Objects(bundle.rows)' = Objects(rows) /\ Objects(there)' = Objects(there)
    BY <2>1 DEF Objects
  <2> QED
    BY <2>1, <2>4, <2>6, <2>7, <2>8, <2>9, <2>10, <2>11, <2>12, <2>13 DEF BundleOrder, Linked
<1>4. CASE Embed
  <2>1. /\ UNCHANGED <<here, there, large, refused>> /\ Dumped /\ bundle.at = "dumping"
        /\ UNCHANGED <<bundle.rows, bundle.next>>
        /\ bundle'.at = "ready" => bundle'.blobs = {o \in Objects(bundle.rows) : o.of \notin large}
        /\ bundle'.at \in {"ready", "failed"}
    BY <1>4, Orders DEF Embed, Dumped, Types
  <2>2. Objects(bundle.rows)' = Objects(bundle.rows) /\ Objects(there)' = Objects(there)
    BY <2>1 DEF Objects
  <2> QED  BY <2>1, <2>2 DEF BundleOrder, Dumped, Linked
<1>5. CASE Import
  <2>1. /\ bundle.at = "ready" /\ UNCHANGED bundle
        /\ there' = there \cup bundle.rows \cup {Foreign(o) : o \in Objects(bundle.rows)}
    BY <1>5 DEF Import
  <2>2. Objects({Foreign(o) : o \in Objects(bundle.rows)}) = {}
    BY ForeignRows, ObjectsUnion
  <2>3. Objects(there') = Objects(there) \cup Objects(bundle.rows)
    <3> DEFINE F == {Foreign(o) : o \in Objects(bundle.rows)}
    <3>1. there' = (there \cup bundle.rows) \cup F /\ Objects(F) = {}
      BY <2>1, <2>2
    <3> HIDE DEF F
    <3>2. Objects((there \cup bundle.rows) \cup F) = Objects(there \cup bundle.rows) \cup Objects(F)
      BY ObjectsUnion
    <3>3. Objects(there \cup bundle.rows) = Objects(there) \cup Objects(bundle.rows)
      BY ObjectsUnion
    <3> QED  BY <3>1, <3>2, <3>3
  <2>4. UNCHANGED <<here, large, refused>>
    BY <1>5 DEF Import
  <2>5. Objects(bundle.rows)' = Objects(bundle.rows) /\ Objects(there)' = Objects(there')
    BY <2>1 DEF Objects
  <2> QED  BY <2>1, <2>3, <2>4, <2>5 DEF BundleOrder, Dumped, Linked
<1>6. CASE RestoreObject
  <2>1. UNCHANGED bundle /\ there' \subseteq there \cup {Blob(First(load.left))}
    BY <1>6 DEF RestoreObject
  <2>2. Objects(there') \subseteq Objects(there)
    <3> DEFINE b == Blob(First(load.left))
    <3>1. there' \subseteq there \cup {b} /\ Table(b) # "provenance_objects"
      BY <2>1, ObjectRows
    <3> HIDE DEF b
    <3>2. Objects(there \cup {b}) = Objects(there)
      BY <3>1, ObjectsGain
    <3>3. Objects(there') \subseteq Objects(there \cup {b})
      BY <3>1, ObjectsUnion
    <3> QED  BY <3>2, <3>3
  <2> QED  BY <2>1, <2>2, BundleIsKept
<1>7. CASE Imported
  <2>1. UNCHANGED <<bundle, there>>
    BY <1>7 DEF Imported
  <2> QED  BY <2>1, BundleIsKept
<1> QED  BY <1>1, <1>2, <1>3, <1>4, <1>5, <1>6, <1>7 DEF BundleSteps

LEMMA InitBundleWhole == StoreInit => BundleWhole
BY DEF StoreInit, BundleWhole

\* The rows of the recorder stay what they are.
LEMMA SettledStays ==
  ASSUME Types, ObjectsWhole, StoreNext, ~Recording
  PROVE  \A r : /\ Settled(r)' <=> Settled(r)
                /\ r \in here' /\ Settled(r) => r \in here
<1>1. \A r : Recorded(r) => (r \in here' <=> r \in here)
  BY Frozen
<1>2. Rollout \in here' <=> Rollout \in here
  BY <1>1, RecordedRows
<1>3. \A r : Recorded(r)' <=> Recorded(r)
  BY DEF Recorded
<1> QED  BY <1>1, <1>2, <1>3 DEF Settled

LEMMA NextBundleWhole ==
  ASSUME Types, SetupOrder, ObjectsWhole, BundleWhole, StoreNext
  PROVE  BundleWhole'
<1> SUFFICES ASSUME "export" \notin early', bundle'.at # "none"
             PROVE  /\ ~Recording'
                    /\ \A i \in 1 .. Len(DumpOrder) : i < bundle'.next =>
                         \A r \in here' : Table(r) = DumpOrder[i] /\ Settled(r)' => r \in bundle'.rows
  BY DEF BundleWhole
<1>0. "export" \notin early
  BY EarlyGrows
<1>1. CASE Export
  <2>1. bundle'.next = 1 /\ ~Recording
    BY <1>1 DEF Export
  <2> QED  BY <2>1, Frozen, Orders
<1>2. CASE bundle.at # "none"
  <2>1. ~Recording
    BY <1>0, <1>2 DEF BundleWhole
  <2>2. /\ ~Recording'
        /\ \A r : /\ Settled(r)' <=> Settled(r)
                  /\ r \in here' /\ Settled(r) => r \in here
    BY <2>1, SettledStays, Frozen
  <2>3. \A i \in 1 .. 17 : i < bundle.next =>
          \A r \in here : Table(r) = DumpOrder[i] /\ Settled(r) => r \in bundle.rows
    BY <1>0, <1>2, Orders DEF BundleWhole
  <2>4. CASE Dump
    <3> DEFINE n == bundle.next
    <3>1. n \in 1 .. 17 /\ bundle'.next = n + 1 /\ bundle'.rows = bundle.rows \cup Reached(DumpOrder[n])
      BY <2>4, Orders DEF Dump, Types
    <3>2. \A r \in here : Table(r) = DumpOrder[n] /\ Settled(r) => r \in Reached(DumpOrder[n])
      <4> SUFFICES ASSUME NEW r \in here, Table(r) = DumpOrder[n], Settled(r)
                   PROVE  /\ Table(r) = "processes" => Session \in here
                          /\ Table(r) \in {"fork_attempts", "snapshots"} => Rollout \in here
        BY DEF Reached
      <4>1. Table(r) \in {"fork_attempts", "snapshots"} => r # Session
        BY SetupRowsEarly
      <4>2. Table(r) \in {"processes", "fork_attempts"} => Rollout \in here
        BY DEF SetupOrder
      <4> QED  BY <4>1, <4>2 DEF Settled, SetupOrder
    <3> QED  BY <2>2, <2>3, <3>1, <3>2, Orders
  <2>5. CASE ~Dump /\ ~Export
    <3>1. bundle'.rows = bundle.rows /\ bundle'.next = bundle.next
      <4>1. CASE Embed
        BY <4>1 DEF Embed, Types
      <4>2. CASE Import \/ RestoreObject \/ Imported
        BY <4>2 DEF Import, RestoreObject, Imported
      <4> QED  BY <2>5, <4>1, <4>2, BundleKept DEF BundleSteps
    <3> QED  BY <2>2, <2>3, <3>1, Orders
  <2> QED  BY <1>1, <2>4, <2>5
<1>3. CASE bundle.at = "none" /\ ~Export
  <2>1. bundle' = bundle
    BY <1>3, BundleKept DEF BundleSteps, Dump, Embed, Import, RestoreObject, Imported
  <2> QED  BY <1>3, <2>1
<1> QED  BY <1>1, <1>2, <1>3

-----------------------------------------------------------------------------
(* LoadOrder and LoadWhole.                                                *)
LEMMA InitLoadOrder == StoreInit => LoadOrder /\ LoadWhole
BY DEF StoreInit, LoadOrder, LoadWhole, Objects

\* How large an object is does not change.
LEMMA LargeKept ==
  ASSUME StoreNext
  PROVE  large' = large
BY DEF StoreNext, RecorderSteps, WorkerSteps, PassSteps, BundleSteps, Record, Launch, NextPart,
       Return, Interrupted, ProcessEvidence, InsertWorkerEdge, UpdateStatus, Materialize, NextTable,
       PutBlob, PutRow, PassFails, Export, Dump, Embed, Import, RestoreObject, Imported

LEMMA NextLoadOrder ==
  ASSUME Types, ObjectsWhole, BundleOrder, LoadOrder, StoreNext
  PROVE  LoadOrder'
<1>0. here \subseteq here' /\ (refused' = 0 => refused = 0) /\ large' = large
  BY HereGrows, RefusedBefore, LargeKept
<1>1. Objects(here) \subseteq Objects(here')
  BY <1>0, ObjectsUnion
<1>2. CASE UNCHANGED <<there, load>>
  <2>1. Objects(there)' = Objects(there) /\ Objects(here)' = Objects(here')
    BY <1>2 DEF Objects
  <2>2. \A o : Readable(o, there)' <=> Readable(o, there)
    BY <1>2 DEF Readable
  <2> QED  BY <1>0, <1>1, <1>2, <2>1, <2>2 DEF LoadOrder, Linked
<1>3. CASE Import
  <2> DEFINE F == {Foreign(o) : o \in Objects(bundle.rows)}
  <2>1. /\ bundle.at = "ready" /\ there' = (there \cup bundle.rows) \cup F
        /\ load'.at = "restoring" /\ load'.left = bundle.blobs /\ here' = here /\ refused' = refused
    BY <1>3 DEF Import
  <2>2. /\ \A r \in F : Table(r) = "foreign" /\ Table(r) # "provenance_objects"
        /\ \A e : Processed(e) \notin F
    BY ForeignRows
  <2> HIDE DEF F
  <2>3. Objects(there') = Objects(there) \cup Objects(bundle.rows)
    <3>1. Objects(F) = {}
      BY <2>2, ObjectsUnion
    <3>2. Objects((there \cup bundle.rows) \cup F) = Objects(there \cup bundle.rows) \cup Objects(F)
      BY ObjectsUnion
    <3>3. Objects(there \cup bundle.rows) = Objects(there) \cup Objects(bundle.rows)
      BY ObjectsUnion
    <3> QED  BY <2>1, <3>1, <3>2, <3>3
  <2>4. /\ bundle.rows \subseteq here /\ Dumped
        /\ bundle.blobs = {o \in Objects(bundle.rows) : o.of \notin large}
        /\ Objects(there) \subseteq Objects(bundle.rows)
        /\ Objects(bundle.rows) \subseteq Objects(here)
    BY <2>1, ObjectsUnion DEF BundleOrder
  <2>5. Objects(there)' = Objects(bundle.rows) /\ Objects(here)' = Objects(here)
    <3>1. Objects(there') = Objects(bundle.rows)
      BY <2>3, <2>4
    <3> QED  BY <2>1, <3>1 DEF Objects
  <2>6. \A r \in there' : r \in here \/ Table(r) = "foreign"
    BY <2>1, <2>2, <2>4 DEF LoadOrder
  <2>7. refused = 0 => \A e \in Telemetry : Processed(e) \in there' => Linked(e, there')
    <3> SUFFICES ASSUME refused = 0, NEW e \in Telemetry, Processed(e) \in there'
                 PROVE  Linked(e, there')
      OBVIOUS
    <3>1. Processed(e) \in there \/ Processed(e) \in bundle.rows
      BY <2>1, <2>2
    <3>2. Processed(e) \in there => Linked(e, there)
      BY DEF LoadOrder
    <3>3. bundle.next > 15
      BY <2>4, Orders DEF Dumped
    <3>4. Processed(e) \in bundle.rows => Linked(e, bundle.rows)
      BY <3>3 DEF BundleOrder
    <3> QED  BY <2>1, <3>1, <3>2, <3>4 DEF Linked
  <2>8. \A o \in Objects(bundle.rows) : o.parents \subseteq {p.of : p \in Objects(bundle.rows)}
    BY DEF BundleOrder
  <2> QED  BY <1>0, <2>1, <2>4, <2>5, <2>6, <2>7, <2>8 DEF LoadOrder, Linked
<1>4. CASE RestoreObject
  <2> DEFINE o == First(load.left)
             b == Blob(o)
             f == Foreign(o)
  <2>1. /\ load.at = "restoring" /\ o \in load.left
        /\ \/ there' = (there \cup {b}) \ {f} /\ load'.at = "restoring" /\ load'.left = load.left \ {o}
           \/ there' = there \cup {b} /\ load'.at = "failed"
        /\ here' = here
    BY <1>4, FirstOf DEF RestoreObject, Types
  <2>2. /\ Table(b) = "blob" /\ Table(f) = "foreign" /\ b \in here /\ b # f
        /\ \A e : Processed(e) # b /\ Processed(e) # f
        /\ \A i, e : WorkerEdge(i, e) # f
    BY <2>1, ObjectRows, ForeignRows DEF LoadOrder, ObjectsWhole
  <2>3. \A p : Readable(p, there) => Readable(p, there')
    BY <2>1, ForeignRows DEF Readable
  <2>4. load'.at = "restoring" => Readable(o, there')
    BY <2>1, <2>2 DEF Readable
  <2> HIDE DEF b, f, o
  <2>5. Objects(there)' = Objects(there)
    BY <2>1, <2>2 DEF Objects
  <2>6. Objects(here)' = Objects(here)
    BY <2>1 DEF Objects
  <2>7. \A r \in there' : r \in here' \/ Table(r) = "foreign"
    BY <2>1, <2>2 DEF LoadOrder
  <2>8. refused' = 0 => \A e \in Telemetry : Processed(e) \in there' => Linked(e, there')
    BY <1>0, <2>1, <2>2 DEF LoadOrder, Linked
  <2>9. load'.at = "restoring" =>
          \A p \in Objects(there) : p \in load'.left \/ p.of \in large \/ Readable(p, there')
    BY <2>1, <2>3, <2>4 DEF LoadOrder
  <2>10. load'.at # "done"
    BY <2>1
  <2>11. \A p : Readable(p, there)' <=> Readable(p, there')
    BY DEF Readable
  <2> QED  BY <1>0, <2>1, <2>5, <2>6, <2>7, <2>8, <2>9, <2>10, <2>11 DEF LoadOrder, Linked
<1>5. CASE Imported
  <2>1. /\ load.at = "restoring" /\ load.left = {} /\ load'.at = "done"
        /\ UNCHANGED <<here, there, refused>>
    BY <1>5 DEF Imported, Types
  <2>2. Objects(there)' = Objects(there) /\ Objects(here)' = Objects(here)
    BY <2>1 DEF Objects
  <2>3. \A o : Readable(o, there)' <=> Readable(o, there)
    BY <2>1 DEF Readable
  <2> QED  BY <1>0, <2>1, <2>2, <2>3 DEF LoadOrder, Linked
<1> QED
  BY <1>2, <1>3, <1>4, <1>5, BundleKept DEF BundleSteps, Export, Dump, Embed

LEMMA NextLoadWhole ==
  ASSUME Types, SetupOrder, ObjectsWhole, BundleOrder, BundleWhole, LoadWhole, StoreNext
  PROVE  LoadWhole'
<1>1. CASE Import
  <2>1. bundle.at = "ready" /\ bundle'.at = "ready" /\ here' = here /\ early' = early
        /\ bundle.rows \subseteq there'
    BY <1>1 DEF Import
  <2>2. "export" \notin early => \A r \in here : Settled(r) => r \in bundle.rows
    <3> SUFFICES ASSUME "export" \notin early, NEW r \in here, Settled(r)
                 PROVE  r \in bundle.rows
      OBVIOUS
    <3>1. PICK i \in 1 .. 17 : Table(r) = DumpOrder[i]
      BY DumpIs DEF Settled, Recorded
    <3>2. bundle.next = 18
      BY <2>1, Orders DEF BundleOrder, Dumped
    <3> QED  BY <2>1, <3>1, <3>2, Orders DEF BundleWhole
  <2>3. \A r : Settled(r)' <=> Settled(r)
    BY <2>1 DEF Settled, Recorded
  <2> QED  BY <2>1, <2>2, <2>3 DEF LoadWhole
<1>2. CASE ~Import
  <2>1. load'.at # "none" => load.at # "none"
    BY <1>2, BundleKept DEF BundleSteps, Export, Dump, Embed, RestoreObject, Imported
  <2>2. bundle.at # "none" => bundle'.at # "none"
    <3>1. CASE Embed
      BY <3>1 DEF Embed, Types
    <3>2. CASE Dump
      BY <3>2 DEF Dump, Types
    <3> QED  BY <3>1, <3>2, BundleKept DEF BundleSteps, Export, Import, RestoreObject, Imported
  <2>3. \A r \in there : r \in there' \/ Table(r) = "foreign"
    <3>1. CASE RestoreObject
      BY <3>1, ForeignRows DEF RestoreObject
    <3> QED  BY <1>2, <3>1, BundleKept DEF BundleSteps, Export, Dump, Embed, Imported
  <2>4. "export" \notin early' /\ load'.at # "none" => \A r \in here' : Settled(r)' => r \in there'
    <3> SUFFICES ASSUME "export" \notin early', load'.at # "none", NEW r \in here', Settled(r)'
                 PROVE  r \in there'
      OBVIOUS
    <3>1. "export" \notin early /\ load.at # "none" /\ bundle.at # "none"
      BY <2>1, EarlyGrows DEF LoadWhole
    <3>2. ~Recording
      BY <3>1 DEF BundleWhole
    <3>3. Settled(r) /\ r \in here
      BY <3>2, SettledStays
    <3>4. r \in there /\ Table(r) # "foreign"
      BY <3>1, <3>3 DEF LoadWhole, Settled, Recorded, RecordedTables, SetupTables
    <3> QED  BY <2>3, <3>4
  <2> QED  BY <2>1, <2>2, <2>4 DEF LoadWhole
<1> QED  BY <1>1, <1>2

-----------------------------------------------------------------------------
(* The invariant, and that every step keeps it.                            *)
IInv ==
  /\ Types /\ Subject /\ SetupOrder /\ AfterOrder /\ Made /\ EndOrder /\ OnlySeen /\ AllSeen
  /\ ObjectsWhole /\ PassOrder /\ WorkerOrder /\ BundleOrder /\ BundleWhole /\ LoadOrder /\ LoadWhole

LEMMA Stutters ==
  ASSUME IInv, UNCHANGED storeVars
  PROVE  IInv'
<1>1. Types' /\ Subject' /\ SetupOrder' /\ AfterOrder' /\ EndOrder' /\ OnlySeen'
  BY DEF IInv, storeVars, Types, Subject, SetupOrder, AfterOrder, EndOrder, OnlySeen
<1>2. Made' /\ AllSeen'
  BY DEF IInv, storeVars, Made, AllSeen, Recording, Launched, Part, About
<1>3. ObjectsWhole' /\ WorkerOrder'
  BY DEF IInv, storeVars, ObjectsWhole, WorkerOrder, Objects, Linked
<1>4. PassOrder'
  <2>1. \A o : PassNames(o)' <=> PassNames(o)
    BY DEF storeVars, PassNames, Available, Found
  <2> QED
    BY <2>1 DEF IInv, storeVars, PassOrder, PassWaits, PassFinds, PassBlames, PassTurn, Step, Found,
       Recording, Turn, Objects
<1>5. BundleOrder' /\ LoadOrder'
  BY DEF IInv, storeVars, BundleOrder, LoadOrder, Objects, Linked, Readable, Dumped
<1>6. BundleWhole' /\ LoadWhole'
  BY DEF IInv, storeVars, BundleWhole, LoadWhole, Settled, Recording, Recorded
<1> QED  BY <1>1, <1>2, <1>3, <1>4, <1>5, <1>6 DEF IInv

(* The inductive invariant holds in every state of every run: in whatever  *)
(* order the recorder, the evidence worker, the passes and the exports     *)
(* take their statements, whatever is refused and wherever each is cut off.*)
THEOREM Invariance == StoreSpec => []IInv
<1>1. StoreInit => IInv
  BY InitTypes, InitSubject, InitSetupOrder, InitAfterOrder, InitMade, InitEndOrder, InitOnlySeen,
     InitAllSeen, InitObjectsWhole, InitPassOrder, InitWorkerOrder, InitBundleOrder, InitBundleWhole,
     InitLoadOrder DEF IInv
<1>2. IInv /\ [StoreNext]_storeVars => IInv'
  <2> SUFFICES ASSUME IInv, StoreNext
               PROVE  IInv'
    BY Stutters
  <2>1. /\ Types /\ Subject /\ SetupOrder /\ AfterOrder /\ Made /\ EndOrder /\ OnlySeen /\ AllSeen
        /\ ObjectsWhole /\ PassOrder /\ WorkerOrder /\ BundleOrder /\ BundleWhole /\ LoadOrder /\ LoadWhole
    BY DEF IInv
  <2>2. Types' /\ Subject' /\ SetupOrder' /\ AfterOrder' /\ Made' /\ EndOrder'
    BY <2>1, NextTypes, NextSubject, NextSetupOrder, NextAfterOrder, NextMade, NextEndOrder
  <2>3. OnlySeen' /\ AllSeen' /\ ObjectsWhole' /\ PassOrder' /\ WorkerOrder'
    BY <2>1, NextOnlySeen, NextAllSeen, NextObjectsWhole, NextPassOrder, NextWorkerOrder
  <2>4. BundleOrder' /\ BundleWhole' /\ LoadOrder' /\ LoadWhole'
    BY <2>1, NextBundleOrder, NextBundleWhole, NextLoadOrder, NextLoadWhole
  <2> QED  BY <2>2, <2>3, <2>4 DEF IInv
<1> QED  BY <1>1, <1>2, PTL DEF StoreSpec

-----------------------------------------------------------------------------
(* The checks of Verify.                                                   *)
LEMMA LacksIs ==
  ASSUME NEW rows, NEW issue, NEW S
  PROVE  /\ Lacks(rows, issue, S) \subseteq {issue}
         /\ S \subseteq rows => Lacks(rows, issue, S) = {}
BY DEF Lacks, Report

LEMMA ReportIs ==
  ASSUME NEW issue, NEW c
  PROVE  Report(issue, c) \subseteq {issue} /\ (~c => Report(issue, c) = {})
BY DEF Report

\* A row that comes late finds all the first rows.
LEMMA FirstRows ==
  ASSUME SetupOrder
  PROVE  /\ Rollout \in here => {Session, Lease, Snapshot} \subseteq here
         /\ Attempt \in here => {Rollout, Session, Snapshot} \subseteq here
         /\ ToolCall \in here => {Attempt, Rollout, Session, Snapshot} \subseteq here
         /\ RootProcess \in here => {ToolCall, Attempt, Rollout, Session, Snapshot} \subseteq here
         /\ \A r \in here : Late(r) =>
              {RootProcess, ToolCall, Attempt, Rollout, Session, Snapshot} \subseteq here
BY DEF SetupOrder

LEMMA RolloutsChecked == ASSUME IInv PROVE CheckRollouts(here) = {}
<1>1. Rollout \in here => Snapshot \in here /\ (Ended(Rollout) \in here => Attempt \in here)
  BY FirstRows, LateRows DEF IInv
<1> QED  BY <1>1 DEF CheckRollouts, Given, Lacks, Report

LEMMA AttemptsChecked ==
  ASSUME IInv
  PROVE  CheckAttempts(here)
         = IF Attempt \in here /\ ToolCall \notin here THEN {"missing_tool_call"} ELSE {}
<1>1. Attempt \in here => Snapshot \in here
  BY FirstRows DEF IInv
<1> QED  BY <1>1 DEF CheckAttempts, Given, Lacks, Report

LEMMA ToolCallsChecked == ASSUME IInv PROVE CheckToolCalls(here) = {}
<1>1. ToolCall \in here => {Rollout, Attempt, Session} \subseteq here
  BY FirstRows DEF IInv
<1> QED  BY <1>1 DEF CheckToolCalls, Given, Lacks, Report

LEMMA ProcessesChecked ==
  ASSUME IInv
  PROVE  CheckProcesses(here) \subseteq IF refused > 0 THEN {"stale_process_status"} ELSE {}
<1>1. /\ RootProcess \in here => ToolCall \in here
      /\ Ended(ToolCall) \in here => Ended(RootProcess) \in here \/ refused > 0
  BY FirstRows DEF IInv, EndOrder
<1> QED  BY <1>1 DEF CheckProcesses, Given, Lacks, Report

LEMMA EventsChecked == ASSUME IInv PROVE CheckEvents(here) = {}
<1>1. \A e \in Events(here) : Context \subseteq here /\ Snapshot \in here
  <2>1. \A e : Late(Event(e))
    BY LateRows
  <2>2. \A e : Event(e) \in here => {RootProcess, ToolCall, Session, Snapshot} \subseteq here
    BY <2>1, FirstRows DEF IInv
  <2> QED  BY <2>2 DEF Events, Context
<1>2. ASSUME NEW issue \in CheckEvents(here) PROVE FALSE
  <2>1. PICK e \in Events(here) :
          issue \in Report("missing_context", ~External(here) /\ ~(Context \subseteq here))
            \cup (IF e \in Telemetry THEN Lacks(here, "missing_snapshot", {Snapshot}) ELSE {})
    BY <1>2 DEF CheckEvents
  <2> QED  BY <1>1, <2>1 DEF Lacks, Report
<1> QED  BY <1>2

LEMMA ObjectsChecked ==
  ASSUME IInv
  PROVE  /\ CheckObjects(here) \subseteq {"record_manifest_mismatch"}
         /\ "pass" \notin early => CheckObjects(here) = {}
<1>1. \A o \in Objects(here) :
        /\ Readable(o, here)
        /\ o.parents \subseteq {p.of : p \in Objects(here)}
  <2>1. \A o : Foreign(o) \notin here
    <3>1. "foreign" \notin RecordedTables \cup ObjectTables
      BY DEF RecordedTables, SetupTables, ObjectTables
    <3> QED  BY <3>1, ForeignRows DEF IInv, ObjectsWhole
  <2> QED  BY <2>1 DEF IInv, ObjectsWhole, Readable
<1>2. "pass" \notin early =>
        \A o \in Objects(here) : o.of = Manifest("record_manifest") => o.body = RecordManifest(here)
  BY DEF IInv, PassOrder, PassNames
<1> QED  BY <1>1, <1>2 DEF CheckObjects, Report


LEMMA RowsChecked ==
  ASSUME IInv, NEW k \in Kids
  PROVE  /\ k \in Decided(here) =>
              Event(Orphan(k)) \in here /\ Session \in here
         /\ k \in AtRisk(here) => Event(Orphan(k)) \in here /\ Decision(k) \in here
         /\ k \in Answered(here) => Risk(k) \in here /\ Decision(k) \in here
<1>1. Late(Decision(k))
  BY LateRows
<1>2. Decision(k) \in here => Session \in here
  BY <1>1, FirstRows DEF IInv
<1>3. /\ Decision(k) \in here => Event(Orphan(k)) \in here
      /\ Risk(k) \in here => Decision(k) \in here
      /\ Response(k) \in here => Risk(k) \in here
  BY DEF IInv, AfterOrder
<1> QED  BY <1>2, <1>3 DEF Decided, AtRisk, Answered

\* Where an issue comes from.
LEMMA RiskIssue ==
  ASSUME NEW rows, NEW issue \in CheckRisks(rows)
  PROVE  \/ \E k \in Decided(rows) : issue \in PolicyIssues(rows, k)
         \/ \E k \in AtRisk(rows) : issue \in RiskIssues(rows, k)
         \/ \E k \in Answered(rows) : issue \in ResponseIssues(rows, k)
<1> DEFINE P == UNION {PolicyIssues(rows, k) : k \in Decided(rows)}
           R == UNION {RiskIssues(rows, k) : k \in AtRisk(rows)}
           A == UNION {ResponseIssues(rows, k) : k \in Answered(rows)}
<1>1. issue \in P \/ issue \in R \/ issue \in A
  <2>1. issue \in (P \cup R) \cup A
    BY DEF CheckRisks
  <2> HIDE DEF P, R, A
  <2> QED  BY <2>1
<1>2. issue \in P => \E k \in Decided(rows) : issue \in PolicyIssues(rows, k)
  OBVIOUS
<1>3. issue \in R => \E k \in AtRisk(rows) : issue \in RiskIssues(rows, k)
  OBVIOUS
<1>4. issue \in A => \E k \in Answered(rows) : issue \in ResponseIssues(rows, k)
  OBVIOUS
<1> HIDE DEF P, R, A
<1> QED  BY <1>1, <1>2, <1>3, <1>4

LEMMA CausalityIssues ==
  ASSUME NEW rows, NEW issue \in CheckCausality(rows)
  PROVE  \/ \E e \in Events(rows) \cap Telemetry : issue \in EventIssues(rows, e)
         \/ \E f \in Files : Written(f) \in Events(rows) /\ issue \in FileIssues(rows, f)
<1> DEFINE E == UNION {EventIssues(rows, e) : e \in Events(rows) \cap Telemetry}
           W == {f \in Files : Written(f) \in Events(rows)}
           F == UNION {FileIssues(rows, f) : f \in W}
<1>1. issue \in E \/ issue \in F
  <2>1. issue \in E \cup F
    BY DEF CheckCausality
  <2> HIDE DEF E, F
  <2> QED  BY <2>1
<1>2. issue \in E => \E e \in Events(rows) \cap Telemetry : issue \in EventIssues(rows, e)
  OBVIOUS
<1>3. issue \in F => \E f \in W : issue \in FileIssues(rows, f)
  <2> HIDE DEF W
  <2> QED  OBVIOUS
<1> HIDE DEF E, F
<1> QED  BY <1>1, <1>2, <1>3

\* The checks whose issues are about what a recording may lack, not about references.
LEMMA OtherIssues ==
  ASSUME NEW rows, NEW orphans
  PROVE  /\ CheckBindings(rows) \cap References = {}
         /\ CheckCausality(rows) \cap References = {}
         /\ CheckObservations(rows, orphans) \cap References = {}
         /\ CheckReplay(rows) \cap References = {}
<1>1. CheckBindings(rows) \subseteq {"missing_execution_context_binding"}
  BY ReportIs DEF CheckBindings
<1>2. ASSUME NEW issue \in CheckCausality(rows)
      PROVE  issue \in {"missing_runtime_event_edge", "missing_runtime_file_edge"}
  <2>1. \/ \E e \in Events(rows) \cap Telemetry : issue \in EventIssues(rows, e)
        \/ \E f \in Files : Written(f) \in Events(rows) /\ issue \in FileIssues(rows, f)
    BY <1>2, CausalityIssues
  <2>2. \A e : EventIssues(rows, e) \subseteq {"missing_runtime_event_edge"}
    BY LacksIs DEF EventIssues
  <2>3. \A f : FileIssues(rows, f) \subseteq {"missing_runtime_file_edge"}
    BY LacksIs DEF FileIssues
  <2> QED  BY <2>1, <2>2, <2>3
<1>3. ASSUME NEW issue \in CheckObservations(rows, orphans)
      PROVE  issue \in {"missing_orphan_lifecycle_evidence", "missing_orphan_lifecycle_policy_decision"}
  <2>1. PICK k : issue \in Lacks(rows, "missing_orphan_lifecycle_evidence", {Evidence(Orphan(k))})
          \cup Lacks(rows, "missing_orphan_lifecycle_policy_decision", {Decision(k), Evidence(Orphan(k))})
    BY <1>3 DEF CheckObservations
  <2> QED  BY <2>1, LacksIs
<1>4. CheckReplay(rows) \subseteq {"replay_manifest_failed"}
  BY ReportIs DEF CheckReplay, Given
<1> QED  BY <1>1, <1>2, <1>3, <1>4 DEF References

LEMMA DecisionsChecked ==
  ASSUME IInv
  PROVE  CheckDecisions(here) \cap References = {}
<1>1. \A k \in Decided(here) :
        /\ Lacks(here, "missing_policy_event", {Event(Orphan(k))}) = {}
        /\ Report("missing_policy_session", Session \notin here /\ ~External(here)) = {}
  <2> SUFFICES ASSUME NEW k \in Decided(here)
               PROVE  Event(Orphan(k)) \in here /\ Session \in here
    BY DEF Lacks, Report
  <2>1. k \in Kids
    BY DEF Decided
  <2> QED  BY <2>1, RowsChecked
<1>2. ASSUME NEW issue \in CheckDecisions(here)
      PROVE  issue \in {"missing_policy_decision_edge", "missing_policy_session_edge"}
  <2>1. PICK k \in Decided(here) : issue \in DecisionIssues(here, k)
    BY <1>2 DEF CheckDecisions
  <2> QED  BY <1>1, <2>1, LacksIs DEF DecisionIssues
<1> QED  BY <1>2 DEF References

LEMMA RisksChecked ==
  ASSUME IInv
  PROVE  CheckRisks(here) \cap References = {}
<1>1. \A k \in AtRisk(here) :
        /\ Lacks(here, "missing_risk_policy_decision", {Decision(k)}) = {}
        /\ Lacks(here, "missing_risk_event", {Event(Orphan(k))}) = {}
  <2> SUFFICES ASSUME NEW k \in AtRisk(here)
               PROVE  Decision(k) \in here /\ Event(Orphan(k)) \in here
    BY DEF Lacks, Report
  <2>1. k \in Kids
    BY DEF AtRisk
  <2> QED  BY <2>1, RowsChecked
<1>2. \A k \in Answered(here) :
        /\ Lacks(here, "missing_response_risk_signal", {Risk(k)}) = {}
        /\ Lacks(here, "missing_response_policy_decision", {Decision(k)}) = {}
  <2> SUFFICES ASSUME NEW k \in Answered(here)
               PROVE  Risk(k) \in here /\ Decision(k) \in here
    BY DEF Lacks, Report
  <2>1. k \in Kids
    BY DEF Answered
  <2> QED  BY <2>1, RowsChecked
<1>3. ASSUME NEW issue \in CheckRisks(here)
      PROVE  issue \in {"missing_policy_risk_signal", "missing_policy_response_action",
                        "missing_policy_unified_signal", "missing_risk_signal_edge",
                        "missing_risk_response_action", "missing_response_action_edge"}
  <2>1. \/ \E k \in Decided(here) : issue \in PolicyIssues(here, k)
        \/ \E k \in AtRisk(here) : issue \in RiskIssues(here, k)
        \/ \E k \in Answered(here) : issue \in ResponseIssues(here, k)
    BY <1>3, RiskIssue
  <2>2. \A k : PolicyIssues(here, k) \subseteq {"missing_policy_risk_signal",
                 "missing_policy_response_action", "missing_policy_unified_signal"}
    BY LacksIs DEF PolicyIssues
  <2>3. \A k \in AtRisk(here) : RiskIssues(here, k)
          \subseteq {"missing_risk_signal_edge", "missing_risk_response_action"}
    BY <1>1, LacksIs DEF RiskIssues
  <2>4. \A k \in Answered(here) : ResponseIssues(here, k) \subseteq {"missing_response_action_edge"}
    BY <1>2, LacksIs DEF ResponseIssues
  <2> QED  BY <2>1, <2>2, <2>3, <2>4
<1> QED  BY <1>3 DEF References

LEMMA NamedAre ==
  ASSUME NEW x, NEW y \in Named(x)
  PROVE  Table(y) \notin {"artifact", "blame_manifest"}
<1>1. Table(x) \in {"snapshots", "cost_samples", "artifact", "rollouts", "fork_attempts", "tool_calls",
                    "processes", "evidence_events", "events", "policy_decisions", "risk_signals",
                    "response_actions", "replay_manifest", "trajectory_manifest", "diff_manifest",
                    "blame_manifest", "audit_manifest", "record_manifest"} \/ Named(x) = {}
  BY DEF Named
<1>2. \/ y \in {Snapshot, Rollout, Attempt, ToolCall, RootProcess}
      \/ y = Event(Orphan(x[2])) \/ y = Decision(x[2]) \/ y = Risk(x[2])
      \/ Table(y) \in {"replay_manifest", "trajectory_manifest", "diff_manifest"}
  BY <1>1, NamedIs, NamedTables
<1> QED  BY <1>2, NamedTables

LEMMA ParentsNamed ==
  ASSUME IInv, "pass" \notin early, NEW o \in Objects(here)
  PROVE  Named(o.of) \cap (here \cup {p.of : p \in Objects(here)}) \subseteq o.parents
<1>1. Named(o.of) \cap (here \cup Available) \subseteq o.parents
  BY DEF IInv, PassOrder, PassNames
<1>2. \A p \in Objects(here) : p.of \in Available \/ Table(p.of) \in {"artifact", "blame_manifest"}
  BY NamedTables DEF IInv, PassOrder, PassNames, IsArtifact, Blames
<1> QED  BY <1>1, <1>2, NamedAre

(* Nothing stored, by whichever process and up to whichever statement,     *)
(* names a row, an object or a file that is not there, and every object of *)
(* a pass made after the recording names all the parents there are.        *)
THEOREM RunReferencesHold == StoreSpec => []ReferencesHold
<1>1. IInv => ReferencesHold
  <2> SUFFICES ASSUME IInv PROVE ReferencesHold
    OBVIOUS
  <2>1. "pass" \notin early =>
          \A o \in Objects(here) :
            Named(o.of) \cap (here \cup {p.of : p \in Objects(here)}) \subseteq o.parents
    BY ParentsNamed
  <2> DEFINE allowed == (IF Attempt \in here /\ ToolCall \notin here THEN {"missing_tool_call"} ELSE {})
                        \cup (IF refused > 0 THEN {"stale_process_status"} ELSE {})
             row == UNION {CheckRollouts(here), CheckAttempts(here), CheckToolCalls(here),
                           CheckProcesses(here), CheckEvents(here), CheckBindings(here),
                           CheckDecisions(here), CheckRisks(here), CheckCausality(here),
                           CheckObservations(here, run.saw.orphans), CheckReplay(here),
                           CheckObjects(here)}
  <2>2. /\ CheckRollouts(here) = {} /\ CheckToolCalls(here) = {} /\ CheckEvents(here) = {}
        /\ CheckAttempts(here) \subseteq allowed /\ CheckProcesses(here) \subseteq allowed
    BY RolloutsChecked, AttemptsChecked, ToolCallsChecked, ProcessesChecked, EventsChecked
  <2>3. /\ CheckBindings(here) \cap References = {} /\ CheckDecisions(here) \cap References = {}
        /\ CheckRisks(here) \cap References = {} /\ CheckCausality(here) \cap References = {}
        /\ CheckObservations(here, run.saw.orphans) \cap References = {}
        /\ CheckReplay(here) \cap References = {}
    BY OtherIssues, DecisionsChecked, RisksChecked
  <2>4. CheckObjects(here) \cap References = {} /\ "unknown_run" \notin References
    BY ObjectsChecked DEF References
  <2>5. Issues(here) \in {{"unknown_run"}, row}
    BY DEF Issues, Verify
  <2>6. row \cap References \subseteq allowed
    <3> HIDE DEF allowed
    <3> QED  BY <2>2, <2>3, <2>4
  <2>7. Issues(here) \cap References \subseteq allowed
    <3> HIDE DEF allowed, row
    <3> QED  BY <2>4, <2>5, <2>6
  <2> QED  BY <2>1, <2>7 DEF ReferencesHold
<1> QED  BY <1>1, Invariance, PTL

-----------------------------------------------------------------------------
(* What a recording that returned, nothing refused, has stored.            *)
Whole == IInv /\ run.at = "returned" /\ refused = 0

LEMMA WholeRows ==
  ASSUME Whole
  PROVE  /\ {RootProcess, ToolCall, Attempt, Rollout, Session, Snapshot} \subseteq here
         /\ External(here)
         /\ \A k \in Kids : Event(Seen(k)) \in here => RowsOf(Observed(k)) \subseteq here
         /\ \A k \in Kids : Event(Orphan(k)) \in here => RowsOf(OrphanDecision(k)) \subseteq here
         /\ \A k \in run.saw.orphans : k \in Kids /\ RowsOf(OrphanDecision(k)) \subseteq here
         /\ \A f \in Files : Event(Written(f)) \in here => RowsOf(Changed(f)) \subseteq here
<1>1. RootProcess \in here
  BY DEF Whole, IInv, SetupOrder
<1>2. run.kids = {} /\ run.files = {} /\ run.saw.orphans \subseteq run.saw.kids
      /\ run.saw.kids \subseteq Kids
  BY DEF Whole, IInv, Subject, Types, Seeing
<1>3. /\ \A k \in run.saw.kids :
           /\ RowsOf(Observed(k)) \subseteq here
           /\ k \in run.saw.orphans => RowsOf(OrphanDecision(k)) \subseteq here
      /\ \A f \in run.saw.files : RowsOf(Changed(f)) \subseteq here
      /\ Binding("root") \in here
  BY <1>2 DEF Whole, IInv, AllSeen, Launched, About
<1>4. OnlySeen
  BY DEF Whole, IInv
<1>5. {RootProcess, ToolCall, Attempt, Rollout, Session, Snapshot} \subseteq here
  BY <1>1, FirstRows DEF Whole, IInv
<1> QED  BY <1>2, <1>3, <1>4, <1>5 DEF OnlySeen, External

LEMMA WholeOrphan ==
  ASSUME Whole, NEW k \in Kids, Decision(k) \in here \/ Risk(k) \in here \/ Response(k) \in here
  PROVE  {Event(Orphan(k)), Decision(k), Risk(k), Signal(k), Response(k), Evidence(Orphan(k)),
          Edge("policy_decision_risk_signal", <<k>>), Edge("runtime_event_policy_decision", <<k>>),
          Edge("policy_decision_session", <<k>>), Edge("risk_signal_response_action", <<k>>)}
         \subseteq here
<1>1. Event(Orphan(k)) \in here
  BY DEF Whole, IInv, AfterOrder
<1> QED  BY <1>1, WholeRows, OrphanWhole

LEMMA CausalityWhole ==
  ASSUME Whole
  PROVE  CheckCausality(here) = {}
<1> SUFFICES ASSUME NEW issue \in CheckCausality(here) PROVE FALSE
  OBVIOUS
<1>1. ASSUME NEW e \in Events(here) \cap Telemetry
      PROVE  {Edge("runtime_tool_call_event", e), Edge("runtime_process_event", e),
              Edge("runtime_tool_call_process", <<"record">>), Edge("runtime_process_observed", <<Pid(e)>>),
              Edge("runtime_process_parent", <<Pid(e)>>), Edge("runtime_process_child_of", <<Pid(e)>>),
              Edge("runtime_attempt_event", e)} \subseteq here
  <2>1. CASE \E k \in Kids : e = Seen(k)
    <3>1. PICK k \in Kids : e = Seen(k)
      BY <2>1
    <3>2. RowsOf(Observed(k)) \subseteq here
      BY <3>1, WholeRows DEF Events
    <3> QED  BY <3>1, <3>2, ObservedWhole
  <2>2. CASE \E f \in Files : e = Written(f)
    <3>1. PICK f \in Files : e = Written(f)
      BY <2>2
    <3>2. RowsOf(Changed(f)) \subseteq here
      BY <3>1, WholeRows DEF Events
    <3> QED  BY <3>1, <3>2, ChangedWhole
  <2> QED  BY <2>1, <2>2 DEF Telemetry
<1>2. ASSUME NEW f \in Files, Written(f) \in Events(here)
      PROVE  {Edge("runtime_event_file", Written(f)), Edge("runtime_process_file", <<f>>),
              Edge("runtime_tool_call_file", <<f>>), Edge("runtime_attempt_file", <<f>>)} \subseteq here
  <2>1. RowsOf(Changed(f)) \subseteq here
    BY <1>2, WholeRows DEF Events
  <2> QED  BY <2>1, ChangedWhole
<1>3. CASE \E e \in Events(here) \cap Telemetry : issue \in EventIssues(here, e)
  <2>1. PICK e \in Events(here) \cap Telemetry : issue \in EventIssues(here, e)
    BY <1>3
  <2> QED  BY <1>1, <2>1 DEF EventIssues, OfAttempt, Lacks, Report
<1>4. CASE \E f \in Files : Written(f) \in Events(here) /\ issue \in FileIssues(here, f)
  <2>1. PICK f \in Files : Written(f) \in Events(here) /\ issue \in FileIssues(here, f)
    BY <1>4
  <2> QED  BY <1>2, <2>1 DEF FileIssues, OfAttempt, Lacks, Report
<1> QED  BY <1>3, <1>4, CausalityIssues

LEMMA DecisionsWhole ==
  ASSUME Whole
  PROVE  CheckDecisions(here) = {} /\ CheckRisks(here) = {}
<1>1. Session \in here
  BY WholeRows
<1>2. \A k \in Decided(here) \cup AtRisk(here) \cup Answered(here) :
        {Event(Orphan(k)), Decision(k), Risk(k), Signal(k), Response(k), Evidence(Orphan(k)),
         Edge("policy_decision_risk_signal", <<k>>), Edge("runtime_event_policy_decision", <<k>>),
         Edge("policy_decision_session", <<k>>), Edge("risk_signal_response_action", <<k>>)}
        \subseteq here
  BY WholeOrphan DEF Decided, AtRisk, Answered
<1>3. ASSUME NEW issue \in CheckDecisions(here) PROVE FALSE
  <2>1. PICK k \in Decided(here) : issue \in DecisionIssues(here, k)
    BY <1>3 DEF CheckDecisions
  <2>2. {Event(Orphan(k)), Edge("runtime_event_policy_decision", <<k>>),
         Edge("policy_decision_session", <<k>>)} \subseteq here
    BY <1>2
  <2> QED  BY <1>1, <2>1, <2>2 DEF DecisionIssues, Lacks, Report
<1>4. ASSUME NEW issue \in CheckRisks(here) PROVE FALSE
  <2>1. PICK k \in Decided(here) \cup AtRisk(here) \cup Answered(here) :
          issue \in PolicyIssues(here, k) \cup RiskIssues(here, k) \cup ResponseIssues(here, k)
    BY <1>4, RiskIssue
  <2>2. {Event(Orphan(k)), Decision(k), Risk(k), Signal(k), Response(k),
         Edge("policy_decision_risk_signal", <<k>>), Edge("risk_signal_response_action", <<k>>)}
        \subseteq here
    BY <1>2
  <2> QED  BY <2>1, <2>2 DEF PolicyIssues, RiskIssues, ResponseIssues, Lacks, Report
<1> QED  BY <1>3, <1>4

LEMMA ObservationsWhole ==
  ASSUME Whole
  PROVE  CheckObservations(here, run.saw.orphans) = {}
<1> SUFFICES ASSUME NEW issue \in CheckObservations(here, run.saw.orphans) PROVE FALSE
  OBVIOUS
<1>1. PICK k \in run.saw.orphans :
        issue \in Lacks(here, "missing_orphan_lifecycle_evidence", {Evidence(Orphan(k))})
          \cup Lacks(here, "missing_orphan_lifecycle_policy_decision", {Decision(k), Evidence(Orphan(k))})
  BY DEF CheckObservations
<1>2. {Decision(k), Evidence(Orphan(k))} \subseteq here
  BY WholeRows, OrphanWhole
<1> QED  BY <1>1, <1>2 DEF Lacks, Report

LEMMA SmallChecks ==
  ASSUME Whole
  PROVE  /\ CheckRollouts(here) = {} /\ CheckAttempts(here) = {} /\ CheckToolCalls(here) = {}
         /\ CheckProcesses(here) = {} /\ CheckEvents(here) = {} /\ CheckBindings(here) = {}
         /\ CheckReplay(here) = {}
<1>1. {RootProcess, ToolCall, Attempt, Rollout, Session, Snapshot} \subseteq here /\ External(here)
  BY WholeRows
<1>2. IInv /\ refused = 0
  BY DEF Whole
<1>3. CheckBindings(here) = {}
  BY <1>1, ReportIs DEF CheckBindings
<1>4. CheckReplay(here) = {}
  BY <1>1, ReportIs DEF CheckReplay, Given, Replayable
<1>5. CheckAttempts(here) = {}
  BY <1>1, <1>2, AttemptsChecked
<1>6. CheckProcesses(here) = {}
  BY <1>2, ProcessesChecked
<1> QED
  BY <1>2, <1>3, <1>4, <1>5, <1>6, RolloutsChecked, ToolCallsChecked, EventsChecked

(* A run whose recording returned with nothing refused verifies without an *)
(* error from then on, whatever the evidence worker and later passes do.   *)
THEOREM RunCleanVerifies == StoreSpec => []CleanVerifies
<1>1. IInv => CleanVerifies
  <2> SUFFICES ASSUME IInv, run.at = "returned", refused = 0, "pass" \notin early
               PROVE  Issues(here) = {}
    BY DEF CleanVerifies
  <2>1. Whole
    BY DEF Whole
  <2>2. Exists(here)
    <3>1. Session \in here /\ Table(Session) = "sessions"
      BY <2>1, WholeRows, SetupRowsEarly
    <3> QED  BY <3>1 DEF Exists
  <2>3. CheckObjects(here) = {}
    BY ObjectsChecked
  <2> QED
    BY <2>1, <2>2, <2>3, SmallChecks, CausalityWhole, DecisionsWhole, ObservationsWhole
    DEF Issues, Verify
<1> QED  BY <1>1, Invariance, PTL

-----------------------------------------------------------------------------
(* Two sets of rows that have the recorder's rows in common verify alike.  *)
Alike(A, B) == \A r : Recorded(r) => (r \in A <=> r \in B)

LEMMA RecordedEdges ==
  /\ \A x : /\ Recorded(Edge("runtime_attempt_event", x)) /\ Recorded(Edge("runtime_tool_call_process", x))
            /\ Recorded(Edge("runtime_tool_call_event", x)) /\ Recorded(Edge("runtime_process_event", x))
            /\ Recorded(Edge("runtime_process_observed", x)) /\ Recorded(Edge("runtime_process_parent", x))
            /\ Recorded(Edge("runtime_process_child_of", x)) /\ Recorded(Edge("runtime_event_file", x))
            /\ Recorded(Edge("runtime_process_file", x)) /\ Recorded(Edge("runtime_tool_call_file", x))
            /\ Recorded(Edge("runtime_attempt_file", x)) /\ Recorded(Edge("policy_decision_risk_signal", x))
            /\ Recorded(Edge("runtime_event_policy_decision", x))
            /\ Recorded(Edge("policy_decision_session", x))
            /\ Recorded(Edge("risk_signal_response_action", x))
<1>1. \A i \in 1 .. WorkerEdges : LinkTypes[i] \in {"rollout_attempt", "snapshot_attempt",
        "attempt_tool_call", "attempt_session", "tool_call_session"}
  BY Orders DEF LinkTypes
<1> QED  BY <1>1 DEF Recorded, WorkerRow, Table, RecordedTables, Edge

LEMMA LacksAlike ==
  ASSUME NEW A, NEW B, Alike(A, B), NEW issue, NEW S, \A s \in S : Recorded(s)
  PROVE  Lacks(A, issue, S) = Lacks(B, issue, S)
BY DEF Alike, Lacks, Report

LEMMA AlikeRows ==
  ASSUME NEW A, NEW B, Alike(A, B)
  PROVE  /\ \A row \in {Snapshot, Session, Rollout, Attempt, ToolCall, RootProcess, Ended(Rollout),
                        Ended(ToolCall), Ended(RootProcess)} : row \in A <=> row \in B
         /\ External(A) <=> External(B)
         /\ Events(A) = Events(B) /\ Decided(A) = Decided(B)
         /\ AtRisk(A) = AtRisk(B) /\ Answered(A) = Answered(B)
         /\ RecordManifest(A) = RecordManifest(B)
<1>1. \A row \in {Snapshot, Session, Rollout, Attempt, ToolCall, RootProcess, Ended(Rollout),
                  Ended(ToolCall), Ended(RootProcess)} : row \in A <=> row \in B
  BY RecordedRows DEF Alike
<1>2. /\ \A k : /\ Binding(k) \in A <=> Binding(k) \in B
                /\ Decision(k) \in A <=> Decision(k) \in B
                /\ Risk(k) \in A <=> Risk(k) \in B
                /\ Response(k) \in A <=> Response(k) \in B
      /\ \A e : Event(e) \in A <=> Event(e) \in B
  BY RecordedRows DEF Alike
<1>3. RecordManifest(A) = RecordManifest(B)
  <2> DEFINE T == {Attempt, Ended(Attempt), Session, RootProcess, Ended(RootProcess),
                   Binding("root"), Ended(Binding("root"))} \cup {Event(e) : e \in Telemetry}
  <2>1. \A x \in T : x \in A <=> x \in B
    BY RecordedRows DEF Alike
  <2>2. RecordManifest(A) = A \cap T /\ RecordManifest(B) = B \cap T
    BY DEF RecordManifest
  <2> HIDE DEF T
  <2> QED  BY <2>1, <2>2
<1> QED  BY <1>1, <1>2, <1>3 DEF External, Events, Decided, AtRisk, Answered

LEMMA FewAlike ==
  ASSUME NEW A, NEW B, Alike(A, B)
  PROVE  /\ CheckRollouts(A) = CheckRollouts(B) /\ CheckAttempts(A) = CheckAttempts(B)
         /\ CheckToolCalls(A) = CheckToolCalls(B) /\ CheckProcesses(A) = CheckProcesses(B)
         /\ CheckBindings(A) = CheckBindings(B) /\ CheckReplay(A) = CheckReplay(B)
<1>1. /\ Snapshot \in A <=> Snapshot \in B
      /\ Session \in A <=> Session \in B
      /\ Rollout \in A <=> Rollout \in B
      /\ Attempt \in A <=> Attempt \in B
      /\ ToolCall \in A <=> ToolCall \in B
      /\ RootProcess \in A <=> RootProcess \in B
      /\ Ended(Rollout) \in A <=> Ended(Rollout) \in B
      /\ Ended(ToolCall) \in A <=> Ended(ToolCall) \in B
      /\ Ended(RootProcess) \in A <=> Ended(RootProcess) \in B
  BY AlikeRows
<1>2. External(A) <=> External(B)
  BY AlikeRows
<1>3. Events(A) = Events(B)
  BY AlikeRows
<1>4. CheckRollouts(A) = CheckRollouts(B) /\ CheckAttempts(A) = CheckAttempts(B)
  BY <1>1 DEF CheckRollouts, CheckAttempts, Given, Lacks, Report
<1>5. CheckToolCalls(A) = CheckToolCalls(B) /\ CheckProcesses(A) = CheckProcesses(B)
  BY <1>1 DEF CheckToolCalls, CheckProcesses, Given, Lacks, Report
<1>6. CheckBindings(A) = CheckBindings(B)
  BY <1>2, <1>3 DEF CheckBindings, Report
<1>7. CheckReplay(A) = CheckReplay(B)
  BY <1>1 DEF CheckReplay, Given, Report, Replayable
<1> QED  BY <1>4, <1>5, <1>6, <1>7

LEMMA EventsAlike ==
  ASSUME NEW A, NEW B, Alike(A, B)
  PROVE  CheckEvents(A) \subseteq CheckEvents(B)
<1> DEFINE Of(rows, e) ==
      Report("missing_context", ~External(rows) /\ ~(Context \subseteq rows))
      \cup (IF e \in Telemetry THEN Lacks(rows, "missing_snapshot", {Snapshot}) ELSE {})
<1>1. ASSUME NEW issue \in CheckEvents(A) PROVE issue \in CheckEvents(B)
  <2>1. PICK e \in Events(A) : issue \in Of(A, e)
    BY <1>1 DEF CheckEvents
  <2>2. Context \subseteq A <=> Context \subseteq B
    BY AlikeRows DEF Context
  <2>3. External(A) <=> External(B)
    BY AlikeRows
  <2>4. Lacks(A, "missing_snapshot", {Snapshot}) = Lacks(B, "missing_snapshot", {Snapshot})
    BY LacksAlike, RecordedRows
  <2>5. issue \in Of(B, e)
    BY <2>1, <2>2, <2>3, <2>4 DEF Report
  <2>6. e \in Events(B)
    BY AlikeRows
  <2>7. CheckEvents(B) = UNION {Of(B, x) : x \in Events(B)}
    BY DEF CheckEvents
  <2> HIDE DEF Of
  <2> QED  BY <2>5, <2>6, <2>7
<1> QED  BY <1>1

LEMMA DecisionsAlike ==
  ASSUME NEW A, NEW B, Alike(A, B)
  PROVE  CheckDecisions(A) \subseteq CheckDecisions(B)
<1>1. ASSUME NEW issue \in CheckDecisions(A) PROVE issue \in CheckDecisions(B)
  <2>1. PICK k \in Decided(A) : issue \in DecisionIssues(A, k)
    BY <1>1 DEF CheckDecisions
  <2>2. Lacks(A, "missing_policy_event", {Event(Orphan(k))})
        = Lacks(B, "missing_policy_event", {Event(Orphan(k))})
    BY LacksAlike, RecordedRows
  <2>3. Lacks(A, "missing_policy_decision_edge", {Edge("runtime_event_policy_decision", <<k>>)})
        = Lacks(B, "missing_policy_decision_edge", {Edge("runtime_event_policy_decision", <<k>>)})
    BY LacksAlike, RecordedEdges
  <2>4. Lacks(A, "missing_policy_session_edge", {Edge("policy_decision_session", <<k>>)})
        = Lacks(B, "missing_policy_session_edge", {Edge("policy_decision_session", <<k>>)})
    BY LacksAlike, RecordedEdges
  <2>5. (Session \in A <=> Session \in B) /\ (External(A) <=> External(B))
    BY AlikeRows
  <2>6. issue \in DecisionIssues(B, k)
    BY <2>1, <2>2, <2>3, <2>4, <2>5 DEF DecisionIssues, Report
  <2>7. k \in Decided(B)
    BY AlikeRows
  <2> QED  BY <2>6, <2>7 DEF CheckDecisions
<1> QED  BY <1>1

LEMMA RisksAlike ==
  ASSUME NEW A, NEW B, Alike(A, B)
  PROVE  CheckRisks(A) \subseteq CheckRisks(B)
<1>1. ASSUME NEW k PROVE PolicyIssues(A, k) = PolicyIssues(B, k)
  <2>1. \A s \in {Risk(k), Response(k), Signal(k)} : s \in A <=> s \in B
    BY RecordedRows DEF Alike
  <2> QED  BY <2>1 DEF PolicyIssues, Lacks, Report
<1>2. ASSUME NEW k PROVE RiskIssues(A, k) = RiskIssues(B, k)
  <2>1. \A s \in {Decision(k), Event(Orphan(k)), Edge("policy_decision_risk_signal", <<k>>), Response(k)} :
          s \in A <=> s \in B
    BY RecordedRows, RecordedEdges DEF Alike
  <2> QED  BY <2>1 DEF RiskIssues, Lacks, Report
<1>3. ASSUME NEW k PROVE ResponseIssues(A, k) = ResponseIssues(B, k)
  <2>1. \A s \in {Decision(k), Risk(k), Edge("risk_signal_response_action", <<k>>)} : s \in A <=> s \in B
    BY RecordedRows, RecordedEdges DEF Alike
  <2> QED  BY <2>1 DEF ResponseIssues, Lacks, Report
<1>4. Decided(A) = Decided(B) /\ AtRisk(A) = AtRisk(B) /\ Answered(A) = Answered(B)
  BY AlikeRows
<1>5. ASSUME NEW issue \in CheckRisks(A) PROVE issue \in CheckRisks(B)
  <2>1. \/ \E k \in Decided(B) : issue \in PolicyIssues(B, k)
        \/ \E k \in AtRisk(B) : issue \in RiskIssues(B, k)
        \/ \E k \in Answered(B) : issue \in ResponseIssues(B, k)
    BY <1>1, <1>2, <1>3, <1>4, <1>5, RiskIssue
  <2> QED  BY <2>1 DEF CheckRisks
<1> QED  BY <1>5

LEMMA CausalityAlike ==
  ASSUME NEW A, NEW B, Alike(A, B)
  PROVE  CheckCausality(A) \subseteq CheckCausality(B)
<1>0. ToolCall \in A <=> ToolCall \in B
  BY AlikeRows
<1>1. ASSUME NEW e PROVE EventIssues(A, e) = EventIssues(B, e)
  <2> DEFINE S == {Edge("runtime_tool_call_event", e), Edge("runtime_process_event", e),
                   Edge("runtime_tool_call_process", <<"record">>),
                   Edge("runtime_process_observed", <<Pid(e)>>),
                   Edge("runtime_process_parent", <<Pid(e)>>), Edge("runtime_process_child_of", <<Pid(e)>>)}
                  \cup OfAttempt(A, {Edge("runtime_attempt_event", e)})
  <2>1. \A s \in S : Recorded(s)
    BY RecordedEdges DEF OfAttempt
  <2>2. OfAttempt(A, {Edge("runtime_attempt_event", e)}) = OfAttempt(B, {Edge("runtime_attempt_event", e)})
    BY <1>0 DEF OfAttempt
  <2>3. /\ EventIssues(A, e) = Lacks(A, "missing_runtime_event_edge", S)
        /\ EventIssues(B, e) = Lacks(B, "missing_runtime_event_edge", S)
    BY <2>2 DEF EventIssues
  <2> HIDE DEF S
  <2> QED  BY <2>1, <2>3, LacksAlike
<1>2. ASSUME NEW f PROVE FileIssues(A, f) = FileIssues(B, f)
  <2> DEFINE S == {Edge("runtime_event_file", Written(f)), Edge("runtime_process_file", <<f>>),
                   Edge("runtime_tool_call_file", <<f>>)}
                  \cup OfAttempt(A, {Edge("runtime_attempt_file", <<f>>)})
  <2>1. \A s \in S : Recorded(s)
    BY RecordedEdges DEF OfAttempt
  <2>2. OfAttempt(A, {Edge("runtime_attempt_file", <<f>>)}) = OfAttempt(B, {Edge("runtime_attempt_file", <<f>>)})
    BY <1>0 DEF OfAttempt
  <2>3. /\ FileIssues(A, f) = Lacks(A, "missing_runtime_file_edge", S)
        /\ FileIssues(B, f) = Lacks(B, "missing_runtime_file_edge", S)
    BY <2>2 DEF FileIssues
  <2> HIDE DEF S
  <2> QED  BY <2>1, <2>3, LacksAlike
<1>3. Events(A) = Events(B)
  BY AlikeRows
<1>4. ASSUME NEW issue \in CheckCausality(A) PROVE issue \in CheckCausality(B)
  <2>1. \/ \E e \in Events(B) \cap Telemetry : issue \in EventIssues(B, e)
        \/ \E f \in Files : Written(f) \in Events(B) /\ issue \in FileIssues(B, f)
    BY <1>1, <1>2, <1>3, <1>4, CausalityIssues
  <2> QED  BY <2>1 DEF CheckCausality
<1> QED  BY <1>4

LEMMA ObservationsAlike ==
  ASSUME NEW A, NEW B, Alike(A, B), NEW orphans
  PROVE  CheckObservations(A, orphans) \subseteq CheckObservations(B, orphans)
<1> DEFINE Of(rows, k) ==
      Lacks(rows, "missing_orphan_lifecycle_evidence", {Evidence(Orphan(k))})
      \cup Lacks(rows, "missing_orphan_lifecycle_policy_decision", {Decision(k), Evidence(Orphan(k))})
           Outlived(rows) == {k \in orphans : Seen(k) \in Events(rows)}
<1>1. /\ CheckObservations(A, orphans) = UNION {Of(A, k) : k \in Outlived(A)}
      /\ CheckObservations(B, orphans) = UNION {Of(B, k) : k \in Outlived(B)}
  BY DEF CheckObservations
<1>2. Outlived(A) = Outlived(B)
  <2>1. Events(A) = Events(B)
    BY AlikeRows
  <2> QED  BY <2>1
<1>3. ASSUME NEW k PROVE Of(A, k) = Of(B, k)
  <2>1. \A s \in {Decision(k), Evidence(Orphan(k))} : s \in A <=> s \in B
    BY RecordedRows DEF Alike
  <2> QED  BY <2>1 DEF Lacks, Report
<1> HIDE DEF Of, Outlived
<1> QED  BY <1>1, <1>2, <1>3

-----------------------------------------------------------------------------
(* The replaying host, once a bundle begun after the recording is loaded.  *)
Loaded == IInv /\ load.at = "done" /\ "export" \notin early

LEMMA LoadedRows ==
  ASSUME Loaded
  PROVE  /\ \A r \in there : r \in here \/ Table(r) = "foreign"
         /\ \A r \in here : Settled(r) => r \in there
         /\ Session \in here => Session \in there
         /\ Rollout \in here => Alike(there, here)
<1>1. /\ \A r \in there : r \in here \/ Table(r) = "foreign"
      /\ \A r \in here : Settled(r) => r \in there
  BY DEF Loaded, IInv, LoadOrder, LoadWhole
<1>2. \A r : Recorded(r) => Table(r) # "foreign"
  BY DEF Recorded, RecordedTables, SetupTables
<1>3. Settled(Session)
  BY RecordedRows DEF Settled
<1> QED  BY <1>1, <1>2, <1>3 DEF Alike, Settled

LEMMA NoRollout ==
  ASSUME Loaded, Rollout \notin here
  PROVE  /\ {Rollout, Attempt, ToolCall, RootProcess} \cap there = {}
         /\ \A r \in there : ~Late(r)
         /\ RecordManifest(there) = RecordManifest(here)
<1>1. {Rollout, Attempt, ToolCall, RootProcess} \cap here = {} /\ \A r \in here : ~Late(r)
  BY FirstRows DEF Loaded, IInv
<1>2. \A r \in there : r \in here \/ Table(r) = "foreign"
  BY LoadedRows
<1>3. \A r : Table(r) = "foreign" => ~Recorded(r) /\ ~Late(r)
  BY DEF Recorded, Late, RecordedTables, SetupTables
<1>4. Recorded(Rollout) /\ Recorded(Attempt) /\ Recorded(ToolCall) /\ Recorded(RootProcess)
      /\ Recorded(Session)
  BY RecordedRows
<1>5. {Rollout, Attempt, ToolCall, RootProcess} \cap there = {}
  BY <1>1, <1>2, <1>3, <1>4
<1>6. \A r \in there : ~Late(r)
  BY <1>1, <1>2, <1>3
<1>7. RecordManifest(there) = RecordManifest(here)
  <2> DEFINE T == {Ended(Attempt), Ended(RootProcess), Binding("root"), Ended(Binding("root"))}
                  \cup {Event(e) : e \in Telemetry}
  <2>1. \A r \in T : Late(r)
    <3>1. Late(Ended(Attempt)) /\ Late(Ended(Binding("root")))
      BY DEF Late, IsUpdate, Table, Ended, Attempt, Binding, RecordedTables, SetupTables
    <3> QED  BY <3>1, LateRows
  <2>2. T \cap here = {} /\ T \cap there = {}
    BY <1>1, <1>6, <2>1
  <2>3. \A rows : RecordManifest(rows) = rows \cap ({Attempt, Session, RootProcess} \cup T)
    BY DEF RecordManifest
  <2>4. Session \in here <=> Session \in there
    BY <1>2, <1>3, <1>4, LoadedRows
  <2> HIDE DEF T
  <2>5. RecordManifest(here) = here \cap {Session} /\ RecordManifest(there) = there \cap {Session}
    BY <1>1, <1>5, <2>2, <2>3
  <2> QED  BY <2>4, <2>5
<1> QED  BY <1>5, <1>6, <1>7

LEMMA NothingThere ==
  ASSUME Loaded, Rollout \notin here, NEW orphans
  PROVE  UNION {CheckRollouts(there), CheckAttempts(there), CheckToolCalls(there),
                CheckProcesses(there), CheckEvents(there), CheckBindings(there),
                CheckDecisions(there), CheckRisks(there), CheckCausality(there),
                CheckObservations(there, orphans), CheckReplay(there)} = {}
<1>1. {Rollout, Attempt, ToolCall, RootProcess} \cap there = {} /\ \A r \in there : ~Late(r)
  BY NoRollout
<1>2. Events(there) = {} /\ Decided(there) = {} /\ AtRisk(there) = {} /\ Answered(there) = {}
  <2>1. /\ \A e : Event(e) \notin there
        /\ \A k : Decision(k) \notin there /\ Risk(k) \notin there /\ Response(k) \notin there
    BY <1>1, LateRows
  <2> QED  BY <2>1 DEF Events, Decided, AtRisk, Answered
<1>3. CheckRollouts(there) = {} /\ CheckAttempts(there) = {} /\ CheckToolCalls(there) = {}
      /\ CheckProcesses(there) = {} /\ CheckReplay(there) = {}
  BY <1>1 DEF CheckRollouts, CheckAttempts, CheckToolCalls, CheckProcesses, CheckReplay, Given
<1>4. CheckEvents(there) = {} /\ CheckBindings(there) = {}
  BY <1>2 DEF CheckEvents, CheckBindings, Report
<1>5. CheckDecisions(there) = {} /\ CheckObservations(there, orphans) = {}
  BY <1>2 DEF CheckDecisions, CheckObservations
<1>6. CheckRisks(there) = {}
  BY <1>2, RiskIssue
<1>7. CheckCausality(there) = {}
  BY <1>2, CausalityIssues
<1> QED  BY <1>3, <1>4, <1>5, <1>6, <1>7

LEMMA ObjectsThere ==
  ASSUME Loaded
  PROVE  CheckObjects(there) \subseteq CheckObjects(here)
           \cup (IF \E o \in Objects(there) : o.of \in large THEN {"missing_provenance_object"} ELSE {})
<1> DEFINE Of(rows, o) ==
      IF ~Readable(o, rows) THEN {"missing_provenance_object"}
      ELSE Report("record_manifest_mismatch",
             o.of = Manifest("record_manifest") /\ o.body # RecordManifest(rows))
           \cup Report("missing_parent_object", ~(o.parents \subseteq {p.of : p \in Objects(rows)}))
<1>1. /\ CheckObjects(there) = UNION {Of(there, o) : o \in Objects(there)}
      /\ CheckObjects(here) = UNION {Of(here, o) : o \in Objects(here)}
  BY DEF CheckObjects
<1>2. RecordManifest(there) = RecordManifest(here)
  BY NoRollout, LoadedRows, AlikeRows
<1>3. Objects(there) \subseteq Objects(here)
  BY LoadedRows DEF Objects
<1>4. \A o \in Objects(there) :
        /\ o.of \in large \/ Readable(o, there)
        /\ o.parents \subseteq {p.of : p \in Objects(there)}
  BY DEF Loaded, IInv, LoadOrder
<1>5. \A o \in Objects(here) : Readable(o, here)
  <2>1. "foreign" \notin RecordedTables \cup ObjectTables
    BY DEF RecordedTables, SetupTables, ObjectTables
  <2> QED  BY <2>1, ForeignRows DEF Loaded, IInv, ObjectsWhole, Readable
<1>6. ASSUME NEW o \in Objects(there), NEW issue \in Of(there, o)
      PROVE  issue \in Of(here, o) \/ (issue = "missing_provenance_object" /\ o.of \in large)
  <2>1. CASE ~Readable(o, there)
    BY <1>4, <1>6, <2>1
  <2>2. CASE Readable(o, there)
    <3>1. Of(there, o) = Report("record_manifest_mismatch",
                           o.of = Manifest("record_manifest") /\ o.body # RecordManifest(here))
      BY <1>2, <1>4, <2>2 DEF Report
    <3>2. Readable(o, here)
      BY <1>3, <1>5
    <3>3. Of(there, o) \subseteq Of(here, o)
      BY <3>1, <3>2
    <3> QED  BY <1>6, <3>3
  <2> QED  BY <2>1, <2>2
<1> HIDE DEF Of
<1> QED  BY <1>1, <1>3, <1>6

(* A bundle begun after the recording, once imported, verifies on the      *)
(* replaying host as it does at home: no issue of its own, but for objects *)
(* too large to travel, and for a recording cut off before its session.    *)
THEOREM RunReplayAgrees == StoreSpec => []ReplayAgrees
<1>1. IInv => ReplayAgrees
  <2> DEFINE lost == IF \E o \in Objects(there) : o.of \in large THEN {"missing_provenance_object"} ELSE {}
             none == IF Session \in here THEN {} ELSE {"unknown_run"}
             os == run.saw.orphans
             RowIssues(rows) ==
               UNION {CheckRollouts(rows), CheckAttempts(rows), CheckToolCalls(rows),
                      CheckProcesses(rows), CheckEvents(rows), CheckBindings(rows),
                      CheckDecisions(rows), CheckRisks(rows), CheckCausality(rows),
                      CheckObservations(rows, os), CheckReplay(rows)}
  <2> SUFFICES ASSUME IInv, load.at = "done", "export" \notin early
               PROVE  Issues(there) \subseteq (Issues(here) \cup lost) \cup none
    BY DEF ReplayAgrees
  <2>1. Loaded
    BY DEF Loaded
  <2>2. CASE ~Exists(there)
    <3>1. Issues(there) = {"unknown_run"}
      BY <2>2 DEF Issues, Verify
    <3>2. Session \notin here
      BY <2>1, <2>2, LoadedRows, SetupRowsEarly DEF Exists
    <3> QED  BY <3>1, <3>2
  <2>3. CASE Exists(there)
    <3>1. Exists(here)
      BY <2>1, <2>3, LoadedRows DEF Exists
    <3>2. RowIssues(there) \subseteq RowIssues(here)
      <4>1. CASE Rollout \in here
        <5>1. Alike(there, here)
          BY <2>1, <4>1, LoadedRows
        <5>2. /\ CheckRollouts(there) = CheckRollouts(here)
              /\ CheckAttempts(there) = CheckAttempts(here)
              /\ CheckToolCalls(there) = CheckToolCalls(here)
              /\ CheckProcesses(there) = CheckProcesses(here)
              /\ CheckBindings(there) = CheckBindings(here)
              /\ CheckReplay(there) = CheckReplay(here)
          BY <5>1, FewAlike
        <5>3. /\ CheckEvents(there) \subseteq CheckEvents(here)
              /\ CheckDecisions(there) \subseteq CheckDecisions(here)
              /\ CheckRisks(there) \subseteq CheckRisks(here)
              /\ CheckCausality(there) \subseteq CheckCausality(here)
              /\ CheckObservations(there, os) \subseteq CheckObservations(here, os)
          BY <5>1, EventsAlike, DecisionsAlike, RisksAlike, CausalityAlike, ObservationsAlike
        <5> HIDE DEF os
        <5> QED  BY <5>2, <5>3
      <4>2. CASE Rollout \notin here
        BY <2>1, <4>2, NothingThere
      <4> QED  BY <4>1, <4>2
    <3>3. CheckObjects(there) \subseteq CheckObjects(here) \cup lost
      BY <2>1, ObjectsThere
    <3>4. /\ Issues(there) = RowIssues(there) \cup CheckObjects(there)
          /\ Issues(here) = RowIssues(here) \cup CheckObjects(here)
      BY <2>3, <3>1 DEF Issues, Verify
    <3> HIDE DEF RowIssues, lost, none
    <3> QED  BY <3>2, <3>3, <3>4
  <2> QED  BY <2>2, <2>3
<1> QED  BY <1>1, Invariance, PTL

(* An evidence row reaches a replaying host as processed only together     *)
(* with the edges its processing made.                                     *)
THEOREM RunProcessedWithEdges == StoreSpec => []ProcessedWithEdges
<1>1. IInv => ProcessedWithEdges
  BY DEF IInv, LoadOrder, Linked, ProcessedWithEdges
<1> QED  BY <1>1, Invariance, PTL
=============================================================================
