---------------------------- MODULE MCRecorded -----------------------------
(* Two daemons on one spool, and the life of one recorded run, side by side *)
(* in one run.  They have no variable in common: a behaviour is one of      *)
(* Spool's or one of RunStore's, as side says.                              *)
EXTENDS MCSpool, RunStore

MCOversized == {<<"replay_manifest", "run">>}

(* One thing at a time beside a full recording: a pass, the evidence worker *)
(* or an export; beside a small one, a pass and an export together.  What   *)
(* was refused, and what began too early, is followed no further than its   *)
(* first consequences.                                                      *)
Worked == worker.batch # {} \/ \E e \in Telemetry : Processed(e) \in here
Full == run.saw.kids # {}
SmallRun ==
  /\ Recording => ~Worked
  /\ run.at # "returned" => ~Worked /\ (pass.count = 0 \/ bundle.count = 0 \/ Session \notin here)
  /\ Worked => pass.count = 0 /\ (Full => run.saw.orphans # {} /\ run.saw.files = {})
  /\ load.count > 0 => worker.batch = {}
  /\ refused > 0 => /\ ~Worked /\ early = {}
                    /\ pass.count > 0 => pass.step = 0 /\ bundle.count = 0
                    /\ bundle.count > 0 => load.count > 0
  /\ large # {} => /\ (Recording \/ run.at = "returned")
                   /\ ~Worked /\ refused = 0 /\ early = {}
  /\ early # {} => /\ ~Full /\ run.saw.files = {} /\ ~Worked /\ run.at # "killed"
                   /\ pass.count = 0 \/ bundle.count = 0

(* While a pass or a dump is on its way the recorder waits.                 *)
Calm ==
  (pass.step # 0 /\ pass'.step # 0) \/ (bundle.at = "dumping" /\ bundle'.at = "dumping")
    => run'.next = run.next

VARIABLE side
MCInit == Init /\ StoreInit /\ side \in {"spool", "run"} /\ (side = "spool" => large = {})
MCNext ==
  \/ side = "spool" /\ Next /\ UNCHANGED storeVars /\ UNCHANGED side
  \/ side = "run" /\ StoreNext /\ UNCHANGED vars /\ UNCHANGED side
MCSpec == MCInit /\ [][MCNext]_<<vars, storeVars, side>>
=============================================================================
