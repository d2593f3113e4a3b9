------------------------------ MODULE MCShared ------------------------------
(* Two models of processes that share the data dir and no lock, side by     *)
(* side in one run.  They have no variable in common: a behaviour is one of *)
(* Ingest's or one of Forks', as side says.                                 *)
EXTENDS Forks, Ingest

(* Ingest: a streaming process (s, of run r1) beside one that takes in      *)
(* whole files (t) and infers their run.  The two overlap each other, or a  *)
(* third party evaluates and prunes, but not both in one behaviour, and     *)
(* what the histories excuse is cut off.                                    *)
CONSTANTS s, t, r1, r2

MCConfigured(i) == IF i = s THEN r1 ELSE NoRun
Others == Pruning \/ judged # NoEvent \/ db.decided # {}
SmallIngest ==
  /\ ~overlap
  /\ raced # {} => ~Others /\ clock <= 3
  /\ Others => Cardinality(db.decided) <= 1 /\ clock <= 3
  /\ faults > 0 => raced = {} /\ clock <= 3 /\ (Others => clock <= 2)
  /\ \A b \in db.batches : b.ids = {} => Cardinality(db.batches) = 1

(* Forks: two clients.  Edits of the workspace, failures and several        *)
(* attempts come one kind at a time.                                        *)
Forked == Cardinality(DOMAIN attempt)
Edited == dir[Live] # [f \in Files |-> IF f = Ready THEN Absent ELSE 1]
SmallForks ==
  /\ Edited => /\ failures = 0 /\ Forked = 0
               /\ \A c \in Clients : request[c].kind \in {"none", "session"}
  /\ failures > 0 => Forked <= 2
  /\ Forked > 0 => \A c \in Clients : request[c].kind \in {"none", "fork"}

VARIABLE side
MCInit == Init /\ IngestInit /\ side \in {"ingest", "forks"}
MCNext ==
  \/ side = "ingest" /\ IngestNext /\ UNCHANGED <<vars, side>>
  \/ side = "forks" /\ Next /\ UNCHANGED ingestVars /\ UNCHANGED side
MCSpec == MCInit /\ [][MCNext]_<<vars, ingestVars, side>>

Small == SmallIngest /\ SmallForks
=============================================================================
