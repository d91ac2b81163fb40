------------------------------ MODULE MCCommit ------------------------------
(***************************************************************************)
(* The two things a commit of the scheduler rests on: what it learns of    *)
(* its exports, and the store it then sets the cursor in.  They share no   *)
(* state, so a behaviour is about one of them and the other stays as it    *)
(* starts; Scheduler puts the two in order.                                *)
(***************************************************************************)
EXTENDS ExportCommit, CheckpointFile

VARIABLE half   \* the one the behaviour is about
both == <<half, vars, fileVars>>

BothInit == half \in {"export", "store"} /\ Init /\ FileInit

BothNext ==
  \/ half = "export" /\ Next /\ UNCHANGED <<half, fileVars>>
  \/ half = "store" /\ FileNext /\ UNCHANGED <<half, vars>>

\* In a behaviour about the store no export runs, so Fairness asks nothing of it.
BothSpec == BothInit /\ [][BothNext]_both /\ Fairness
=============================================================================
