---------------------------- MODULE LayaProgram ----------------------------
(* Production and laboratory: the shadow classifier observes, its rows are *)
(* exported, and what was exported is what the blind review shows.         *)
EXTENDS LayaShadow, LabelPipeline

ASSUME ExportAssumption == Mails \subseteq Msgs

vars == <<shadowVars, labelVars>>

Init == ShadowInit /\ LabelInit

(* The predictions worth a second look: those with a label. *)
Exported == {m \in Mails : \E v \in ModelVersions : rows[<<m, v>>] \in Labels}

(* The export comes after the observation: the calls are made and settled. *)
Observed == next > Len(Calls) /\ Busy = {}

Next ==
  \/ ShadowNext /\ UNCHANGED labelVars
  \/ Observed /\ LabelNext(Exported) /\ UNCHANGED shadowVars

Spec == Init /\ [][Next]_vars

(* Every variable keeps its type. *)
TypeOK == ShadowTypeOK /\ LabelTypeOK
=============================================================================
