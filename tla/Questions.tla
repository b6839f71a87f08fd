------------------------------ MODULE Questions ------------------------------
(* The dictionary of the question laya is asked: what load_questions_file  *)
(* accepts at the start of the process, the choices it offers, what a      *)
(* choice stands for, and when that agrees with the category of the LLM.   *)
(* A dictionary has a version, the keys of its criteria, and label_map.    *)
EXTENDS Taxonomy

CalendarMerge == {"event_info", "meeting_invite"}
CalendarLabel == "calendar_event"
CalendarZh == "calendar_event"
CalendarZhMembers == {"event_info", "meeting_invite"}

Image(d) == {d.label_map[en] : en \in DOMAIN d.label_map}

(* What does not raise QuestionsDictError under TAXONOMY_VERSION. *)
Accepted(d, version) ==
  /\ d.version = version /\ version \in Versions
  /\ d.criteria = DOMAIN d.label_map
  /\ Image(d) = Categories(d.version)
  /\ \A p, q \in DOMAIN d.label_map : d.label_map[p] = d.label_map[q] => p = q

(* A v1 dictionary offers one label for both calendar categories. *)
Kept(d) == {en \in DOMAIN d.label_map :
              en \notin CalendarMerge /\ en # CalendarLabel}

Criteria(d) ==
  IF d.version # "v1" THEN d.criteria
  ELSE (d.criteria \ CalendarMerge) \cup {CalendarLabel}

ZhByEn(d) ==
  IF d.version # "v1" THEN d.label_map
  ELSE [en \in Kept(d) \cup {CalendarLabel} |->
          IF en = CalendarLabel THEN CalendarZh ELSE d.label_map[en]]

IsAgreement(layaZh, llmZh, version) ==
  \/ layaZh = llmZh
  \/ version = "v1" /\ layaZh = CalendarZh /\ llmZh \in CalendarZhMembers

(* Not checked at the start, and needed: the two keys that are merged stand *)
(* for the two calendar categories, and no third key has the merged name.   *)
MergesTheCalendar(d) ==
  d.version = "v1" =>
    /\ CalendarLabel \notin DOMAIN d.label_map
    /\ \A en \in DOMAIN d.label_map :
         en \in CalendarMerge => d.label_map[en] \in CalendarZhMembers

(* The dictionaries that are deployed. *)
DictV1 ==
  LET keys == (CategoryV1 \ {"advertising"}) \cup {"marketing"}
  IN  [version |-> "v1", criteria |-> keys,
       label_map |-> [en \in keys |-> IF en = "marketing" THEN "advertising" ELSE en]]
DictV2 ==
  [version |-> "v2", criteria |-> CategoryV2,
   label_map |-> [en \in CategoryV2 |-> en]]

(* What is deployed is accepted, and merges the calendar. *)
ASSUME Deployed ==
  \A d \in {DictV1, DictV2} : Accepted(d, d.version) /\ MergesTheCalendar(d)
=============================================================================
