------------------------------ MODULE Taxonomy ------------------------------
(* The two category vocabularies, what each category is routed to, and the *)
(* mapping of the first to the second.  Categories are named here by the   *)
(* English keys of the deployed questions dictionaries; "advertising" is   *)
(* the one v1 category whose key, marketing, names another one in v2.      *)

CategoryV1 ==
  {"card_transaction", "card_summary", "points_summary", "subscription",
   "tech_article", "event_info", "meeting_invite", "bill_due", "advertising",
   "promotion", "social", "news", "security_alert", "stock_info", "survey",
   "other"}

CategoryV2 ==
  {"transaction_receipt", "account_summary", "bill_due", "service_notice",
   "calendar_event", "security_alert", "public_alert", "investment_account",
   "newsletter", "marketing", "social", "career", "survey", "other"}

Versions == {"v1", "v2"}
Categories(version) == IF version = "v1" THEN CategoryV1 ELSE CategoryV2

(* Categories absent from a version's routes go to notify. *)
VerticalFor(version, c) ==
  CASE version = "v1" /\ c \in {"card_transaction", "bill_due"} -> "expense"
    [] version = "v1" /\ c \in {"meeting_invite", "event_info"} -> "calendar"
    [] version = "v2" /\ c \in {"transaction_receipt", "bill_due"} -> "expense"
    [] version = "v2" /\ c = "calendar_event" -> "calendar"
    [] OTHER -> "notify"

(* taxonomy_mappings, the rows of mapping_rev 1 from v1. *)
Exact ==
  {"card_transaction", "promotion", "meeting_invite", "tech_article", "survey",
   "social"}

V1ToV2(c) ==
  CASE c = "card_transaction" -> "transaction_receipt"
    [] c \in {"promotion", "advertising"} -> "marketing"
    [] c \in {"meeting_invite", "event_info"} -> "calendar_event"
    [] c \in {"tech_article", "news"} -> "newsletter"
    [] c \in {"points_summary", "card_summary"} -> "account_summary"
    [] c = "stock_info" -> "investment_account"
    [] c = "subscription" -> "service_notice"
    [] OTHER -> c

(* email_category_current: the current version, read in the newest taxonomy. *)
MappedTo(version, c) == IF version = "v2" THEN c ELSE V1ToV2(c)
IsExact(version, c) == version = "v2" \/ c \in Exact
=============================================================================
