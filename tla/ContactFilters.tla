-------------------------- MODULE ContactFilters ---------------------------
(***************************************************************************)
(* Which contacts a filter selects: what the clients put into a filter      *)
(* (search and exportParams of the query builder, search of the widget),    *)
(* what each route takes over, and which conditions queryContacts and        *)
(* streamContactsQuery make of it.                                          *)
(*                                                                          *)
(* Abstracted: a filter is a function of the fields; None is a field that   *)
(* is not given.  A text column is the set of the texts that occur in it    *)
(* (ilike '%text%'), a list of tags is a set, a date is a number.           *)
(***************************************************************************)
EXTENDS Integers

CONSTANTS
    None,
    Trimmed       \* of each text with blanks around it, what is left without them, and
                  \* None for one that is all blanks: "" is no condition to the routes

Equal == {"segment", "language", "opt_out_whatsapp", "opt_out_email", "opt_out_call"}
Texts == {"city", "state", "industry", "sector", "company_name"}
Lists == {"tags", "tags_any", "used_in_types"}
Campaigns == {"in_campaign", "not_in_campaign", "last_used_before"}
Fields == Equal \union Texts \union Lists \union Campaigns

NoFilter == [field \in Fields |-> None]

Only(filter, fields) == [field \in Fields |-> IF field \in fields THEN filter[field] ELSE None]

(***************************************************************************)
(* The conditions                                                          *)
(***************************************************************************)

\* used are the rows of campaign_history of the contact.
Holds(field, value, contact, used) ==
    CASE field \in Equal -> contact[field] = value
      [] field \in Texts -> value \in contact[field]
      [] field = "tags" -> value \subseteq contact.tags
      [] field = "tags_any" -> value \intersect contact.tags # {}
      [] field = "used_in_types" -> \E use \in used : use.type \in value
      [] field = "in_campaign" -> \E use \in used : use.campaign = value
      [] field = "not_in_campaign" -> \A use \in used : use.campaign # value
      [] field = "last_used_before" -> \A use \in used : use.at < value

\* An empty list is no condition.
Given(field, value) == value # None /\ (field \in Lists => value # {})

Selects(filter, fields, contact, used) ==
    \A field \in fields :
        Given(field, filter[field]) => Holds(field, filter[field], contact, used)

\* applyFilters of queryContacts
QuerySelects(filter, contact, used) == Selects(filter, Fields, contact, used)

\* streamContactsQuery: no sector, and no opt_out_call
StreamSelects(filter, contact, used) ==
    Selects(filter, Fields \ {"sector", "opt_out_call"}, contact, used)

(***************************************************************************)
(* The clients and the routes                                              *)
(***************************************************************************)

\* The form of the query builder; its page has no input for tags_any, but it is sent.
FormFields == {"segment", "company_name", "industry", "city", "state", "tags", "tags_any",
               "language", "opt_out_whatsapp", "opt_out_email"} \union Campaigns

SearchFilter(form) == Only(form, FormFields)

\* Fault: the campaigns are not exported.
ExportWithoutCampaigns(form) ==
    [Only(form, FormFields \ Campaigns) EXCEPT !.opt_out_whatsapp = IF @ = TRUE THEN None ELSE @]

\* exportParams leaves tags_any out, and "Opted out" of WhatsApp.
ExportParams(form) ==
    [Only(form, FormFields \ {"tags_any"}) EXCEPT !.opt_out_whatsapp = IF @ = TRUE THEN None ELSE @]

\* POST /api/query
QueryRoute(filter) == Only(filter, Fields)

Trim(text) == IF text \in DOMAIN Trimmed THEN Trimmed[text] ELSE text

TrimmedFields == {"segment", "language", "company_name", "industry", "city", "state",
                  "in_campaign", "not_in_campaign"}

\* GET /api/export trims what POST /api/query does not.  (Both sides split and trim tags.)
ExportRoute(params) ==
    [field \in Fields |->
        IF field \in TrimmedFields THEN Trim(params[field])
        ELSE IF field \in FormFields \ {"tags_any"} THEN params[field]
        ELSE None]

\* POST /api/public/query
PublicRoute(filter) == Only(filter, Equal \union {"tags", "tags_any", "city", "state", "industry"})

WidgetFields == {"segment", "tags", "tags_any", "language"}
WidgetSwitches == {"opt_out_whatsapp", "opt_out_email"}

\* The widget: a switch that is off is no condition.
WidgetFilter(form) ==
    [field \in Fields |->
        IF field \in WidgetFields \/ (field \in WidgetSwitches /\ form[field] = TRUE)
        THEN form[field] ELSE None]
=============================================================================
