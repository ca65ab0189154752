----------------------------- MODULE MCQueryApi -----------------------------
(* Instances of QueryApi for TLC. *)
EXTENDS QueryApi, TLC

Row(segment, gender, texts, tags, opt) ==
    [segment |-> segment, gender |-> gender, language |-> "en", opt_out_whatsapp |-> opt, opt_out_email |-> opt,
     opt_out_call |-> FALSE, city |-> texts, state |-> texts, industry |-> texts,
     sector |-> {}, company_name |-> texts, tags |-> tags]

\* Contacts that tell the columns apart a form may name.
MCContact ==
    (1 :> Row("s", "f", {"pune"}, {"vip"}, FALSE)) @@ (2 :> Row("s", "", {"delhi"}, {}, TRUE))
        @@ (3 :> Row("t", None, {}, {"vip", "old"}, FALSE))

MCUses == {[campaign |-> "spring", type |-> "email", at |-> 1]}

MCJobRows ==
    {[status |-> "queued", total |-> 0, processed |-> 0, failed |-> 0],
     [status |-> "done", total |-> 2, processed |-> 1, failed |-> 1]}

MCUploadDay == (1 :> 1) @@ (2 :> 3)

MCTrimmed == ("s " :> "s") @@ ("pune " :> "pune") @@ ("spring " :> "spring") @@ ("  " :> None)

\* One field at a time, and a segment with a campaign; texts with blanks around them.
MCForms ==
    {NoFilter,
     [NoFilter EXCEPT !.segment = "s", !.not_in_campaign = "spring"]}
    \union {[NoFilter EXCEPT ![field] = "pune"] :
                field \in {"city", "state", "industry", "company_name"}}
    \union {[NoFilter EXCEPT !.opt_out_email = opt] : opt \in BOOLEAN}
    \union {[NoFilter EXCEPT !.opt_out_whatsapp = FALSE, !.language = "en"],
            [NoFilter EXCEPT !.opt_out_whatsapp = TRUE],
            [NoFilter EXCEPT !.tags = {"vip"}], [NoFilter EXCEPT !.segment = "t"],
            [NoFilter EXCEPT !.in_campaign = "spring"],
            [NoFilter EXCEPT !.last_used_before = 1]}
    \union {[NoFilter EXCEPT !.segment = "s "], [NoFilter EXCEPT !.city = "pune "],
            [NoFilter EXCEPT !.in_campaign = "spring "],
            [NoFilter EXCEPT !.not_in_campaign = "spring "],
            [NoFilter EXCEPT !.industry = "  "]}

MCPageForms == {NoFilter, [NoFilter EXCEPT !.segment = "s", !.not_in_campaign = "spring"]}

MCWalkFilters == {NoFilter, [NoFilter EXCEPT !.not_in_campaign = "spring"]}

MCDashboards ==
    {{"total", "segment", "gender"}, {"total", "filled", "city", "gender"},
     {"total", "optOut", "tagged"}, {"total", "jobStats", "activity"}}
=============================================================================
