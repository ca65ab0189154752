------------------------------ MODULE Insights ------------------------------
(***************************************************************************)
(* The dashboard: what the fourteen statements of getInsights return, what  *)
(* is sent of it, and what the page draws.                                  *)
(*                                                                          *)
(* Abstracted: the thirteen columns whose completeness is shown are the      *)
(* five text columns and the gender; a day is a number.  What is drawn in   *)
(* several cards the same way is drawn once.                                 *)
(***************************************************************************)
EXTENDS ContactFilters, FiniteSets, FiniteSetsExt

CONSTANTS
    Contact,      \* what the contact of each id holds
    UploadDay,    \* the day each job was created
    FirstDay,     \* NOW() - INTERVAL '30 days'
    TopRows       \* LIMIT 10

Grouped == {"segment", "language", "gender"}
Filled == Texts \union {"gender"}
OptOuts == {"opt_out_whatsapp", "opt_out_email", "opt_out_call"}
Status == {"queued", "processing", "done", "failed"}
InsightsStatements ==
    Grouped \union Texts \union {"total", "optOut", "filled", "tagged", "jobStats", "activity"}

\* NULL is no text, and None elsewhere; the empty string holds no other text.
IsNull(column, value) == IF column \in Texts THEN value = {} ELSE value = None
IsBlank(column, value) == IF column \in Texts THEN value = {""} ELSE value = ""

CountOf(ids, column, value) == Cardinality({id \in ids : Contact[id][column] = value})
Having(ids, column) == {id \in ids : ~IsNull(column, Contact[id][column])}
Tagged(ids) == {id \in ids : Contact[id].tags # {}}

Sum(f, keys) == MapThenSumSet(LAMBDA key : f[key], keys)

(***************************************************************************)
(* The statements: the set of what each may return                         *)
(***************************************************************************)

\* GROUP BY a column; only the gender's and the texts' NULLs are left out.
Groups(ids, column) ==
    [value \in {Contact[id][column] : id \in
                    IF column \in {"segment", "language"} THEN ids ELSE Having(ids, column)}
        |-> CountOf(ids, column, value)]

\* ORDER BY count DESC LIMIT 10 chooses freely among equals.
Tops(groups) ==
    {[value \in values |-> groups[value]] : values \in
        {some \in SUBSET DOMAIN groups :
            /\ Cardinality(some) <= TopRows
            /\ \A out \in DOMAIN groups \ some :
                /\ Cardinality(some) = TopRows
                /\ \A in \in some : groups[out] <= groups[in]}}

JobStats(jobs) ==
    [total |-> Cardinality(DOMAIN jobs),
     status |-> [s \in Status |-> Cardinality({job \in DOMAIN jobs : jobs[job].status = s})],
     rows |-> [column \in {"total", "processed", "failed"} |->
                  Sum([job \in DOMAIN jobs |-> jobs[job][column]], DOMAIN jobs)]]

\* The jobs of the last thirty days, a row for each day that has some
Activity(jobs) ==
    LET Of(day) == {job \in DOMAIN jobs : UploadDay[job] = day}
    IN  [day \in {UploadDay[job] : job \in DOMAIN jobs} \ 0 .. FirstDay - 1 |->
            [jobs |-> Cardinality(Of(day)),
             rows |-> Sum([job \in DOMAIN jobs |-> jobs[job].total], Of(day))]]

InsightsReturn(statement, ids, jobs) ==
    CASE statement = "total" -> {Cardinality(ids)}
      [] statement \in Grouped -> {Groups(ids, statement)}
      [] statement \in Texts -> Tops(Groups(ids, statement))
      [] statement = "optOut" ->
            {[switch \in OptOuts |-> CountOf(ids, switch, TRUE)]}
      [] statement = "filled" ->
            {[column \in Filled |-> Cardinality(Having(ids, column))]}
      [] statement = "tagged" ->
            {[tagged |-> Cardinality(Tagged(ids)), untagged |-> Cardinality(ids \ Tagged(ids))]}
      [] statement = "jobStats" -> {JobStats(jobs)}
      [] statement = "activity" -> {Activity(jobs)}

(***************************************************************************)
(* The answer and the page                                                 *)
(***************************************************************************)

\* toDistribution leaves empty labels out, after the LIMIT.
ToDistribution(column, groups) ==
    [value \in {v \in DOMAIN groups : ~IsNull(column, v) /\ ~IsBlank(column, v)}
        |-> groups[value]]

\* Math.round of a percentage
Percent(count, total) == (200 * count + total) \div (2 * total)

\* "prevent divide-by-zero"
Completeness(filled, total) ==
    [column \in Filled |-> Percent(filled[column], IF total = 0 THEN 1 ELSE total)]

\* pct of the page is capped; what the server sends for completeness is not.
Pct(count, total) ==
    IF total = 0 THEN 0 ELSE IF Percent(count, total) > 100 THEN 100 ELSE Percent(count, total)

MaxOf(counts) == Max({1} \union counts)
Counts(distribution) == {distribution[value] : value \in DOMAIN distribution}

\* The large numbers at the top, with their share
Kpis(answer) ==
    [share \in OptOuts \union {"tagged"} |->
        Pct(IF share = "tagged" THEN answer.tagged.tagged ELSE answer.optOut[share], answer.total)]

\* The bars of segments and languages are shares of all contacts,
Shares(distribution, total) ==
    [value \in DOMAIN distribution |-> Pct(distribution[value], total)]

\* the others, of the top lists, shares of the longest.
BarsOfLongest(distribution) == Shares(distribution, MaxOf(Counts(distribution)))

\* buildSlices: each slice of a ring begins where the one before it ends.
RingEnd(slices, total) == IF total = 0 THEN 0 ELSE Percent(Sum(slices, DOMAIN slices), total)

\* The bars of the last thirty days
Days(activity) ==
    [day \in DOMAIN activity |->
        Pct(activity[day].rows, MaxOf({activity[d].rows : d \in DOMAIN activity}))]
=============================================================================
