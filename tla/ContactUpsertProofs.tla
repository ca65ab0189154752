------------------------ MODULE ContactUpsertProofs -------------------------
(***************************************************************************)
(* Theorems about ContactUpsert, for batches of any length and tables of    *)
(* any size.  Every property that contact_upsert checks is proved here.     *)
(*                                                                          *)
(* Step 1 and the INSERT are folds over the rows.  A fold of the community  *)
(* modules is a recursive function chosen by CHOOSE: RowByRow and           *)
(* RowByRowBackwards show that it exists and unroll it into the sequence of *)
(* its intermediate values.  The facts about a batch are then inductions    *)
(* over its rows: what a row of the INSERT leaves true (OneMoreRow), what   *)
(* holds once they are all stored (FreshOutcome, StoredWhenApart).          *)
(***************************************************************************)
EXTENDS ContactUpsert, FiniteSetTheorems, WellFoundedInduction, TLAPS

(***************************************************************************)
(* The two folds                                                           *)
(***************************************************************************)

\* Induction over numbers, as a fact about sets of them.
LEMMA Induction ==
    ASSUME NEW S \in SUBSET Nat, 0 \in S, \A n \in S : n + 1 \in S
    PROVE  S = Nat
<1> DEFINE rest == Nat \ S
           less == {pair \in Nat \X Nat : pair[1] < pair[2]}
<1>1. IsWellFoundedOn(less, Nat) BY NatLessThanWellFounded DEF OpToRel
<1>2. SUFFICES ASSUME rest # {} PROVE FALSE OBVIOUS
<1>3. PICK least \in rest : \A n \in rest : <<n, least>> \notin less
    <2>1. rest \in SUBSET Nat OBVIOUS
    <2> HIDE DEF less, rest
    <2>2. QED BY <1>1, <1>2, <2>1, WFMin
<1>4. least \in Nat /\ least - 1 \in Nat /\ least - 1 + 1 = least BY <1>3
<1>5. <<least - 1, least>> \in less BY <1>4
<1>6. least - 1 \in S
    <2>1. least - 1 \notin rest BY <1>3, <1>5
    <2>2. QED BY <1>4, <2>1
<1>7. QED BY <1>3, <1>4, <1>6

StoreRows(base, entries) == FoldLeft(StoreRow, base, entries)

\* The INSERT takes the rows one after the other.
LEMMA RowByRow ==
    ASSUME NEW n \in Nat, NEW entries, DOMAIN entries = 1..n, NEW base
    PROVE  \E acc : /\ acc[0] = base
                    /\ \A i \in 1..n : acc[i] = StoreRow(acc[i - 1], entries[i])
                    /\ acc[n] = StoreRows(base, entries)
<1> DEFINE Next1(h, s) == IF s = {} THEN base
                          ELSE StoreRow(h[s \ {Max(s)}], entries[Max(s)])
           Folds(h, m) == h = [s \in SUBSET (1..m) |-> Next1(h, s)]
           total == CHOOSE h : Folds(h, n)
           known == {m \in Nat : \E h : Folds(h, m)}
<1>1. StoreRows(base, entries) = total[1..n]
    BY DEF StoreRows, FoldLeft, MapThenFoldSet
<1>2. 0 \in known
    <2> DEFINE h == [s \in SUBSET (1..0) |-> base]
    <2>1. h = [s \in SUBSET (1..0) |-> Next1(h, s)] OBVIOUS
    <2> HIDE DEF h
    <2>2. Folds(h, 0) BY <2>1
    <2>3. QED BY <2>2
<1>3. ASSUME NEW m \in known PROVE m + 1 \in known
    <2>1. PICK h : Folds(h, m) OBVIOUS
    <2> DEFINE g == [s \in SUBSET (1..(m + 1)) |->
                        IF m + 1 \in s THEN StoreRow(h[s \ {m + 1}], entries[m + 1])
                        ELSE h[s]]
    <2>2. ASSUME NEW s \in SUBSET (1..(m + 1)) PROVE g[s] = Next1(g, s)
        <3>1. m \in Nat /\ m + 1 \notin 1..m /\ \A x \in 1..(m + 1) : x # m + 1 => x \in 1..m
            OBVIOUS
        <3>2. CASE m + 1 \in s
            <4>1. Max(s) = m + 1
                <5>1. \A x \in s : x \in Int /\ x <= m + 1 BY <3>1
                <5>2. \A x \in s : (\A y \in s : x >= y) <=> x = m + 1 BY <3>2, <5>1
                <5>3. QED BY <3>2, <5>2 DEF Max
            <4>2. s \ {m + 1} \in SUBSET (1..(m + 1)) /\ m + 1 \notin s \ {m + 1} OBVIOUS
            <4>3. g[s \ {m + 1}] = h[s \ {m + 1}] BY <4>2
            <4>4. s # {} BY <3>2
            <4>5. g[s] = StoreRow(h[s \ {m + 1}], entries[m + 1]) BY <3>2
            <4> HIDE DEF g
            <4>6. QED BY <4>1, <4>3, <4>4, <4>5
        <3>3. CASE m + 1 \notin s
            <4>1. s \in SUBSET (1..m) BY <3>1, <3>3
            <4>2. h[s] = Next1(h, s) BY <2>1, <4>1
            <4>3. g[s] = h[s] BY <3>3
            <4>4. g[s \ {Max(s)}] = h[s \ {Max(s)}] BY <3>3
            <4> HIDE DEF g
            <4>5. QED BY <4>2, <4>3, <4>4
        <3>4. QED BY <3>2, <3>3
    <2>3. g = [s \in SUBSET (1..(m + 1)) |-> g[s]] OBVIOUS
    <2> HIDE DEF g
    <2>4. g = [s \in SUBSET (1..(m + 1)) |-> Next1(g, s)]
        <3> HIDE DEF Next1
        <3>1. QED BY <2>2, <2>3
    <2>5. Folds(g, m + 1) BY <2>4
    <2> HIDE DEF Folds
    <2>6. QED BY <2>5
<1>4. Folds(total, n)
    <2>1. known \in SUBSET Nat OBVIOUS
    <2>2. n \in known
        <3> HIDE DEF known
        <3>1. QED BY <1>2, <1>3, <2>1, Induction
    <2>3. QED BY <2>2
<1> DEFINE acc == [i \in 0..n |-> total[1..i]]
<1>5. acc[0] = base
    <2>1. 1..0 = {} /\ 0 \in 0..n OBVIOUS
    <2>2. acc[0] = total[1..0]
        <3> HIDE DEF total
        <3>1. QED BY <2>1
    <2> HIDE DEF total, acc
    <2>3. total[{}] = base BY <1>4
    <2>4. QED BY <2>1, <2>2, <2>3
<1>6. ASSUME NEW i \in 1..n PROVE acc[i] = StoreRow(acc[i - 1], entries[i])
    <2>1. 1..i \in SUBSET (1..n) /\ 1..i # {} /\ (1..i) \ {i} = 1..(i - 1)
        <3>1. i \in Nat /\ 1 <= i /\ i <= n OBVIOUS
        <3>2. \A x : x \in (1..i) \ {i} <=> x \in 1..(i - 1) BY <3>1
        <3>3. QED BY <3>1, <3>2
    <2>2. Max(1..i) = i
        <3>1. \A x \in 1..i : (\A y \in 1..i : x >= y) <=> x = i OBVIOUS
        <3>2. i \in 1..i OBVIOUS
        <3>3. QED BY <3>1, <3>2 DEF Max
    <2>3. total[1..i] = Next1(total, 1..i)
        <3> HIDE DEF total
        <3>1. QED BY <1>4, <2>1
    <2> HIDE DEF total
    <2>4. acc[i] = total[1..i] /\ acc[i - 1] = total[1..(i - 1)] OBVIOUS
    <2> HIDE DEF acc
    <2>5. QED BY <2>1, <2>2, <2>3, <2>4
<1>7. acc[n] = total[1..n] OBVIOUS
<1> HIDE DEF acc, total
<1>8. QED BY <1>1, <1>5, <1>6, <1>7

\* Step 1 keeps a row or drops it, from the last one to the first.
Keep(input, kept) ==
    IF \E later \in ToSet(kept) : SamePerson(input, later) THEN kept ELSE <<input>> \o kept

LEMMA RowByRowBackwards ==
    ASSUME NEW n \in Nat, NEW inputs, DOMAIN inputs = 1..n
    PROVE  \E kept : /\ kept[n + 1] = <<>>
                     /\ \A i \in 1..n : kept[i] = Keep(inputs[i], kept[i + 1])
                     /\ kept[1] = UniqueInputs(inputs)
<1> DEFINE Next1(h, s) == IF s = {} THEN <<>>
                          ELSE Keep(inputs[Min(s)], h[s \ {Min(s)}])
           Folds(h, m) == h = [s \in SUBSET ((n + 1 - m)..n) |-> Next1(h, s)]
           total == CHOOSE h : h = [s \in SUBSET (1..n) |-> Next1(h, s)]
           known == {m \in Nat : \E h : Folds(h, m)}
<1>1. UniqueInputs(inputs) = total[1..n]
    BY DEF UniqueInputs, Keep, FoldRight, MapThenFoldSet
<1>2. 0 \in known
    <2> DEFINE h == [s \in SUBSET ((n + 1 - 0)..n) |-> <<>>]
    <2>1. (n + 1 - 0)..n = {} OBVIOUS
    <2>2. h = [s \in SUBSET ((n + 1 - 0)..n) |-> Next1(h, s)] BY <2>1
    <2> HIDE DEF h
    <2>3. Folds(h, 0) BY <2>2
    <2>4. QED BY <2>3
<1>3. ASSUME NEW m \in known PROVE m + 1 \in known
    <2>1. PICK h : Folds(h, m) OBVIOUS
    <2> DEFINE first == n - m
               rows == (n + 1 - (m + 1))..n
               g == [s \in SUBSET rows |->
                        IF first \in s THEN Keep(inputs[first], h[s \ {first}]) ELSE h[s]]
    <2>2. ASSUME NEW s \in SUBSET rows PROVE g[s] = Next1(g, s)
        <3>1. /\ first \in Int /\ first \notin (n + 1 - m)..n
              /\ \A x \in rows : x \in Int /\ first <= x
              /\ \A x \in rows : x # first => x \in (n + 1 - m)..n
            OBVIOUS
        <3> HIDE DEF rows, first
        <3>2. CASE first \in s
            <4>1. Min(s) = first
                <5>1. \A x \in s : x \in Int /\ first <= x BY <3>1
                <5>2. \A x \in s : (\A y \in s : x <= y) <=> x = first BY <3>2, <5>1
                <5>3. QED BY <3>2, <5>2 DEF Min
            <4>2. s \ {first} \in SUBSET rows /\ first \notin s \ {first} OBVIOUS
            <4>3. g[s \ {first}] = h[s \ {first}] BY <4>2
            <4>4. s # {} BY <3>2
            <4>5. g[s] = Keep(inputs[first], h[s \ {first}]) BY <3>2
            <4> HIDE DEF g
            <4>6. QED BY <4>1, <4>3, <4>4, <4>5
        <3>3. CASE first \notin s
            <4>1. s \in SUBSET ((n + 1 - m)..n) BY <3>1, <3>3
            <4>2. h[s] = Next1(h, s) BY <2>1, <4>1
            <4>3. g[s] = h[s] BY <3>3
            <4>4. g[s \ {Min(s)}] = h[s \ {Min(s)}] BY <3>3
            <4> HIDE DEF g
            <4>5. QED BY <4>2, <4>3, <4>4
        <3>4. QED BY <3>2, <3>3
    <2>3. g = [s \in SUBSET rows |-> g[s]] OBVIOUS
    <2> HIDE DEF g
    <2>4. g = [s \in SUBSET rows |-> Next1(g, s)]
        <3> HIDE DEF Next1
        <3>1. QED BY <2>2, <2>3
    <2>5. Folds(g, m + 1) BY <2>4
    <2> HIDE DEF Folds
    <2>6. QED BY <2>5
<1>4. total = [s \in SUBSET (1..n) |-> Next1(total, s)]
    <2>1. known \in SUBSET Nat OBVIOUS
    <2>2. n \in known
        <3> HIDE DEF known
        <3>1. QED BY <1>2, <1>3, <2>1, Induction
    <2>3. PICK h : Folds(h, n) BY <2>2
    <2>4. n + 1 - n = 1 OBVIOUS
    <2>5. h = [s \in SUBSET (1..n) |-> Next1(h, s)] BY <2>3, <2>4
    <2> HIDE DEF Next1
    <2>6. QED BY <2>5
<1> DEFINE kept == [i \in 1..(n + 1) |-> total[i..n]]
<1>5. kept[n + 1] = <<>>
    <2>1. (n + 1)..n = {} /\ n + 1 \in 1..(n + 1) OBVIOUS
    <2>2. kept[n + 1] = total[(n + 1)..n]
        <3> HIDE DEF total
        <3>1. QED BY <2>1
    <2>3. total[{}] = <<>>
        <3> HIDE DEF total
        <3>1. QED BY <1>4
    <2> HIDE DEF total, kept
    <2>4. QED BY <2>1, <2>2, <2>3
<1>6. ASSUME NEW i \in 1..n PROVE kept[i] = Keep(inputs[i], kept[i + 1])
    <2>1. i..n \in SUBSET (1..n) /\ i..n # {} /\ (i..n) \ {i} = (i + 1)..n
        <3>1. i \in Nat /\ 1 <= i /\ i <= n OBVIOUS
        <3>2. \A x : x \in (i..n) \ {i} <=> x \in (i + 1)..n BY <3>1
        <3>3. QED BY <3>1, <3>2
    <2>2. Min(i..n) = i
        <3>1. \A x \in i..n : (\A y \in i..n : x <= y) <=> x = i OBVIOUS
        <3>2. i \in i..n OBVIOUS
        <3>3. QED BY <3>1, <3>2 DEF Min
    <2>3. total[i..n] = Next1(total, i..n)
        <3> HIDE DEF total
        <3>1. QED BY <1>4, <2>1
    <2> HIDE DEF total
    <2>4. kept[i] = total[i..n] /\ kept[i + 1] = total[(i + 1)..n]
        <3>1. i \in 1..(n + 1) /\ i + 1 \in 1..(n + 1) OBVIOUS
        <3>2. QED BY <3>1
    <2> HIDE DEF kept
    <2>5. QED BY <2>1, <2>2, <2>3, <2>4
<1>7. kept[1] = total[1..n]
    <2>1. 1 \in 1..(n + 1) OBVIOUS
    <2> HIDE DEF total
    <2>2. QED BY <2>1
<1> HIDE DEF kept, total
<1>8. QED BY <1>1, <1>5, <1>6, <1>7

(***************************************************************************)
(* The rows that step 1 keeps                                              *)
(***************************************************************************)

Apart(rows) == \A i, j \in DOMAIN rows : i # j => ~SamePerson(rows[i], rows[j])

LEMMA KeepApart ==
    ASSUME NEW kept \in Seq(Input), NEW input \in Input, Apart(kept)
    PROVE  /\ Keep(input, kept) \in Seq(Input)
           /\ ToSet(Keep(input, kept)) \subseteq {input} \union ToSet(kept)
           /\ Apart(Keep(input, kept))
<1>1. CASE \E later \in ToSet(kept) : SamePerson(input, later)
    BY <1>1 DEF Keep
<1>2. CASE ~ \E later \in ToSet(kept) : SamePerson(input, later)
    <2> DEFINE rows == <<input>> \o kept
    <2>1. Keep(input, kept) = rows BY <1>2 DEF Keep
    <2>2. /\ rows \in Seq(Input) /\ Len(rows) = Len(kept) + 1 /\ rows[1] = input
          /\ \A i \in 2..Len(rows) : i - 1 \in DOMAIN kept /\ rows[i] = kept[i - 1]
        OBVIOUS
    <2> HIDE DEF rows
    <2>3. DOMAIN rows = {1} \union 2..Len(rows) /\ Len(kept) \in Nat BY <2>2
    <2>4. ToSet(rows) \subseteq {input} \union ToSet(kept) BY <2>2, <2>3 DEF ToSet
    <2>5. ASSUME NEW i \in DOMAIN rows, NEW j \in DOMAIN rows, i # j
          PROVE  ~SamePerson(rows[i], rows[j])
        <3>1. CASE i = 1
            <4>1. rows[j] \in ToSet(kept) BY <2>2, <2>3, <2>5, <3>1 DEF ToSet
            <4>2. QED BY <1>2, <2>2, <3>1, <4>1
        <3>2. CASE j = 1
            <4>1. rows[i] \in ToSet(kept) BY <2>2, <2>3, <2>5, <3>2 DEF ToSet
            <4>2. QED BY <1>2, <2>2, <3>2, <4>1 DEF SamePerson
        <3>3. CASE i # 1 /\ j # 1
            <4>1. /\ i - 1 \in DOMAIN kept /\ rows[i] = kept[i - 1]
                  /\ j - 1 \in DOMAIN kept /\ rows[j] = kept[j - 1]
                BY <2>2, <2>3, <3>3
            <4>2. i - 1 # j - 1 BY <2>3, <2>5
            <4>3. QED BY <4>1, <4>2 DEF Apart
        <3>4. QED BY <3>1, <3>2, <3>3
    <2>6. QED BY <2>1, <2>2, <2>4, <2>5 DEF Apart
<1>3. QED BY <1>1, <1>2

LEMMA KeptRows ==
    ASSUME NEW inputs \in Seq(Input)
    PROVE  /\ UniqueInputs(inputs) \in Seq(Input)
           /\ ToSet(UniqueInputs(inputs)) \subseteq ToSet(inputs)
           /\ Apart(UniqueInputs(inputs))
<1> DEFINE n == Len(inputs)
           Good(kept) == /\ kept \in Seq(Input) /\ ToSet(kept) \subseteq ToSet(inputs)
                         /\ Apart(kept)
<1>1. n \in Nat /\ DOMAIN inputs = 1..n OBVIOUS
<1>2. PICK kept : /\ kept[n + 1] = <<>>
                  /\ \A i \in 1..n : kept[i] = Keep(inputs[i], kept[i + 1])
                  /\ kept[1] = UniqueInputs(inputs)
    <2> HIDE DEF n
    <2>1. QED BY <1>1, RowByRowBackwards
<1>3. \A i \in 1..n : inputs[i] \in Input /\ inputs[i] \in ToSet(inputs) BY DEF ToSet
<1> HIDE DEF n
<1> DEFINE known == {m \in Nat : m <= n => Good(kept[n + 1 - m])}
<1>4. 0 \in known
    <2>1. Good(<<>>) BY DEF ToSet, Apart
    <2>2. n + 1 - 0 = n + 1 BY <1>1
    <2>3. QED BY <1>2, <2>1, <2>2
<1>5. ASSUME NEW m \in known PROVE m + 1 \in known
    <2>1. SUFFICES ASSUME m + 1 <= n PROVE Good(kept[n + 1 - (m + 1)]) OBVIOUS
    <2> DEFINE i == n - m
    <2>2. i \in 1..n /\ i + 1 = n + 1 - m /\ n + 1 - (m + 1) = i /\ m <= n BY <1>1, <2>1
    <2> HIDE DEF i, Good
    <2>3. Good(kept[i + 1]) BY <2>2
    <2>4. kept[i] = Keep(inputs[i], kept[i + 1]) BY <1>2, <2>2
    <2>5. Good(kept[i]) BY <1>3, <2>2, <2>3, <2>4, KeepApart DEF Good
    <2>6. QED BY <2>2, <2>5
<1>6. n \in known
    <2>1. known \in SUBSET Nat OBVIOUS
    <2> HIDE DEF known
    <2>2. QED BY <1>1, <1>4, <1>5, <2>1, Induction
<1>7. Good(kept[1])
    <2>1. n <= n /\ n + 1 - n = 1 BY <1>1
    <2> HIDE DEF Good
    <2>2. QED BY <1>6, <2>1
<1>8. QED BY <1>2, <1>7

(***************************************************************************)
(* One row of the INSERT                                                   *)
(***************************************************************************)

LEMMA NewIdFree ==
    ASSUME NEW table, IsFiniteSet(DOMAIN table)
    PROVE  NewId(table) \notin DOMAIN table
<1> DEFINE n == Cardinality(DOMAIN table)
<1>1. n \in Nat BY FS_CardinalityType
<1> HIDE DEF n
<1>2. Cardinality(1..(n + 1)) = n + 1 BY <1>1, FS_Interval
<1>3. \E id \in 1..(n + 1) : id \notin DOMAIN table
    <2>1. SUFFICES ASSUME 1..(n + 1) \in SUBSET DOMAIN table PROVE FALSE OBVIOUS
    <2>2. n + 1 <= n BY <1>2, <2>1, FS_Subset DEF n
    <2>3. QED BY <1>1, <2>2
<1>4. QED BY <1>3 DEF NewId, n

LEMMA FoundContacts ==
    ASSUME NEW inputs, NEW table
    PROVE  /\ DOMAIN Matching(inputs, table) =
                {id \in DOMAIN table : \E input \in ToSet(UniqueInputs(inputs)) :
                    SamePerson(input, table[id])}
           /\ \A id \in DOMAIN Matching(inputs, table) :
                Matching(inputs, table)[id] = table[id]
BY DEF Matching, RestrictValues, Restrict

LEMMA MergeTyped ==
    ASSUME NEW input \in Input, NEW found, found \in [DOMAIN found -> Contact],
           NEW source \in Writers
    PROVE  Merge(input, found, source) \in Contact
<1>1. Target(input, found) # {} =>
        (CHOOSE id \in Target(input, found) : TRUE) \in DOMAIN found
    BY DEF Target, ByPhone, ByEmail
<1>2. OldValue(input, found, "email", NoEmail) \in Emails \union {NoEmail}
    BY <1>1 DEF OldValue, Contact
<1>3. OldValue(input, found, "opt", "no") \in {"yes", "no"}
    BY <1>1 DEF OldValue, Contact
<1>4. MergeEmail(input, found) \in Emails \union {NoEmail}
    BY <1>2 DEF MergeEmail, Input
<1>5. MergeOpt(input, found) \in {"yes", "no"}
    BY <1>3 DEF MergeOpt, Input
<1>6. QED BY <1>4, <1>5 DEF Merge, Contact, Input

\* What an INSERT under way has done: whether it goes well, the ids it has stored, and
\* the table.
State(acc) == acc = [ok |-> acc.ok, touched |-> acc.touched, table |-> acc.table]

RowId(acc, entry) ==
    IF entry.ids = {} THEN NewId(acc.table) ELSE CHOOSE i \in entry.ids : TRUE

Fits(acc, entry) ==
    /\ RowId(acc, entry) \notin acc.touched
    /\ \A other \in DOMAIN acc.table \ {RowId(acc, entry)} :
            ~SamePerson(entry.contact, acc.table[other])

LEMMA StoreOneRow ==
    ASSUME NEW acc, State(acc), acc.ok \in BOOLEAN, Keyed(acc.table),
           NEW entry, entry.contact \in Contact
    PROVE  LET next == StoreRow(acc, entry)
               id == RowId(acc, entry)
           IN  /\ State(next) /\ next.ok \in BOOLEAN /\ Keyed(next.table)
               /\ next.ok <=> acc.ok /\ Fits(acc, entry)
               /\ next.ok =>
                    /\ next.touched = acc.touched \union {id}
                    /\ DOMAIN next.table = DOMAIN acc.table \union {id}
                    /\ next.table[id] = entry.contact
                    /\ \A other \in DOMAIN acc.table \ {id} :
                        next.table[other] = acc.table[other]
<1> DEFINE next == StoreRow(acc, entry)
           id == RowId(acc, entry)
<1>1. CASE acc.ok /\ Fits(acc, entry)
    <2> DEFINE stored == [i \in DOMAIN acc.table \union {id} |->
                            IF i = id THEN entry.contact ELSE acc.table[i]]
    <2>1. next = [ok |-> TRUE, touched |-> acc.touched \union {id}, table |-> stored]
        BY <1>1 DEF StoreRow, RowId, Fits
    <2>2. Keyed(stored)
        <3>1. stored \in [DOMAIN stored -> Contact] BY DEF Keyed
        <3>2. IsFiniteSet(DOMAIN stored) BY FS_AddElement DEF Keyed
        <3>3. ASSUME NEW i \in DOMAIN stored, NEW j \in DOMAIN stored, i # j
              PROVE  ~SamePerson(stored[i], stored[j])
            BY <1>1, <3>3 DEF Fits, Keyed, SamePerson
        <3>4. QED BY <3>1, <3>2, <3>3 DEF Keyed
    <2>3. /\ DOMAIN stored = DOMAIN acc.table \union {id} /\ stored[id] = entry.contact
          /\ \A other \in DOMAIN acc.table \ {id} : stored[other] = acc.table[other]
        OBVIOUS
    <2> HIDE DEF stored, id
    <2>4. next.ok /\ next.touched = acc.touched \union {id} /\ next.table = stored /\ State(next)
        BY <2>1 DEF State
    <2> HIDE DEF next
    <2>5. QED BY <1>1, <2>2, <2>3, <2>4 DEF next, id
<1>2. CASE ~(acc.ok /\ Fits(acc, entry))
    <2>1. next = [acc EXCEPT !.ok = FALSE]
        BY <1>2 DEF StoreRow, RowId, Fits
    <2>2. next = [ok |-> FALSE, touched |-> acc.touched, table |-> acc.table]
        BY <2>1 DEF State
    <2>3. next.ok = FALSE /\ next.table = acc.table /\ State(next) BY <2>2 DEF State
    <2> HIDE DEF next
    <2>4. QED BY <1>2, <2>3 DEF next
<1>3. QED BY <1>1, <1>2

(***************************************************************************)
(* The whole INSERT                                                        *)
(***************************************************************************)

Chosen(input, found) == CHOOSE id \in Target(input, found) : TRUE

\* The row is stored under the id, which is that of its target, or a new one.
Holds(acc, id, input, found, table, source) ==
    /\ IF Target(input, found) = {} THEN id \notin DOMAIN table
       ELSE id = Chosen(input, found)
    /\ acc.table[id] = Merge(input, found, source)

\* After n rows each of them is stored under an id of its own, and the rest of the
\* table is as it was.
Progress(acc, n, kept, found, table, source) ==
    /\ DOMAIN acc.table = DOMAIN table \union acc.touched
    /\ \A id \in DOMAIN acc.table \ acc.touched : acc.table[id] = table[id]
    /\ \A k \in 1..n : \E id \in acc.touched : Holds(acc, id, kept[k], found, table, source)
    /\ \A id \in acc.touched : \E k \in 1..n : Holds(acc, id, kept[k], found, table, source)
    /\ \A j, k \in 1..n :
        j # k /\ Target(kept[j], found) # {} /\ Target(kept[k], found) # {} =>
            Chosen(kept[j], found) # Chosen(kept[k], found)

Entry(input, found, source) ==
    [ids |-> Target(input, found), contact |-> Merge(input, found, source)]

LEMMA OneMoreRow ==
    ASSUME NEW n \in Nat, NEW kept, NEW found, NEW table, NEW source, NEW acc, NEW next,
           Progress(acc, n, kept, found, table, source), IsFiniteSet(DOMAIN acc.table),
           NEW id, id = RowId(acc, Entry(kept[n + 1], found, source)), id \notin acc.touched,
           next.touched = acc.touched \union {id},
           DOMAIN next.table = DOMAIN acc.table \union {id},
           next.table[id] = Merge(kept[n + 1], found, source),
           \A other \in DOMAIN acc.table \ {id} : next.table[other] = acc.table[other]
    PROVE  Progress(next, n + 1, kept, found, table, source)
<1> DEFINE input == kept[n + 1]
<1>1. 1..(n + 1) = 1..n \union {n + 1} OBVIOUS
<1>2. Holds(next, id, input, found, table, source)
    <2>1. CASE Target(input, found) = {}
        <3>1. id \notin DOMAIN acc.table BY <2>1, NewIdFree DEF RowId, Entry
        <3>2. QED BY <2>1, <3>1 DEF Holds, Progress
    <2>2. CASE Target(input, found) # {}
        BY <2>2 DEF Holds, RowId, Entry, Chosen
    <2>3. QED BY <2>1, <2>2
<1>3. \A other \in acc.touched : other # id /\ other \in DOMAIN acc.table BY DEF Progress
<1>4. ASSUME NEW other \in acc.touched, NEW k \in 1..n,
             Holds(acc, other, kept[k], found, table, source)
      PROVE  Holds(next, other, kept[k], found, table, source)
    BY <1>3, <1>4 DEF Holds
<1>5. ASSUME NEW k \in 1..n, Target(kept[k], found) # {}, Target(input, found) # {}
      PROVE  Chosen(kept[k], found) # Chosen(input, found)
    <2>1. PICK other \in acc.touched : Holds(acc, other, kept[k], found, table, source)
        BY DEF Progress
    <2>2. other = Chosen(kept[k], found) BY <1>5, <2>1 DEF Holds
    <2>3. id = Chosen(input, found) BY <1>2, <1>5 DEF Holds
    <2>4. QED BY <1>3, <2>2, <2>3
<1>6. DOMAIN next.table = DOMAIN table \union next.touched BY DEF Progress
<1>7. \A other \in DOMAIN next.table \ next.touched : next.table[other] = table[other]
    BY DEF Progress
<1>8. \A k \in 1..(n + 1) : \E other \in next.touched :
        Holds(next, other, kept[k], found, table, source)
    <2>1. ASSUME NEW k \in 1..n
          PROVE  \E other \in next.touched : Holds(next, other, kept[k], found, table, source)
        <3>1. PICK other \in acc.touched : Holds(acc, other, kept[k], found, table, source)
            BY DEF Progress
        <3>2. QED BY <1>4, <3>1
    <2>2. QED BY <1>1, <1>2, <2>1
<1>9. \A other \in next.touched : \E k \in 1..(n + 1) :
        Holds(next, other, kept[k], found, table, source)
    <2>1. ASSUME NEW other \in acc.touched
          PROVE  \E k \in 1..(n + 1) : Holds(next, other, kept[k], found, table, source)
        <3>1. PICK k \in 1..n : Holds(acc, other, kept[k], found, table, source)
            BY DEF Progress
        <3>2. QED BY <1>1, <1>4, <3>1
    <2>2. QED BY <1>1, <1>2, <2>1
<1>10. ASSUME NEW j \in 1..(n + 1), NEW k \in 1..(n + 1), j # k,
              Target(kept[j], found) # {}, Target(kept[k], found) # {}
       PROVE  Chosen(kept[j], found) # Chosen(kept[k], found)
    BY <1>1, <1>5, <1>10 DEF Progress
<1>11. QED BY <1>6, <1>7, <1>8, <1>9, <1>10 DEF Progress

\* The run of an INSERT through all of its rows.
LEMMA Inserted ==
    ASSUME NEW inputs \in Seq(Input), NEW found, found \in [DOMAIN found -> Contact],
           NEW table, Keyed(table), NEW source \in Writers
    PROVE  LET kept == UniqueInputs(inputs)
               outcome == Outcome(inputs, found, table, source)
           IN  \E acc :
                /\ acc[0].ok
                /\ \A n \in 0..Len(kept) :
                    /\ acc[n].ok \in BOOLEAN /\ Keyed(acc[n].table)
                    /\ acc[n].ok => Progress(acc[n], n, kept, found, table, source)
                /\ \A n \in 1..Len(kept) :
                    acc[n].ok <=> acc[n - 1].ok
                                  /\ Fits(acc[n - 1], Entry(kept[n], found, source))
                /\ outcome.ok = acc[Len(kept)].ok
                /\ outcome.table = IF outcome.ok THEN acc[Len(kept)].table ELSE table
<1> DEFINE kept == UniqueInputs(inputs)
           N == Len(kept)
           entries == [i \in DOMAIN kept |-> Entry(kept[i], found, source)]
           base == [ok |-> TRUE, touched |-> {}, table |-> table]
           stored == StoreRows(base, entries)
<1>1. kept \in Seq(Input) BY KeptRows
<1>2. N \in Nat /\ DOMAIN kept = 1..N /\ DOMAIN entries = 1..N BY <1>1
<1>3. Outcome(inputs, found, table, source) =
        [ok |-> stored.ok, table |-> IF stored.ok THEN stored.table ELSE table]
    BY DEF Outcome, Entry, StoreRows
<1>4. \A i \in 1..N : /\ entries[i] = Entry(kept[i], found, source)
                      /\ entries[i].contact = Merge(kept[i], found, source)
                      /\ entries[i].contact \in Contact
    <2>1. \A i \in 1..N : kept[i] \in Input BY <1>1, <1>2
    <2> HIDE DEF kept
    <2>2. QED BY <1>2, <2>1, MergeTyped DEF Entry
<1> HIDE DEF kept, N, entries
<1>5. PICK acc : /\ acc[0] = base
                 /\ \A i \in 1..N : acc[i] = StoreRow(acc[i - 1], entries[i])
                 /\ acc[N] = stored
    <2> HIDE DEF base
    <2>1. QED BY <1>2, RowByRow
<1> HIDE DEF stored
<1> DEFINE Good(n) == /\ State(acc[n]) /\ acc[n].ok \in BOOLEAN /\ Keyed(acc[n].table)
                      /\ acc[n].ok => Progress(acc[n], n, kept, found, table, source)
           known == {n \in Nat : n <= N => Good(n)}
<1>6. 0 \in known
    <2>1. State(acc[0]) /\ acc[0].ok = TRUE /\ acc[0].table = table /\ acc[0].touched = {}
        BY <1>5 DEF State
    <2>2. Progress(acc[0], 0, kept, found, table, source) BY <2>1 DEF Progress
    <2>3. QED BY <2>1, <2>2
<1>7. ASSUME NEW n \in Nat, n + 1 <= N, Good(n)
      PROVE  /\ Good(n + 1)
             /\ acc[n + 1].ok <=> acc[n].ok /\ Fits(acc[n], entries[n + 1])
    <2>1. n + 1 \in 1..N /\ n + 1 - 1 = n BY <1>2, <1>7
    <2>2. acc[n + 1] = StoreRow(acc[n], entries[n + 1]) BY <1>5, <2>1
    <2> DEFINE id == RowId(acc[n], entries[n + 1])
    <2>3. /\ State(acc[n + 1]) /\ acc[n + 1].ok \in BOOLEAN /\ Keyed(acc[n + 1].table)
          /\ acc[n + 1].ok <=> acc[n].ok /\ Fits(acc[n], entries[n + 1])
          /\ acc[n + 1].ok =>
                /\ acc[n + 1].touched = acc[n].touched \union {id}
                /\ DOMAIN acc[n + 1].table = DOMAIN acc[n].table \union {id}
                /\ acc[n + 1].table[id] = entries[n + 1].contact
                /\ \A other \in DOMAIN acc[n].table \ {id} :
                    acc[n + 1].table[other] = acc[n].table[other]
        BY <1>4, <1>7, <2>1, <2>2, StoreOneRow
    <2>4. ASSUME acc[n + 1].ok
          PROVE  Progress(acc[n + 1], n + 1, kept, found, table, source)
        <3>1. id \notin acc[n].touched BY <2>3, <2>4 DEF Fits
        <3>2. IsFiniteSet(DOMAIN acc[n].table) /\ Progress(acc[n], n, kept, found, table, source)
            BY <1>7, <2>3, <2>4 DEF Keyed
        <3>3. id = RowId(acc[n], Entry(kept[n + 1], found, source)) BY <1>4, <2>1
        <3>4. acc[n + 1].table[id] = Merge(kept[n + 1], found, source)
            BY <1>4, <2>1, <2>3, <2>4
        <3> HIDE DEF id
        <3>5. QED BY <2>3, <2>4, <3>1, <3>2, <3>3, <3>4, OneMoreRow
    <2>5. QED BY <2>3, <2>4
<1>8. \A n \in Nat : n <= N => Good(n)
    <2>1. ASSUME NEW n \in known PROVE n + 1 \in known
        <3>1. SUFFICES ASSUME n + 1 <= N PROVE Good(n + 1) OBVIOUS
        <3>2. n \in Nat /\ n <= N BY <1>2, <3>1
        <3>3. Good(n) BY <3>2
        <3> HIDE DEF Good
        <3>4. QED BY <1>7, <3>1, <3>2, <3>3
    <2>2. known \in SUBSET Nat OBVIOUS
    <2>3. known = Nat
        <3> HIDE DEF known
        <3>1. QED BY <1>6, <2>1, <2>2, Induction
    <2> HIDE DEF Good
    <2>4. QED BY <2>3
<1>9. ASSUME NEW n \in 1..N
      PROVE  acc[n].ok <=> acc[n - 1].ok /\ Fits(acc[n - 1], Entry(kept[n], found, source))
    <2>1. n - 1 \in Nat /\ n - 1 + 1 = n /\ n <= N /\ n - 1 <= N BY <1>2
    <2>2. Good(n - 1) BY <1>8, <2>1
    <2> HIDE DEF Good
    <2>3. acc[n - 1 + 1].ok <=> acc[n - 1].ok /\ Fits(acc[n - 1], entries[n - 1 + 1])
        BY <1>7, <2>1, <2>2
    <2>4. QED BY <1>4, <2>1, <2>3
<1>10. acc[0].ok BY <1>5
<1>11. \A n \in 0..N : /\ acc[n].ok \in BOOLEAN /\ Keyed(acc[n].table)
                       /\ acc[n].ok => Progress(acc[n], n, kept, found, table, source)
    BY <1>2, <1>8
<1> HIDE DEF base
<1>12. QED BY <1>3, <1>5, <1>9, <1>10, <1>11 DEF kept, N

(***************************************************************************)
(* Types                                                                   *)
(***************************************************************************)

TypeInv ==
    /\ Keyed(contacts)
    /\ pc \in [Writers -> {"idle", "selected", "stored", "failed"}]
    /\ batch \in [Writers -> Seq(Input)]
    /\ DOMAIN snapshot = Writers
    /\ \A w \in Writers : snapshot[w] \in [DOMAIN snapshot[w] -> Contact]

LEMMA RestrictionKeyed ==
    ASSUME NEW table, Keyed(table), NEW ids \in SUBSET DOMAIN table
    PROVE  Keyed(Restrict(table, ids))
<1>1. IsFiniteSet(ids) BY FS_Subset DEF Keyed
<1>2. QED BY <1>1 DEF Keyed, Restrict

LEMMA MatchingTyped ==
    ASSUME NEW inputs, NEW table, Keyed(table)
    PROVE  Matching(inputs, table) \in [DOMAIN Matching(inputs, table) -> Contact]
BY DEF Matching, RestrictValues, Restrict, Keyed

LEMMA OutcomeKeyed ==
    ASSUME NEW inputs \in Seq(Input), NEW found, found \in [DOMAIN found -> Contact],
           NEW table, Keyed(table), NEW source \in Writers
    PROVE  LET outcome == Outcome(inputs, found, table, source)
           IN  outcome.ok \in BOOLEAN /\ Keyed(outcome.table)
<1> DEFINE N == Len(UniqueInputs(inputs))
           outcome == Outcome(inputs, found, table, source)
<1>1. N \in 0..N BY KeptRows
<1>2. PICK acc : /\ \A n \in 0..N : acc[n].ok \in BOOLEAN /\ Keyed(acc[n].table)
                 /\ outcome.ok = acc[N].ok
                 /\ outcome.table = IF outcome.ok THEN acc[N].table ELSE table
    BY Inserted
<1> HIDE DEF N, outcome
<1>3. QED BY <1>1, <1>2 DEF outcome

LEMMA InitTyped == Init => TypeInv
<1> SUFFICES ASSUME Init PROVE TypeInv OBVIOUS
<1>1. Keyed(contacts) BY SeedsAssumption DEF Init
<1>2. <<>> \in [DOMAIN <<>> -> Contact] /\ <<>> \in Seq(Input) OBVIOUS
<1>3. QED BY <1>1, <1>2 DEF Init, TypeInv

LEMMA StepTyped == TypeInv /\ [Next]_vars => TypeInv'
<1> SUFFICES ASSUME TypeInv, [Next]_vars PROVE TypeInv' OBVIOUS
<1>1. ASSUME NEW w \in Writers, Select(w) PROVE TypeInv'
    <2>1. PICK inputs \in Batches[w] :
            /\ batch' = [batch EXCEPT ![w] = inputs]
            /\ snapshot' = [snapshot EXCEPT ![w] = Matching(inputs, contacts)]
        BY <1>1 DEF Select
    <2>2. inputs \in Seq(Input) BY BatchesAssumption
    <2>3. batch' \in [Writers -> Seq(Input)] BY <2>1, <2>2 DEF TypeInv
    <2>4. /\ DOMAIN snapshot' = Writers
          /\ \A v \in Writers : snapshot'[v] \in [DOMAIN snapshot'[v] -> Contact]
        BY <2>1, MatchingTyped DEF TypeInv
    <2>5. pc' \in [Writers -> {"idle", "selected", "stored", "failed"}] /\ contacts' = contacts
        BY <1>1 DEF Select, TypeInv
    <2>6. QED BY <2>3, <2>4, <2>5 DEF TypeInv, Keyed
<1>2. ASSUME NEW w \in Writers, Insert(w) PROVE TypeInv'
    <2>1. Keyed(Outcome(batch[w], snapshot[w], contacts, w).table)
        BY OutcomeKeyed DEF TypeInv
    <2>2. contacts' = Outcome(batch[w], snapshot[w], contacts, w).table
        BY <1>2 DEF Insert
    <2>3. Keyed(contacts)' BY <2>1, <2>2 DEF Keyed
    <2>4. QED BY <1>2, <2>3 DEF Insert, TypeInv
<1>3. ASSUME NEW source \in Writers \union {Seed}, DeleteContactsByBatch(source) PROVE TypeInv'
    <2> DEFINE ids == {id \in DOMAIN contacts : contacts[id].source # source}
    <2>1. contacts' = Restrict(contacts, ids)
        BY <1>3 DEF DeleteContactsByBatch, RestrictValues
    <2>2. Keyed(Restrict(contacts, ids)) BY RestrictionKeyed DEF TypeInv
    <2>3. Keyed(contacts)' BY <2>1, <2>2 DEF Keyed
    <2>4. QED BY <1>3, <2>3 DEF DeleteContactsByBatch, TypeInv
<1>4. CASE DeleteContactsBySegment
    <2>1. DOMAIN contacts' = {} /\ contacts' \in [DOMAIN contacts' -> Contact]
        BY <1>4 DEF DeleteContactsBySegment
    <2>2. Keyed(contacts)' BY <2>1, FS_EmptySet DEF Keyed
    <2>3. QED BY <1>4, <2>2 DEF DeleteContactsBySegment, TypeInv
<1>5. CASE UNCHANGED vars BY <1>5 DEF vars, TypeInv, Keyed
<1>6. QED BY <1>1, <1>2, <1>3, <1>4, <1>5 DEF Next

LEMMA TypeInvariant == Spec => []TypeInv
BY InitTyped, StepTyped, PTL DEF Spec

(***************************************************************************)
(* The targets of a fresh batch                                            *)
(***************************************************************************)

\* A row finds its phone and its email in at most one contact each.
LEMMA FreshTargets ==
    ASSUME NEW inputs, NEW table, Keyed(table), NEW input \in ToSet(UniqueInputs(inputs))
    PROVE  LET found == Matching(inputs, table)
           IN  /\ \A id \in DOMAIN table : table[id].phone = input.phone =>
                    ByPhone(input, found) = {id} /\ Target(input, found) = {id}
               /\ \A id \in DOMAIN table :
                    input.email # NoEmail /\ table[id].email = input.email =>
                        ByEmail(input, found) = {id}
               /\ \A id \in ByEmail(input, found) :
                    id \in DOMAIN table /\ input.email # NoEmail /\ table[id].email = input.email
               /\ \A id \in Target(input, found) :
                    /\ id \in DOMAIN table /\ SamePerson(input, table[id]) /\ id \in DOMAIN found
                    /\ Target(input, found) = {id} /\ Chosen(input, found) = id
                    /\ \A field, default :
                        OldValue(input, found, field, default) = table[id][field]
<1> DEFINE found == Matching(inputs, table)
<1>1. \A id : id \in DOMAIN found <=>
            id \in DOMAIN table /\ \E row \in ToSet(UniqueInputs(inputs)) : SamePerson(row, table[id])
    BY FoundContacts
<1>2. \A id \in DOMAIN found : found[id] = table[id] BY FoundContacts
<1> HIDE DEF found
<1>3. \A id : id \in ByPhone(input, found) <=> id \in DOMAIN table /\ table[id].phone = input.phone
    BY <1>1, <1>2 DEF ByPhone, SamePerson
<1>4. \A id : id \in ByEmail(input, found) <=>
            id \in DOMAIN table /\ input.email # NoEmail /\ table[id].email = input.email
    BY <1>1, <1>2 DEF ByEmail, SamePerson
<1>5. \A i, j \in ByPhone(input, found) : i = j BY <1>3 DEF Keyed, SamePerson
<1>6. \A i, j \in ByEmail(input, found) : i = j BY <1>4 DEF Keyed, SamePerson
<1>7. ASSUME NEW id \in DOMAIN table, table[id].phone = input.phone
      PROVE  ByPhone(input, found) = {id} /\ Target(input, found) = {id}
    <2>1. ByPhone(input, found) = {id} BY <1>3, <1>5, <1>7
    <2>2. QED BY <2>1 DEF Target
<1>8. ASSUME NEW id \in DOMAIN table, input.email # NoEmail, table[id].email = input.email
      PROVE  ByEmail(input, found) = {id}
    BY <1>4, <1>6, <1>8
<1>9. ASSUME NEW id \in Target(input, found)
      PROVE  /\ id \in DOMAIN table /\ SamePerson(input, table[id]) /\ id \in DOMAIN found
             /\ Target(input, found) = {id} /\ Chosen(input, found) = id
             /\ \A field, default :
                OldValue(input, found, field, default) = table[id][field]
    <2>1. id \in ByPhone(input, found) \/ id \in ByEmail(input, found) BY DEF Target
    <2>2. id \in DOMAIN table /\ SamePerson(input, table[id])
        BY <1>3, <1>4, <2>1 DEF SamePerson
    <2>3. id \in DOMAIN found BY <1>1, <2>2
    <2>4. Target(input, found) = {id} BY <1>5, <1>6 DEF Target
    <2>5. (CHOOSE i \in Target(input, found) : TRUE) = id BY <2>4
    <2>6. \A field, default :
            OldValue(input, found, field, default) = found[id][field]
        BY <2>4, <2>5 DEF OldValue
    <2>7. QED BY <1>2, <2>2, <2>3, <2>4, <2>5, <2>6 DEF Chosen
<1>10. QED BY <1>4, <1>7, <1>8, <1>9 DEF found

(***************************************************************************)
(* What a fresh batch leaves                                               *)
(***************************************************************************)

LEMMA FreshOutcome ==
    ASSUME NEW inputs \in Seq(Input), NEW table, Keyed(table), NEW source \in Writers,
           NEW found, found = Matching(inputs, table)
    PROVE  LET outcome == Outcome(inputs, found, table, source)
           IN  outcome.ok => \E acc :
                /\ Progress(acc, Len(UniqueInputs(inputs)), UniqueInputs(inputs), found,
                            table, source)
                /\ outcome.table = acc.table
<1> DEFINE N == Len(UniqueInputs(inputs))
           outcome == Outcome(inputs, found, table, source)
<1>1. N \in 0..N BY KeptRows
<1>2. found \in [DOMAIN found -> Contact] BY MatchingTyped
<1>3. PICK acc :
        /\ acc[0].ok
        /\ \A n \in 0..N :
            /\ acc[n].ok \in BOOLEAN /\ Keyed(acc[n].table)
            /\ acc[n].ok => Progress(acc[n], n, UniqueInputs(inputs), found, table, source)
        /\ \A n \in 1..N :
            acc[n].ok <=> acc[n - 1].ok
                          /\ Fits(acc[n - 1], Entry(UniqueInputs(inputs)[n], found, source))
        /\ outcome.ok = acc[N].ok
        /\ outcome.table = IF outcome.ok THEN acc[N].table ELSE table
    BY <1>2, Inserted
<1> HIDE DEF N, outcome
<1>4. outcome.ok => Progress(acc[N], N, UniqueInputs(inputs), found, table, source)
                    /\ outcome.table = acc[N].table
    BY <1>1, <1>3
<1>5. QED BY <1>4 DEF N, outcome

\* No contact goes, each is as it was or merged with a row that leads to it or is new,
\* and every row is there.
LEMMA InsertUpdates ==
    ASSUME NEW inputs \in Seq(Input), NEW table, Keyed(table), NEW source \in Writers,
           NEW found, found = Matching(inputs, table),
           Outcome(inputs, found, table, source).ok
    PROVE  LET kept == ToSet(UniqueInputs(inputs))
               new == Outcome(inputs, found, table, source).table
           IN  /\ DOMAIN table \subseteq DOMAIN new
               /\ \A id \in DOMAIN new :
                    \/ id \in DOMAIN table /\ new[id] = table[id]
                    \/ \E input \in kept :
                        /\ id \in DOMAIN table => id \in Target(input, found)
                        /\ new[id] = Merge(input, found, source)
               /\ \A input \in kept : \E id \in DOMAIN new :
                    new[id] = Merge(input, found, source)
<1> DEFINE rows == UniqueInputs(inputs)
           N == Len(rows)
           new == Outcome(inputs, found, table, source).table
<1>1. DOMAIN rows = 1..N /\ ToSet(rows) = {rows[i] : i \in 1..N}
    BY KeptRows DEF ToSet
<1>2. PICK acc : Progress(acc, N, rows, found, table, source) /\ new = acc.table
    BY FreshOutcome
<1>3. ASSUME NEW input \in ToSet(rows), Target(input, found) # {}
      PROVE  Chosen(input, found) \in Target(input, found)
    BY <1>3 DEF Chosen
<1> HIDE DEF rows, N, new
<1>4. DOMAIN table \subseteq DOMAIN new BY <1>2 DEF Progress
<1>5. ASSUME NEW id \in DOMAIN new, ~(id \in DOMAIN table /\ new[id] = table[id])
      PROVE  \E input \in ToSet(rows) :
                /\ id \in DOMAIN table => id \in Target(input, found)
                /\ new[id] = Merge(input, found, source)
    <2>1. id \in acc.touched BY <1>2, <1>4, <1>5 DEF Progress
    <2>2. PICK k \in 1..N : Holds(acc, id, rows[k], found, table, source)
        BY <1>2, <2>1 DEF Progress
    <2>3. rows[k] \in ToSet(rows) BY <1>1
    <2>4. QED BY <1>2, <1>3, <2>2, <2>3 DEF Holds
<1>6. ASSUME NEW input \in ToSet(rows)
      PROVE  \E id \in DOMAIN new : new[id] = Merge(input, found, source)
    <2>1. PICK k \in 1..N : input = rows[k] BY <1>1
    <2>2. PICK id \in acc.touched : Holds(acc, id, rows[k], found, table, source)
        BY <1>2 DEF Progress
    <2>3. QED BY <1>2, <2>1, <2>2 DEF Holds, Progress
<1>7. QED BY <1>4, <1>5, <1>6 DEF rows, new

\* An upload that says nothing of opting out takes nobody's opt-out away, for every
\* batch and every table (bulkUpsertContacts in db/queries/contacts.ts).
THEOREM OptOutStays == Spec => OptOutKept
<1>1. ASSUME TypeInv, NEW w \in Writers, Insert(w), Fresh(w),
             NEW id \in DOMAIN contacts, contacts[id].opt = "yes", contacts'[id].opt = "no"
      PROVE  \E input \in ToSet(UniqueInputs(batch[w])) :
                input.opt = "no" /\ SamePerson(input, contacts[id])
    <2> DEFINE found == snapshot[w]
               outcome == Outcome(batch[w], found, contacts, w)
    <2>1. batch[w] \in Seq(Input) /\ Keyed(contacts) /\ found = Matching(batch[w], contacts)
        BY <1>1 DEF TypeInv, Fresh
    <2>2. contacts' = outcome.table BY <1>1 DEF Insert
    <2>3. outcome.ok
        <3>1. ~outcome.ok => outcome.table = contacts BY DEF Outcome
        <3>2. QED BY <1>1, <2>2, <3>1
    <2>4. PICK input \in ToSet(UniqueInputs(batch[w])) :
            id \in Target(input, found) /\ contacts'[id] = Merge(input, found, w)
        <3>1. contacts'[id] # contacts[id] BY <1>1
        <3> HIDE DEF found
        <3>2. QED BY <2>1, <2>2, <2>3, <3>1, InsertUpdates
    <2>5. SamePerson(input, contacts[id])
          /\ OldValue(input, found, "opt", "no") = contacts[id]["opt"]
        BY <2>1, <2>4, FreshTargets
    <2>6. MergeOpt(input, found) = "no" BY <1>1, <2>4 DEF Merge
    <2>7. input.opt = "no" BY <1>1, <2>5, <2>6 DEF MergeOpt
    <2>8. QED BY <2>5, <2>7
<1> DEFINE Kept == \A w \in Writers : Insert(w) /\ Fresh(w) =>
        \A id \in DOMAIN contacts :
            contacts[id].opt = "yes" /\ contacts'[id].opt = "no" =>
                \E input \in ToSet(UniqueInputs(batch[w])) :
                    input.opt = "no" /\ SamePerson(input, contacts[id])
<1>2. TypeInv => [Kept]_vars BY <1>1
<1> HIDE DEF Kept
<1>3. [](TypeInv) => [][Kept]_vars BY <1>2, PTL
<1>4. QED BY <1>3, TypeInvariant, PTL DEF OptOutKept, Kept

\* A contact changes its phone only for a row with its email and its email only for a
\* row with its phone, loses no email, and no row of a stored batch is missing.
THEOREM KeysMove == Spec => KeysMoveOnlyOnMatch
<1> DEFINE Kept(w) == ToSet(UniqueInputs(batch[w]))
           PhoneMoves(w, id) == \E input \in Kept(w) :
                input.phone = contacts'[id].phone /\ input.email = contacts[id].email
           EmailMoves(w, id) == \E input \in Kept(w) :
                input.phone = contacts[id].phone /\ input.email = contacts'[id].email
<1>1. ASSUME TypeInv, NEW w \in Writers, Insert(w), Fresh(w), pc'[w] = "stored"
      PROVE  /\ \A input \in Kept(w) : \E id \in DOMAIN contacts' :
                    contacts'[id].phone = input.phone
             /\ \A id \in DOMAIN contacts :
                /\ id \in DOMAIN contacts'
                /\ contacts[id].phone # contacts'[id].phone => PhoneMoves(w, id)
                /\ contacts[id].email # contacts'[id].email =>
                        contacts'[id].email # NoEmail /\ EmailMoves(w, id)
    <2> DEFINE found == snapshot[w]
               outcome == Outcome(batch[w], found, contacts, w)
    <2>1. batch[w] \in Seq(Input) /\ Keyed(contacts) /\ found = Matching(batch[w], contacts)
        BY <1>1 DEF TypeInv, Fresh
    <2>2. contacts' = outcome.table BY <1>1 DEF Insert
    <2>3. outcome.ok BY <1>1 DEF Insert, TypeInv
    <2>4. /\ DOMAIN contacts \subseteq DOMAIN contacts'
          /\ \A id \in DOMAIN contacts :
                \/ contacts'[id] = contacts[id]
                \/ \E input \in Kept(w) :
                    id \in Target(input, found) /\ contacts'[id] = Merge(input, found, w)
          /\ \A input \in Kept(w) : \E id \in DOMAIN contacts' :
                contacts'[id] = Merge(input, found, w)
        <3> HIDE DEF found
        <3>1. QED BY <2>1, <2>2, <2>3, InsertUpdates
    <2> HIDE DEF outcome, Kept
    <2>5. ASSUME NEW input \in Kept(w), NEW id \in Target(input, found),
                 contacts'[id] = Merge(input, found, w)
          PROVE  /\ contacts[id].phone # contacts'[id].phone => PhoneMoves(w, id)
                 /\ contacts[id].email # contacts'[id].email =>
                        contacts'[id].email # NoEmail /\ EmailMoves(w, id)
        <3>1. /\ contacts'[id].phone = input.phone
              /\ contacts'[id].email = MergeEmail(input, found)
            BY <2>5 DEF Merge
        <3>2. /\ id \in DOMAIN contacts /\ SamePerson(input, contacts[id])
              /\ Target(input, found) = {id}
              /\ OldValue(input, found, "email", NoEmail) = contacts[id]["email"]
            BY <2>1, <2>5, FreshTargets DEF Kept
        <3>3. \A other \in ByEmail(input, found) : contacts[other].email = input.email
            BY <2>1, FreshTargets DEF Kept
        <3>4. contacts[id].phone # input.phone => input.email = contacts[id].email
            BY <3>2 DEF SamePerson
        <3>5. ASSUME contacts[id].email # contacts'[id].email
              PROVE  /\ contacts'[id].email = input.email /\ input.email # NoEmail
                     /\ input.phone = contacts[id].phone
            <4>1. MergeEmail(input, found) = input.email /\ input.email # NoEmail
                BY <3>1, <3>2, <3>5 DEF MergeEmail
            <4>2. QED BY <3>1, <3>2, <3>5, <4>1 DEF SamePerson
        <3>6. QED BY <3>1, <3>4, <3>5
    <2>6. \A input \in Kept(w) : \E id \in DOMAIN contacts' :
            contacts'[id].phone = input.phone
        BY <2>4 DEF Merge
    <2>7. QED BY <2>4, <2>5, <2>6
<1> DEFINE Moves == \A w \in Writers : Insert(w) /\ Fresh(w) /\ pc'[w] = "stored" =>
        LET kept == ToSet(UniqueInputs(batch[w]))
        IN  /\ \A input \in kept : \E id \in DOMAIN contacts' :
                    contacts'[id].phone = input.phone
            /\ \A id \in DOMAIN contacts :
                LET old == contacts[id]
                    new == contacts'[id]
                IN  /\ id \in DOMAIN contacts'
                    /\ old.phone # new.phone =>
                        \E input \in kept : /\ input.phone = new.phone
                                            /\ input.email = old.email
                    /\ old.email # new.email => new.email # NoEmail /\
                        \E input \in kept : /\ input.phone = old.phone
                                            /\ input.email = new.email
<1>2. TypeInv => [Moves]_vars BY <1>1
<1> HIDE DEF Moves
<1>3. []TypeInv => [][Moves]_vars BY <1>2, PTL
<1>4. QED BY <1>3, TypeInvariant, PTL DEF KeysMoveOnlyOnMatch, Moves

(***************************************************************************)
(* When a fresh batch is stored                                            *)
(***************************************************************************)

TwoRows(inputs, found) ==
    LET kept == UniqueInputs(inputs)
    IN  \E i, j \in DOMAIN kept :
            i # j /\ Target(kept[i], found) \intersect Target(kept[j], found) # {}

\* A row that leads to no contact of an earlier one does not meet a unique index.
LEMMA RowFits ==
    ASSUME NEW inputs \in Seq(Input), NEW table, Keyed(table), NEW source \in Writers,
           NEW found, found = Matching(inputs, table), ~TwoRows(inputs, found),
           NEW n \in 1..Len(UniqueInputs(inputs)), NEW acc, Keyed(acc.table),
           Progress(acc, n - 1, UniqueInputs(inputs), found, table, source)
    PROVE  Fits(acc, Entry(UniqueInputs(inputs)[n], found, source))
<1> DEFINE kept == UniqueInputs(inputs)
           input == kept[n]
           entry == Entry(input, found, source)
           id == RowId(acc, entry)
<1>1. /\ DOMAIN kept = 1..Len(kept) /\ Len(kept) \in Nat
      /\ 1..(n - 1) \subseteq DOMAIN kept /\ n \in DOMAIN kept /\ n \notin 1..(n - 1)
    <2>1. kept \in Seq(Input) BY KeptRows
    <2> HIDE DEF kept
    <2>2. DOMAIN kept = 1..Len(kept) /\ Len(kept) \in Nat BY <2>1
    <2>3. n \in 1..Len(kept) BY DEF kept
    <2>4. QED BY <2>2, <2>3
<1>2. \A k \in DOMAIN kept : kept[k] \in ToSet(kept) BY DEF ToSet
<1>3. \A k \in 1..(n - 1) : ~SamePerson(kept[k], input)
    BY <1>1, KeptRows DEF Apart
<1>4. \A k \in 1..(n - 1) : Target(kept[k], found) \intersect Target(input, found) = {}
    BY <1>1 DEF TwoRows
<1> HIDE DEF kept
<1>5. \A k \in DOMAIN kept : \A i \in Target(kept[k], found) :
        /\ i \in DOMAIN table /\ Target(kept[k], found) = {i} /\ Chosen(kept[k], found) = i
        /\ OldValue(kept[k], found, "email", NoEmail) = table[i]["email"]
    BY <1>2, FreshTargets DEF kept
<1>6. /\ \A k \in DOMAIN kept, i \in DOMAIN table :
            table[i].phone = kept[k].phone => Target(kept[k], found) = {i}
      /\ \A k \in DOMAIN kept, i \in DOMAIN table :
            kept[k].email # NoEmail /\ table[i].email = kept[k].email =>
                ByEmail(kept[k], found) = {i}
    BY <1>2, FreshTargets DEF kept
<1>7. IF Target(input, found) = {} THEN id = NewId(acc.table) ELSE id = Chosen(input, found)
    BY DEF RowId, Entry, Chosen
<1>8. Target(input, found) = {} => id \notin DOMAIN acc.table
    BY <1>7, NewIdFree DEF Keyed
<1> HIDE DEF id
<1>9. Target(input, found) # {} => id \in Target(input, found)
    BY <1>1, <1>5, <1>7
<1>10. \A k \in DOMAIN kept :
        Target(kept[k], found) # {} => Chosen(kept[k], found) \in Target(kept[k], found)
    BY <1>5
<1>11. id \notin acc.touched
    <2>1. SUFFICES ASSUME id \in acc.touched PROVE FALSE OBVIOUS
    <2>2. id \in DOMAIN acc.table BY <2>1 DEF Progress
    <2>3. Target(input, found) # {} BY <1>8, <2>2
    <2>4. PICK k \in 1..(n - 1) : Holds(acc, id, kept[k], found, table, source)
        BY <2>1 DEF Progress, kept
    <2>5. id \in DOMAIN table BY <1>1, <1>5, <1>9, <2>3
    <2>6. Target(kept[k], found) # {} BY <2>4, <2>5 DEF Holds
    <2>7. id \in Target(kept[k], found) BY <1>1, <1>10, <2>4, <2>6 DEF Holds
    <2>8. QED BY <1>4, <1>9, <2>3, <2>7
\* The email a row is stored with is its own or that of its target; its own only when
\* nobody but its target has it.
<1>12. \A k \in DOMAIN kept : MergeEmail(kept[k], found) # NoEmail =>
        \/ /\ Target(kept[k], found) # {}
           /\ \E i \in Target(kept[k], found) :
                table[i].email = MergeEmail(kept[k], found)
        \/ /\ MergeEmail(kept[k], found) = kept[k].email
           /\ ByEmail(kept[k], found) \in {{}, Target(kept[k], found)}
    <2>1. SUFFICES ASSUME NEW k \in DOMAIN kept, MergeEmail(kept[k], found) # NoEmail,
                          MergeEmail(kept[k], found) = OldValue(kept[k], found, "email", NoEmail)
                   PROVE  \E i \in Target(kept[k], found) :
                            table[i].email = MergeEmail(kept[k], found)
        BY DEF MergeEmail
    <2>2. Target(kept[k], found) # {} BY <2>1 DEF OldValue
    <2>3. PICK i \in Target(kept[k], found) : TRUE BY <2>2
    <2>4. QED BY <1>5, <2>1, <2>3
<1>13. ASSUME NEW other \in DOMAIN acc.table, other # id
       PROVE  ~SamePerson(entry.contact, acc.table[other])
    <2>1. entry.contact.phone = input.phone /\ entry.contact.email = MergeEmail(input, found)
        BY DEF Entry, Merge
    <2> HIDE DEF entry
    <2>2. CASE other \notin acc.touched
        <3>1. other \in DOMAIN table /\ acc.table[other] = table[other]
            BY <2>2 DEF Progress
        <3>2. table[other].phone # input.phone
            <4>1. SUFFICES ASSUME table[other].phone = input.phone PROVE FALSE OBVIOUS
            <4>2. Target(input, found) = {other} BY <1>1, <1>6, <3>1, <4>1
            <4>3. QED BY <1>9, <1>13, <4>2
        <3>3. ASSUME MergeEmail(input, found) # NoEmail,
                     MergeEmail(input, found) = table[other].email
              PROVE  FALSE
            <4>1. CASE \E i \in Target(input, found) : table[i].email = MergeEmail(input, found)
                <5>1. PICK i \in Target(input, found) : table[i].email = MergeEmail(input, found)
                    BY <4>1
                <5>2. i = id /\ i \in DOMAIN table BY <1>1, <1>5, <1>9
                <5>3. QED BY <1>13, <3>1, <3>3, <5>1, <5>2 DEF Keyed, SamePerson
            <4>2. CASE /\ MergeEmail(input, found) = input.email
                       /\ ByEmail(input, found) \in {{}, Target(input, found)}
                <5>1. ByEmail(input, found) = {other} BY <1>1, <1>6, <3>1, <3>3, <4>2
                <5>2. Target(input, found) = {other} BY <4>2, <5>1
                <5>3. QED BY <1>9, <1>13, <5>2
            <4>3. QED BY <1>1, <1>12, <3>3, <4>1, <4>2
        <3>4. QED BY <2>1, <3>1, <3>2, <3>3 DEF SamePerson
    <2>3. CASE other \in acc.touched
        <3>1. PICK k \in 1..(n - 1) : Holds(acc, other, kept[k], found, table, source)
            BY <2>3 DEF Progress, kept
        <3>2. k \in DOMAIN kept BY <1>1
        <3>3. /\ acc.table[other].phone = kept[k].phone
              /\ acc.table[other].email = MergeEmail(kept[k], found)
            BY <3>1 DEF Holds, Merge
        <3>4. ASSUME MergeEmail(input, found) # NoEmail,
                     MergeEmail(input, found) = MergeEmail(kept[k], found)
              PROVE  FALSE
            <4> DEFINE Old(r) == \E i \in Target(kept[r], found) :
                                    table[i].email = MergeEmail(kept[r], found)
                       Own(r) == /\ MergeEmail(kept[r], found) = kept[r].email
                                 /\ ByEmail(kept[r], found) \in {{}, Target(kept[r], found)}
            <4>1. (Old(n) \/ Own(n)) /\ (Old(k) \/ Own(k))
                BY <1>1, <1>12, <3>2, <3>4
            <4>2. CASE Own(n) /\ Own(k)
                BY <1>3, <3>4, <4>2 DEF SamePerson
            <4>3. CASE Old(n) /\ Old(k)
                <5>1. PICK i \in Target(input, found) : table[i].email = MergeEmail(input, found)
                    BY <4>3
                <5>2. PICK j \in Target(kept[k], found) :
                        table[j].email = MergeEmail(kept[k], found)
                    BY <4>3
                <5>3. i # j BY <1>4
                <5>4. i \in DOMAIN table /\ j \in DOMAIN table BY <1>1, <1>5, <3>2
                <5>5. QED BY <3>4, <5>1, <5>2, <5>3, <5>4 DEF Keyed, SamePerson
            <4>4. CASE Old(n) /\ Own(k)
                <5>1. PICK i \in Target(input, found) : table[i].email = MergeEmail(input, found)
                    BY <4>4
                <5>2. i \in DOMAIN table BY <1>1, <1>5
                <5>3. ByEmail(kept[k], found) = {i} BY <1>6, <3>2, <3>4, <4>4, <5>1, <5>2
                <5>4. i \in Target(kept[k], found) BY <4>4, <5>3
                <5>5. QED BY <1>4, <5>4
            <4>5. CASE Own(n) /\ Old(k)
                <5>1. PICK i \in Target(kept[k], found) :
                        table[i].email = MergeEmail(kept[k], found)
                    BY <4>5
                <5>2. i \in DOMAIN table BY <1>5, <3>2
                <5>3. ByEmail(input, found) = {i} BY <1>1, <1>6, <3>4, <4>5, <5>1, <5>2
                <5>4. i \in Target(input, found) BY <4>5, <5>3
                <5>5. QED BY <1>4, <5>4
            <4>6. QED BY <4>1, <4>2, <4>3, <4>4, <4>5
        <3>5. input.phone # kept[k].phone BY <1>3 DEF SamePerson
        <3>6. QED BY <2>1, <3>3, <3>4, <3>5 DEF SamePerson
    <2>4. QED BY <2>2, <2>3
<1>14. QED BY <1>11, <1>13 DEF Fits, id, kept

LEMMA StoredWhenApart ==
    ASSUME NEW inputs \in Seq(Input), NEW table, Keyed(table), NEW source \in Writers,
           NEW found, found = Matching(inputs, table)
    PROVE  Outcome(inputs, found, table, source).ok <=> ~TwoRows(inputs, found)
<1> DEFINE kept == UniqueInputs(inputs)
           N == Len(kept)
           outcome == Outcome(inputs, found, table, source)
<1>1. N \in Nat /\ DOMAIN kept = 1..N BY KeptRows
<1>2. found \in [DOMAIN found -> Contact] BY MatchingTyped
<1>3. PICK acc :
        /\ acc[0].ok
        /\ \A n \in 0..N :
            /\ acc[n].ok \in BOOLEAN /\ Keyed(acc[n].table)
            /\ acc[n].ok => Progress(acc[n], n, kept, found, table, source)
        /\ \A n \in 1..N :
            acc[n].ok <=> acc[n - 1].ok /\ Fits(acc[n - 1], Entry(kept[n], found, source))
        /\ outcome.ok = acc[N].ok
        /\ outcome.table = IF outcome.ok THEN acc[N].table ELSE table
    BY <1>2, Inserted
<1>4. ASSUME outcome.ok, TwoRows(inputs, found) PROVE FALSE
    <2>1. PICK i \in DOMAIN kept, j \in DOMAIN kept :
            i # j /\ Target(kept[i], found) \intersect Target(kept[j], found) # {}
        BY <1>4 DEF TwoRows
    <2>2. PICK id \in Target(kept[i], found) : id \in Target(kept[j], found) BY <2>1
    <2>3. kept[i] \in ToSet(kept) /\ kept[j] \in ToSet(kept) BY DEF ToSet
    <2>4. Chosen(kept[i], found) = id /\ Chosen(kept[j], found) = id
        <3> HIDE DEF N
        <3>1. QED BY <2>2, <2>3, FreshTargets
    <2>5. Progress(acc[N], N, kept, found, table, source)
        <3>1. N \in 0..N BY <1>1
        <3> HIDE DEF N, kept, outcome
        <3>2. QED BY <1>3, <1>4, <3>1
    <2> HIDE DEF kept, N, outcome
    <2>6. QED BY <1>1, <2>1, <2>2, <2>4, <2>5 DEF Progress
<1>5. ASSUME ~TwoRows(inputs, found) PROVE outcome.ok
    <2> DEFINE known == {n \in Nat : n <= N => acc[n].ok}
    <2>1. 0 \in known BY <1>3
    <2>2. ASSUME NEW n \in known PROVE n + 1 \in known
        <3>1. SUFFICES ASSUME n + 1 <= N PROVE acc[n + 1].ok OBVIOUS
        <3>2. n \in 0..N /\ n + 1 \in 1..N /\ n + 1 - 1 = n /\ acc[n].ok BY <1>1, <3>1
        <3> HIDE DEF N, kept, outcome, known
        <3>3. Keyed(acc[n].table) /\ Progress(acc[n], n, kept, found, table, source)
            BY <1>3, <3>2
        <3>4. Fits(acc[n], Entry(kept[n + 1], found, source))
            BY <1>5, <3>2, <3>3, RowFits DEF N, kept
        <3>5. acc[n + 1].ok <=>
                acc[n + 1 - 1].ok /\ Fits(acc[n + 1 - 1], Entry(kept[n + 1], found, source))
            BY <1>3, <3>2
        <3>6. QED BY <3>2, <3>4, <3>5
    <2>3. known = Nat
        <3>1. known \in SUBSET Nat OBVIOUS
        <3> HIDE DEF known
        <3>2. QED BY <2>1, <2>2, <3>1, Induction
    <2>4. acc[N].ok
        <3>1. N <= N BY <1>1
        <3> HIDE DEF N
        <3>2. QED BY <1>1, <2>3, <3>1
    <2> HIDE DEF N, kept, outcome
    <2>5. QED BY <1>3, <2>4
<1>6. outcome.ok \in BOOLEAN BY <1>2, OutcomeKeyed
<1>7. QED BY <1>4, <1>5, <1>6 DEF TwoRows

\* A batch whose SELECT is fresh is stored unless two of its rows lead to one contact,
\* whatever else its phones and emails do (the INSERT ... ON CONFLICT (id)).
THEOREM FreshIsStored == Spec => []FreshBatchIsStored
<1>1. TypeInv => FreshBatchIsStored
    <2>1. SUFFICES ASSUME TypeInv, NEW w \in Writers, Fresh(w)
                   PROVE  Outcome(batch[w], snapshot[w], contacts, w).ok <=> ~TwoRowsOneTarget(w)
        BY DEF FreshBatchIsStored
    <2>2. batch[w] \in Seq(Input) /\ Keyed(contacts) /\ snapshot[w] = Matching(batch[w], contacts)
        BY <2>1 DEF TypeInv, Fresh
    <2>3. TwoRowsOneTarget(w) <=> TwoRows(batch[w], snapshot[w])
        BY DEF TwoRowsOneTarget, TwoRows
    <2>4. QED BY <2>2, <2>3, StoredWhenApart
<1>2. QED BY <1>1, TypeInvariant, PTL

(***************************************************************************)
(* Storing a batch again                                                   *)
(***************************************************************************)

\* A batch whose phones are all in the table is stored and nothing is inserted: every
\* row leads to the contact with its phone.
LEMMA NothingToAdd ==
    ASSUME NEW inputs \in Seq(Input), NEW table, Keyed(table), NEW source \in Writers,
           \A input \in ToSet(UniqueInputs(inputs)) :
                \E id \in DOMAIN table : table[id].phone = input.phone
    PROVE  LET again == Outcome(inputs, Matching(inputs, table), table, source)
           IN  again.ok /\ DOMAIN again.table = DOMAIN table
<1> DEFINE next == Matching(inputs, table)
           again == Outcome(inputs, next, table, source)
           kept == UniqueInputs(inputs)
<1>1. \A input \in ToSet(kept) : \E id \in DOMAIN table :
        table[id].phone = input.phone /\ Target(input, next) = {id}
    <2>1. ASSUME NEW input \in ToSet(kept), NEW id \in DOMAIN table,
                 table[id].phone = input.phone
          PROVE  Target(input, next) = {id}
        BY <2>1, FreshTargets
    <2> HIDE DEF kept, next
    <2>2. QED BY <2>1 DEF kept
<1>2. ~TwoRows(inputs, next)
    <2>1. SUFFICES ASSUME NEW i \in DOMAIN kept, NEW j \in DOMAIN kept, i # j,
                          Target(kept[i], next) \intersect Target(kept[j], next) # {}
                   PROVE  FALSE
        BY DEF TwoRows
    <2>2. kept[i] \in ToSet(kept) /\ kept[j] \in ToSet(kept) BY DEF ToSet
    <2>3. ~SamePerson(kept[i], kept[j]) BY <2>1, KeptRows DEF Apart
    <2> HIDE DEF kept, next
    <2>4. kept[i].phone = kept[j].phone BY <1>1, <2>1, <2>2
    <2>5. QED BY <2>3, <2>4 DEF SamePerson
<1>3. again.ok BY <1>2, StoredWhenApart
<1>4. PICK acc : /\ Progress(acc, Len(kept), kept, next, table, source)
                 /\ again.table = acc.table
    <2>1. next = Matching(inputs, table) OBVIOUS
    <2> HIDE DEF next
    <2>2. QED BY <1>3, <2>1, FreshOutcome
<1>5. DOMAIN kept = 1..Len(kept) BY KeptRows
<1>6. \A k \in 1..Len(kept) : Target(kept[k], next) # {} /\ Chosen(kept[k], next) \in DOMAIN table
    <2>1. ASSUME NEW k \in 1..Len(kept)
          PROVE  Target(kept[k], next) # {} /\ Chosen(kept[k], next) \in DOMAIN table
        <3>1. kept[k] \in ToSet(kept) BY <1>5 DEF ToSet
        <3> HIDE DEF kept, next
        <3>2. PICK id \in DOMAIN table : Target(kept[k], next) = {id} BY <1>1, <3>1
        <3>3. QED BY <3>2 DEF Chosen
    <2>2. QED BY <2>1
<1> HIDE DEF kept, next
<1>7. \A id \in acc.touched : id \in DOMAIN table BY <1>4, <1>6 DEF Progress, Holds
<1>8. DOMAIN acc.table = DOMAIN table BY <1>4, <1>7 DEF Progress
<1> HIDE DEF again
<1>9. QED BY <1>3, <1>4, <1>8 DEF again, next

\* A stored batch leaves the phones of its rows in the table.
LEMMA PhonesStored ==
    ASSUME NEW inputs \in Seq(Input), NEW table, Keyed(table), NEW source \in Writers
    PROVE  LET once == Outcome(inputs, Matching(inputs, table), table, source)
           IN  /\ Keyed(once.table) /\ once.ok \in BOOLEAN
               /\ once.ok => \A input \in ToSet(UniqueInputs(inputs)) :
                    \E id \in DOMAIN once.table : once.table[id].phone = input.phone
<1> DEFINE found == Matching(inputs, table)
           once == Outcome(inputs, found, table, source)
<1>1. Keyed(once.table) /\ once.ok \in BOOLEAN
    <2>1. found \in [DOMAIN found -> Contact] BY MatchingTyped
    <2> HIDE DEF found
    <2>2. QED BY <2>1, OutcomeKeyed
<1>2. ASSUME once.ok = TRUE, NEW input \in ToSet(UniqueInputs(inputs))
      PROVE  \E id \in DOMAIN once.table : once.table[id].phone = input.phone
    <2>1. once.ok BY <1>2
    <2> HIDE DEF found
    <2>2. found = Matching(inputs, table) BY DEF found
    <2>3. \E id \in DOMAIN once.table : once.table[id] = Merge(input, found, source)
        BY <2>1, <2>2, InsertUpdates
    <2> HIDE DEF once
    <2>4. Merge(input, found, source).phone = input.phone BY DEF Merge
    <2>5. QED BY <2>3, <2>4
<1> HIDE DEF once
<1>3. QED BY <1>1, <1>2 DEF once

\* A batch in between leaves them there unless it moves one of their contacts.
LEMMA PhonesKept ==
    ASSUME NEW inputs \in Seq(Input), NEW others \in Seq(Input), NEW table, Keyed(table),
           NEW source \in Writers,
           \A input \in ToSet(UniqueInputs(inputs)) :
                \E id \in DOMAIN table : table[id].phone = input.phone,
           \A input \in ToSet(UniqueInputs(inputs)), other \in ToSet(UniqueInputs(others)) :
                \A id \in DOMAIN table :
                    table[id].phone = input.phone /\ SamePerson(other, table[id])
                        => other.phone = input.phone
    PROVE  LET between == Outcome(others, Matching(others, table), table, source).table
           IN  /\ Keyed(between)
               /\ \A input \in ToSet(UniqueInputs(inputs)) :
                    \E id \in DOMAIN between : between[id].phone = input.phone
<1> DEFINE found == Matching(others, table)
           outcome == Outcome(others, found, table, source)
           between == outcome.table
<1>1. Keyed(between) /\ outcome.ok \in BOOLEAN BY PhonesStored
<1>2. CASE outcome.ok = FALSE
    <2>1. between = table BY <1>2 DEF Outcome
    <2> HIDE DEF outcome
    <2>2. QED BY <1>1, <2>1 DEF outcome
<1>3. CASE outcome.ok = TRUE
    <2>1. /\ DOMAIN table \subseteq DOMAIN between
          /\ \A id \in DOMAIN between :
                \/ id \in DOMAIN table /\ between[id] = table[id]
                \/ \E other \in ToSet(UniqueInputs(others)) :
                    /\ id \in DOMAIN table => id \in Target(other, found)
                    /\ between[id] = Merge(other, found, source)
        <3>1. outcome.ok BY <1>3
        <3> HIDE DEF found
        <3>2. found = Matching(others, table) BY DEF found
        <3>3. QED BY <3>1, <3>2, InsertUpdates
    <2>2. \A other \in ToSet(UniqueInputs(others)) : \A id \in Target(other, found) :
                SamePerson(other, table[id])
        BY FreshTargets
    <2> HIDE DEF outcome, found
    <2>3. ASSUME NEW input \in ToSet(UniqueInputs(inputs))
          PROVE  \E id \in DOMAIN between : between[id].phone = input.phone
        <3>1. PICK id \in DOMAIN table : table[id].phone = input.phone OBVIOUS
        <3>2. id \in DOMAIN between BY <2>1
        <3>3. ASSUME NEW other \in ToSet(UniqueInputs(others)), id \in Target(other, found),
                     between[id] = Merge(other, found, source)
              PROVE  between[id].phone = input.phone
            <4>1. other.phone = input.phone BY <2>2, <3>1, <3>3
            <4>2. Merge(other, found, source).phone = other.phone BY DEF Merge
            <4>3. QED BY <3>3, <4>1, <4>2
        <3>4. QED BY <2>1, <3>1, <3>2, <3>3
    <2>4. QED BY <1>1, <2>3 DEF outcome, found
<1>4. QED BY <1>1, <1>2, <1>3

\* A retry of a job stores its rows once more without adding a contact, for batches
\* and tables of any size, also when another batch that moves none of their contacts
\* was stored since.
THEOREM RerunIsIdle == Spec => []RerunAddsNothing
<1>1. TypeInv => RerunAddsNothing
    <2> DEFINE Store(x, table) == Outcome(batch[x], Matching(batch[x], table), table, x)
    <2>1. SUFFICES ASSUME TypeInv, NEW w \in Writers, NEW v \in Writers, Fresh(w),
                          Store(w, contacts).ok,
                          KeepsPhones(v, w, Store(w, contacts).table)
                   PROVE  LET between == Store(v, Store(w, contacts).table).table
                              again == Store(w, between)
                          IN  again.ok /\ DOMAIN again.table = DOMAIN between
        BY DEF RerunAddsNothing
    <2> DEFINE stored == Store(w, contacts).table
               between == Store(v, stored).table
    <2>2. batch[w] \in Seq(Input) /\ batch[v] \in Seq(Input) /\ Keyed(contacts)
        BY <2>1 DEF TypeInv
    <2>3. Keyed(stored) /\ \A input \in ToSet(UniqueInputs(batch[w])) :
                \E id \in DOMAIN stored : stored[id].phone = input.phone
        BY <2>1, <2>2, PhonesStored
    <2>4. KeepsPhones(v, w, stored) BY <2>1
    <2> HIDE DEF stored
    <2>5. \A input \in ToSet(UniqueInputs(batch[w])), other \in ToSet(UniqueInputs(batch[v])) :
                \A id \in DOMAIN stored :
                    stored[id].phone = input.phone /\ SamePerson(other, stored[id])
                        => other.phone = input.phone
        BY <2>4 DEF KeepsPhones
    <2>6. Keyed(between) /\ \A input \in ToSet(UniqueInputs(batch[w])) :
                \E id \in DOMAIN between : between[id].phone = input.phone
        BY <2>2, <2>3, <2>5, PhonesKept
    <2> HIDE DEF between
    <2>7. Store(w, between).ok /\ DOMAIN Store(w, between).table = DOMAIN between
        BY <2>2, <2>6, NothingToAdd
    <2>8. QED BY <2>7 DEF between, stored
<1>2. QED BY <1>1, TypeInvariant, PTL

(***************************************************************************)
(* Two batches that have nothing in common                                 *)
(***************************************************************************)

\* The email a row is stored with is its own, its target's, or none.
LEMMA MergedEmail ==
    ASSUME NEW inputs, NEW table, Keyed(table), NEW input \in ToSet(UniqueInputs(inputs)),
           NEW found, found = Matching(inputs, table)
    PROVE  \/ MergeEmail(input, found) \in {input.email, NoEmail}
           \/ \E id \in Target(input, found) : MergeEmail(input, found) = table[id].email
<1>1. CASE Target(input, found) = {} BY <1>1 DEF MergeEmail, OldValue
<1>2. CASE Target(input, found) # {}
    <2>1. PICK id \in Target(input, found) : TRUE BY <1>2
    <2>2. OldValue(input, found, "email", NoEmail) = table[id]["email"]
        BY <2>1, FreshTargets
    <2>3. MergeEmail(input, found) \in {input.email, table[id].email}
        BY <2>2 DEF MergeEmail
    <2>4. QED BY <2>1, <2>3
<1>3. QED BY <1>1, <1>2

Strangers(a, b, table) ==
    /\ DOMAIN Matching(a, table) \intersect DOMAIN Matching(b, table) = {}
    /\ ~ \E x \in ToSet(a), y \in ToSet(b) : SamePerson(x, y)

\* A batch that is stored leaves the contacts another one found, and makes no others
\* for it.
LEMMA StaysFresh ==
    ASSUME NEW a \in Seq(Input), NEW b \in Seq(Input), NEW table, Keyed(table),
           NEW source \in Writers, Strangers(a, b, table), NEW new,
           new = Outcome(a, Matching(a, table), table, source).table
    PROVE  Matching(b, new) = Matching(b, table)
<1> DEFINE found == Matching(a, table)
           outcome == Outcome(a, found, table, source)
<1>1. found \in [DOMAIN found -> Contact] BY MatchingTyped
<1>2. outcome.ok \in BOOLEAN /\ Keyed(new)
    <2> HIDE DEF found
    <2>1. outcome.ok \in BOOLEAN /\ Keyed(outcome.table) BY <1>1, OutcomeKeyed
    <2>2. QED BY <2>1 DEF found
<1>3. ~outcome.ok => new = table BY DEF Outcome
<1>4. outcome.ok =>
        /\ DOMAIN table \subseteq DOMAIN new
        /\ \A id \in DOMAIN new :
            \/ id \in DOMAIN table /\ new[id] = table[id]
            \/ \E input \in ToSet(UniqueInputs(a)) :
                /\ id \in DOMAIN table => id \in Target(input, found)
                /\ new[id] = Merge(input, found, source)
    <2>1. found = Matching(a, table) /\ new = outcome.table OBVIOUS
    <2> HIDE DEF found
    <2>2. QED BY <2>1, InsertUpdates
<1> HIDE DEF outcome
<1> DEFINE Wants(c) == \E input \in ToSet(UniqueInputs(b)) : SamePerson(input, c)
<1>5. \A x \in ToSet(UniqueInputs(a)), y \in ToSet(UniqueInputs(b)) : ~SamePerson(x, y)
    BY KeptRows DEF Strangers
<1>5a. \A t : /\ \A id : id \in DOMAIN Matching(b, t) <=> id \in DOMAIN t /\ Wants(t[id])
              /\ \A id \in DOMAIN Matching(b, t) : Matching(b, t)[id] = t[id]
    <2>1. SUFFICES ASSUME NEW t
                   PROVE  /\ \A id : id \in DOMAIN Matching(b, t) <=> id \in DOMAIN t /\ Wants(t[id])
                          /\ \A id \in DOMAIN Matching(b, t) : Matching(b, t)[id] = t[id]
        OBVIOUS
    <2>2. QED BY FoundContacts
<1>6. \A id : id \in DOMAIN Matching(b, table) <=> id \in DOMAIN table /\ Wants(table[id])
    BY <1>5a
<1>7. \A id : id \in DOMAIN Matching(b, new) <=> id \in DOMAIN new /\ Wants(new[id])
    <2> HIDE DEF Wants
    <2>1. QED BY <1>5a
<1>8. ASSUME NEW id \in DOMAIN Matching(b, table)
      PROVE  id \in DOMAIN new /\ new[id] = table[id]
    <2>1. id \in DOMAIN table BY <1>6
    <2>2. id \notin DOMAIN found BY DEF Strangers
    <2>3. \A input \in ToSet(UniqueInputs(a)) : id \notin Target(input, found)
        BY <2>2, FreshTargets
    <2>4. QED BY <1>2, <1>3, <1>4, <2>1, <2>3
<1>9. ASSUME NEW id \in DOMAIN new, Wants(new[id])
      PROVE  id \in DOMAIN table /\ new[id] = table[id]
    <2>1. SUFFICES ASSUME NEW x \in ToSet(UniqueInputs(a)), new[id] = Merge(x, found, source)
                   PROVE  FALSE
        BY <1>2, <1>3, <1>4
    <2>2. PICK y \in ToSet(UniqueInputs(b)) : SamePerson(y, new[id]) BY <1>9
    <2>3. new[id].phone = x.phone /\ new[id].email = MergeEmail(x, found)
        BY <2>1 DEF Merge
    <2>4. ~SamePerson(x, y) BY <1>5
    <2>5. y.email # NoEmail /\ y.email = MergeEmail(x, found) /\ y.email # x.email
        BY <2>2, <2>3, <2>4 DEF SamePerson
    <2>6. PICK i \in Target(x, found) : MergeEmail(x, found) = table[i].email
        BY <2>5, MergedEmail
    <2>7. i \in DOMAIN table /\ i \in DOMAIN found BY <2>6, FreshTargets
    <2>8. SamePerson(y, table[i]) BY <2>5, <2>6 DEF SamePerson
    <2>9. i \in DOMAIN Matching(b, table) BY <1>6, <2>7, <2>8
    <2>10. QED BY <2>7, <2>9 DEF Strangers
<1> DEFINE before == Matching(b, table)
           after == Matching(b, new)
<1>10. DOMAIN after = DOMAIN before
    <2> HIDE DEF Wants
    <2>1. QED BY <1>6, <1>7, <1>8, <1>9
<1>11. \A id \in DOMAIN before : after[id] = before[id]
    <2>1. /\ \A id \in DOMAIN before : before[id] = table[id]
          /\ \A id \in DOMAIN after : after[id] = new[id]
        <3> HIDE DEF Wants
        <3>1. QED BY <1>5a
    <2> HIDE DEF before, after, Wants
    <2>2. QED BY <1>8, <1>10, <2>1 DEF before
<1>12. before \in [DOMAIN before -> Contact] /\ after \in [DOMAIN after -> Contact]
    BY <1>2, MatchingTyped
<1> HIDE DEF before, after
<1>13. after = before BY <1>10, <1>11, <1>12
<1>14. QED BY <1>13 DEF after, before

\* The contacts a batch is about.
Hit(inputs, found) == UNION {Target(input, found) : input \in ToSet(UniqueInputs(inputs))}

Merged(inputs, found, source) == {Merge(input, found, source) : input \in ToSet(UniqueInputs(inputs))}

\* The contacts of a table but for some ids.
Others(table, ids) == {table[id] : id \in DOMAIN table \ ids}

\* Whatever contacts are left aside, of which the batch is not about any, those it is
\* about are replaced by the merged ones.
Replaces(inputs, found, source, table, new, ids) ==
    Others(new, ids) =
        Others(table, ids \union Hit(inputs, found)) \union Merged(inputs, found, source)

LEMMA StoredContacts ==
    ASSUME NEW inputs \in Seq(Input), NEW table, Keyed(table), NEW source \in Writers,
           NEW found, found = Matching(inputs, table),
           NEW ids, \A id \in ids : id \in DOMAIN table /\ id \notin Hit(inputs, found)
    PROVE  LET outcome == Outcome(inputs, found, table, source)
           IN  outcome.ok => Replaces(inputs, found, source, table, outcome.table, ids)
<1> DEFINE outcome == Outcome(inputs, found, table, source)
           rows == UniqueInputs(inputs)
           N == Len(rows)
           hit == Hit(inputs, found)
<1>1. ToSet(rows) = {rows[i] : i \in 1..N} BY KeptRows DEF ToSet
<1>2. \A k \in 1..N : Target(rows[k], found) # {} =>
        /\ Chosen(rows[k], found) \in hit
        /\ \A id \in Target(rows[k], found) : id = Chosen(rows[k], found)
    <2>1. SUFFICES ASSUME NEW k \in 1..N, Target(rows[k], found) # {}
                   PROVE  /\ Chosen(rows[k], found) \in hit
                          /\ \A id \in Target(rows[k], found) : id = Chosen(rows[k], found)
        OBVIOUS
    <2>2. rows[k] \in ToSet(rows) BY <1>1
    <2>3. \A id \in Target(rows[k], found) : id = Chosen(rows[k], found)
        BY <2>2, FreshTargets
    <2> HIDE DEF rows, N
    <2>4. QED BY <2>1, <2>2, <2>3 DEF Hit, rows
<1>3. \A id \in hit : \E k \in 1..N : id \in Target(rows[k], found)
    <2> HIDE DEF N
    <2>1. QED BY <1>1 DEF Hit
<1>4. Merged(inputs, found, source) = {Merge(rows[k], found, source) : k \in 1..N}
    <2> HIDE DEF N
    <2>1. QED BY <1>1 DEF Merged
<1>5. outcome.ok => \E acc : /\ Progress(acc, N, rows, found, table, source)
                            /\ outcome.table = acc.table
    BY FreshOutcome
<1> HIDE DEF outcome, rows, N, hit
<1>6. ASSUME NEW acc, Progress(acc, N, rows, found, table, source)
      PROVE  Others(acc.table, ids) = Others(table, ids \union hit) \union Merged(inputs, found, source)
    <2>1. ASSUME NEW id \in acc.touched, NEW k \in 1..N,
                 Holds(acc, id, rows[k], found, table, source)
          PROVE  /\ id \notin DOMAIN table \/ id \in hit
                 /\ id \in DOMAIN acc.table \ ids /\ acc.table[id] = Merge(rows[k], found, source)
        <3>1. id \notin DOMAIN table \/ id \in hit BY <1>2, <2>1 DEF Holds
        <3>2. id \notin ids BY <3>1 DEF hit
        <3>3. QED BY <1>6, <2>1, <3>1, <3>2 DEF Holds, Progress
    <2>2. ASSUME NEW id \in hit PROVE id \in acc.touched
        <3>1. PICK k \in 1..N : id \in Target(rows[k], found) BY <1>3
        <3>2. PICK i \in acc.touched : Holds(acc, i, rows[k], found, table, source)
            BY <1>6 DEF Progress
        <3>3. QED BY <1>2, <3>1, <3>2 DEF Holds
    <2>3. ASSUME NEW c \in Others(acc.table, ids)
          PROVE  c \in Others(table, ids \union hit) \union Merged(inputs, found, source)
        <3>1. PICK id \in DOMAIN acc.table \ ids : c = acc.table[id] BY DEF Others
        <3>2. CASE id \in acc.touched
            <4>1. PICK k \in 1..N : Holds(acc, id, rows[k], found, table, source)
                BY <1>6, <3>2 DEF Progress
            <4>2. QED BY <1>4, <3>1, <4>1 DEF Holds
        <3>3. CASE id \notin acc.touched
            <4>1. id \in DOMAIN table /\ c = table[id] BY <1>6, <3>1, <3>3 DEF Progress
            <4>2. id \notin hit BY <2>2, <3>3
            <4>3. QED BY <3>1, <4>1, <4>2 DEF Others
        <3>4. QED BY <3>2, <3>3
    <2>4. ASSUME NEW c \in Others(table, ids \union hit) PROVE c \in Others(acc.table, ids)
        <3>1. PICK id \in DOMAIN table \ (ids \union hit) : c = table[id] BY DEF Others
        <3>2. id \notin acc.touched
            <4>1. SUFFICES ASSUME id \in acc.touched PROVE FALSE OBVIOUS
            <4>2. PICK k \in 1..N : Holds(acc, id, rows[k], found, table, source)
                BY <1>6, <4>1 DEF Progress
            <4>3. QED BY <2>1, <3>1, <4>1, <4>2
        <3>3. id \in DOMAIN acc.table /\ acc.table[id] = table[id]
            BY <1>6, <3>1, <3>2 DEF Progress
        <3>4. QED BY <3>1, <3>3 DEF Others
    <2>5. ASSUME NEW c \in Merged(inputs, found, source) PROVE c \in Others(acc.table, ids)
        <3>1. PICK k \in 1..N : c = Merge(rows[k], found, source) BY <1>4
        <3>2. PICK id \in acc.touched : Holds(acc, id, rows[k], found, table, source)
            BY <1>6 DEF Progress
        <3>3. QED BY <2>1, <3>1, <3>2 DEF Others
    <2>6. QED BY <2>3, <2>4, <2>5
<1>7. QED BY <1>5, <1>6 DEF Replaces, outcome, hit

\* Stored one after the other, two batches of strangers leave the contacts neither is
\* about, and the merged ones of both that are stored.
LEMMA StoredAfter ==
    ASSUME NEW a \in Seq(Input), NEW b \in Seq(Input), NEW table, Keyed(table),
           NEW s \in Writers, NEW t \in Writers, Strangers(a, b, table)
    PROVE  LET first == Outcome(a, Matching(a, table), table, s)
               alone == Outcome(b, Matching(b, table), table, t)
               second == Outcome(b, Matching(b, table), first.table, t)
               hitA == Hit(a, Matching(a, table))
               hitB == Hit(b, Matching(b, table))
           IN  /\ first.ok \in BOOLEAN /\ alone.ok \in BOOLEAN /\ second.ok = alone.ok
               /\ ~first.ok => second.table = alone.table
               /\ ~alone.ok => second.table = first.table
               /\ first.ok /\ alone.ok => Range(second.table) =
                    Others(table, hitA \union hitB)
                        \union (Merged(a, Matching(a, table), s)
                                    \union Merged(b, Matching(b, table), t))
<1> DEFINE foundA == Matching(a, table)
           foundB == Matching(b, table)
           first == Outcome(a, foundA, table, s)
           alone == Outcome(b, foundB, table, t)
           second == Outcome(b, foundB, first.table, t)
           hitA == Hit(a, foundA)
           hitB == Hit(b, foundB)
<1>1. /\ foundA \in [DOMAIN foundA -> Contact] /\ foundB \in [DOMAIN foundB -> Contact]
    BY MatchingTyped
<1>2. foundB = Matching(b, first.table)
    BY StaysFresh
<1>3. hitA \subseteq DOMAIN foundA /\ hitB \subseteq DOMAIN foundB
    BY DEF Hit, Target, ByPhone, ByEmail
<1>4. DOMAIN foundA \subseteq DOMAIN table /\ DOMAIN foundB \subseteq DOMAIN table
    BY FoundContacts
<1>5. foundA = Matching(a, table) /\ foundB = Matching(b, table) OBVIOUS
<1>6. hitB \in SUBSET DOMAIN table /\ hitB \intersect hitA = {}
    BY <1>3, <1>4 DEF Strangers
<1> HIDE DEF foundA, foundB
<1>7. first.ok \in BOOLEAN /\ Keyed(first.table) BY <1>1, OutcomeKeyed
<1>8. alone.ok \in BOOLEAN /\ Keyed(alone.table) BY <1>1, OutcomeKeyed
<1>9. second.ok \in BOOLEAN
    <2> HIDE DEF first
    <2>1. QED BY <1>1, <1>7, OutcomeKeyed
<1>10. alone.ok <=> ~TwoRows(b, foundB) BY <1>5, StoredWhenApart
<1>11. second.ok <=> ~TwoRows(b, foundB)
    <2> HIDE DEF first
    <2>1. QED BY <1>2, <1>7, StoredWhenApart
<1>12. second.ok = alone.ok BY <1>8, <1>9, <1>10, <1>11
<1>13. ~first.ok => first.table = table BY DEF Outcome
<1>14. ~first.ok => second.table = alone.table BY <1>13
<1>15. ~second.ok => second.table = first.table BY DEF Outcome
<1>16. first.ok => Others(first.table, hitB) =
            Others(table, hitB \union hitA) \union Merged(a, foundA, s)
    <2>1. \A id \in hitB : id \in DOMAIN table /\ id \notin Hit(a, foundA) BY <1>6
    <2> HIDE DEF hitB
    <2>2. first.ok => Replaces(a, foundA, s, table, first.table, hitB)
        BY <1>5, <2>1, StoredContacts
    <2>3. QED BY <2>2 DEF Replaces
<1>17. second.ok => Others(second.table, {}) =
            Others(first.table, {} \union hitB) \union Merged(b, foundB, t)
    <2> HIDE DEF first
    <2>1. \A id \in {} : id \in DOMAIN first.table /\ id \notin Hit(b, foundB) OBVIOUS
    <2>2. second.ok => Replaces(b, foundB, t, first.table, second.table, {})
        BY <1>2, <1>7, <2>1, StoredContacts
    <2>3. QED BY <2>2 DEF Replaces
<1>18. Range(second.table) = Others(second.table, {}) BY DEF Range, Others
<1>19. hitA \union hitB = hitB \union hitA /\ {} \union hitB = hitB OBVIOUS
<1> HIDE DEF first, alone, second, hitA, hitB
<1>20. first.ok /\ alone.ok => Range(second.table) =
            Others(table, hitA \union hitB)
                \union (Merged(a, foundA, s) \union Merged(b, foundB, t))
    BY <1>12, <1>16, <1>17, <1>18, <1>19
<1>21. QED
    BY <1>7, <1>8, <1>12, <1>14, <1>15, <1>20
    DEF foundA, foundB, first, alone, second, hitA, hitB

\* Whichever of two batches of strangers is stored first.
LEMMA EitherFirst ==
    ASSUME NEW a \in Seq(Input), NEW b \in Seq(Input), NEW table, Keyed(table),
           NEW s \in Writers, NEW t \in Writers, Strangers(a, b, table)
    PROVE  LET foundA == Matching(a, table)
               foundB == Matching(b, table)
               onlyA == Outcome(a, foundA, table, s)
               onlyB == Outcome(b, foundB, table, t)
               aFirst == Outcome(b, foundB, onlyA.table, t)
               bFirst == Outcome(a, foundA, onlyB.table, s)
           IN  aFirst.ok = onlyB.ok /\ Range(aFirst.table) = Range(bFirst.table)
<1> DEFINE foundA == Matching(a, table)
           foundB == Matching(b, table)
           hitA == Hit(a, foundA)
           hitB == Hit(b, foundB)
           mergedA == Merged(a, foundA, s)
           mergedB == Merged(b, foundB, t)
           onlyA == Outcome(a, foundA, table, s)
           onlyB == Outcome(b, foundB, table, t)
           aFirst == Outcome(b, foundB, onlyA.table, t)
           bFirst == Outcome(a, foundA, onlyB.table, s)
<1>1. Strangers(b, a, table) BY DEF Strangers, SamePerson
<1>2. /\ onlyA.ok \in BOOLEAN /\ onlyB.ok \in BOOLEAN /\ aFirst.ok = onlyB.ok
      /\ ~onlyA.ok => aFirst.table = onlyB.table
      /\ ~onlyB.ok => aFirst.table = onlyA.table
      /\ onlyA.ok /\ onlyB.ok => Range(aFirst.table) =
            Others(table, hitA \union hitB) \union (mergedA \union mergedB)
    BY StoredAfter
<1>3. /\ onlyB.ok \in BOOLEAN /\ onlyA.ok \in BOOLEAN /\ bFirst.ok = onlyA.ok
      /\ ~onlyB.ok => bFirst.table = onlyA.table
      /\ ~onlyA.ok => bFirst.table = onlyB.table
      /\ onlyB.ok /\ onlyA.ok => Range(bFirst.table) =
            Others(table, hitB \union hitA) \union (mergedB \union mergedA)
    BY <1>1, StoredAfter
<1>4. hitA \union hitB = hitB \union hitA /\ mergedA \union mergedB = mergedB \union mergedA
    OBVIOUS
<1> HIDE DEF hitA, hitB, mergedA, mergedB, onlyA, onlyB, aFirst, bFirst
<1>5. Range(aFirst.table) = Range(bFirst.table)
    <2>1. CASE onlyA.ok /\ onlyB.ok BY <1>2, <1>3, <1>4, <2>1
    <2>2. CASE ~onlyA.ok BY <1>2, <1>3, <2>2
    <2>3. CASE ~onlyB.ok BY <1>2, <1>3, <2>3
    <2>4. QED BY <2>1, <2>2, <2>3
<1>6. QED BY <1>2, <1>5 DEF onlyA, onlyB, aFirst, bFirst

\* ApartBatchesCommute: two handlers whose batches have no phone, no email and no
\* found contact in common may run their INSERTs in either order: each is stored or
\* fails as it would alone, and the segment ends up with the same contacts.
THEOREM EitherOrder == Spec => []ApartBatchesCommute
<1>1. ASSUME TypeInv, NEW w \in Writers, NEW v \in Writers,
             Fresh(w), Fresh(v),
             DOMAIN snapshot[w] \intersect DOMAIN snapshot[v] = {},
             ~ \E a \in ToSet(batch[w]), b \in ToSet(batch[v]) : SamePerson(a, b)
      PROVE  LET After(x, table) == Outcome(batch[x], snapshot[x], table, x)
                 wFirst == After(v, After(w, contacts).table)
                 vFirst == After(w, After(v, contacts).table)
             IN  /\ wFirst.ok = After(v, contacts).ok
                 /\ Range(wFirst.table) = Range(vFirst.table)
    <2>1. /\ batch[w] \in Seq(Input) /\ batch[v] \in Seq(Input) /\ Keyed(contacts)
          /\ snapshot[w] = Matching(batch[w], contacts)
          /\ snapshot[v] = Matching(batch[v], contacts)
        BY <1>1 DEF TypeInv, Fresh
    <2>2. Strangers(batch[w], batch[v], contacts) BY <1>1, <2>1 DEF Strangers
    <2>3. QED BY <2>1, <2>2, EitherFirst
<1>2. TypeInv => ApartBatchesCommute
    BY <1>1 DEF ApartBatchesCommute
<1>3. QED BY <1>2, TypeInvariant, PTL

=============================================================================
