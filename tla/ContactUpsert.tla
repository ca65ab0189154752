--------------------------- MODULE ContactUpsert ----------------------------
(***************************************************************************)
(* bulkUpsertContacts: a batch of normalised rows goes into one segment of  *)
(* the contacts table with a SELECT, a merge in memory and an INSERT ... ON *)
(* CONFLICT (id), without a transaction around them.  Writers are batches   *)
(* of concurrent handlers; the two deletions of the delete routes may come  *)
(* at any time.                                                             *)
(*                                                                          *)
(* Abstracted: one segment (every query names one).  Of the merged columns, *)
(* one stands for all: opt, an opt-out flag.  normaliseRow has lowercased   *)
(* the emails, and leaves out an email it cannot read.  PostgreSQL is not   *)
(* under src/: a statement is atomic, and its unique indexes (migrations    *)
(* 001 and 003) are checked row by row.                                     *)
(***************************************************************************)
EXTENDS Integers, FiniteSets, SequencesExt

CONSTANTS
    Writers,         \* batches, each of a job of its own
    Phones, Emails,
    NoEmail,         \* a NULL or missing email
    Seed,            \* the source of the contacts that are there at the start
    Batches,         \* the batches each writer may be given
    SeedTables       \* the tables to start from

ASSUME NamesAssumption ==
    /\ NoEmail \notin Emails
    /\ Seed \notin Writers

\* A row of the batch: a column that was not mapped, or holds no boolean, is
\* undefined, here "unset".
Input == [phone : Phones, email : Emails \union {NoEmail},
          opt : {"yes", "no", "unset"}]

Contact == [phone : Phones, email : Emails \union {NoEmail},
            opt : {"yes", "no"}, source : Writers \union {Seed}]

ASSUME BatchesAssumption ==
    Batches \in [Writers -> SUBSET (Seq(Input) \ {<<>>})]

SamePerson(a, b) ==
    \/ a.phone = b.phone
    \/ a.email # NoEmail /\ a.email = b.email

\* What the unique indexes let into the table.
Keyed(table) ==
    /\ table \in [DOMAIN table -> Contact] /\ IsFiniteSet(DOMAIN table)
    /\ \A i, j \in DOMAIN table : i # j => ~SamePerson(table[i], table[j])

ASSUME SeedsAssumption == \A table \in SeedTables : Keyed(table)

VARIABLES
    contacts,    \* the table: a function from ids to contacts
    pc,          \* where each writer stands
    batch,       \* the rows each writer was given
    snapshot     \* what each writer's SELECT returned

vars == <<contacts, pc, batch, snapshot>>

(***************************************************************************)
(* The algorithm                                                           *)
(***************************************************************************)

\* Step 1, last one wins: a row is dropped when a later row that was kept has
\* its phone or its email.
UniqueInputs(inputs) ==
    LET Keep(input, kept) ==
            IF \E later \in ToSet(kept) : SamePerson(input, later)
            THEN kept ELSE <<input>> \o kept
    IN  FoldRight(Keep, inputs, <<>>)

\* Fault: contacts are looked up by phone only.
MatchingPhone(inputs, table) ==
    RestrictValues(table,
        LAMBDA c : \E input \in ToSet(UniqueInputs(inputs)) : input.phone = c.phone)

\* Fault: contacts are looked up by email only.
MatchingEmail(inputs, table) ==
    RestrictValues(table,
        LAMBDA c : \E input \in ToSet(UniqueInputs(inputs)) :
            c.email # NoEmail /\ input.email = c.email)

\* Step 2: the SELECT, by phone or email.
Matching(inputs, table) ==
    RestrictValues(table,
        LAMBDA c : \E input \in ToSet(UniqueInputs(inputs)) : SamePerson(input, c))

ByPhone(input, found) == {id \in DOMAIN found : found[id].phone = input.phone}
ByEmail(input, found) ==
    {id \in DOMAIN found : input.email # NoEmail /\ found[id].email = input.email}

\* The ids a row is to update: the phone match goes before the email match, and
\* there is none for a new contact.
Target(input, found) ==
    IF ByPhone(input, found) # {} THEN ByPhone(input, found)
    ELSE ByEmail(input, found)

\* The value of the contact a row is to update, or the default of a new one.
OldValue(input, found, field, default) ==
    IF Target(input, found) = {} THEN default
    ELSE found[CHOOSE id \in Target(input, found) : TRUE][field]

\* Fault: a row takes its email even from another contact.
MergeTakesEmail(input, found) ==
    IF input.email = NoEmail THEN OldValue(input, found, "email", NoEmail)
    ELSE input.email

\* Fault: a row without an email erases the contact's.
MergeClearsEmail(input, found) == input.email

\* When a row's phone and email belong to different contacts, the one with the
\* phone is updated and keeps its email.
MergeEmail(input, found) ==
    LET crossLink == /\ ByEmail(input, found) # {}
                     /\ ByEmail(input, found) # Target(input, found)
    IN  IF input.email = NoEmail \/ crossLink
        THEN OldValue(input, found, "email", NoEmail) ELSE input.email

\* Fault: an undefined value becomes the default.
MergeDefault(input, found) == IF input.opt = "unset" THEN "no" ELSE input.opt

\* The input's value where there is one, else the contact's, else the default.
MergeOpt(input, found) ==
    IF input.opt = "unset" THEN OldValue(input, found, "opt", "no") ELSE input.opt

\* Step 3 of the comment, for one row.
Merge(input, found, source) ==
    [phone |-> input.phone, email |-> MergeEmail(input, found),
     opt |-> MergeOpt(input, found), source |-> source]

NewId(table) == CHOOSE id \in 1..Cardinality(DOMAIN table) + 1 : id \notin DOMAIN table

\* One row of the INSERT.  An id that is there is updated, once per statement;
\* an id that has gone meanwhile, and a new one, are inserted.
StoreRow(acc, entry) ==
    LET id == IF entry.ids = {} THEN NewId(acc.table)
              ELSE CHOOSE i \in entry.ids : TRUE
        violation ==
            \/ id \in acc.touched
            \/ \E other \in DOMAIN acc.table \ {id} :
                    SamePerson(entry.contact, acc.table[other])
    IN  IF ~acc.ok \/ violation THEN [acc EXCEPT !.ok = FALSE]
        ELSE [ok |-> TRUE,
              touched |-> acc.touched \union {id},
              table |-> [i \in DOMAIN acc.table \union {id} |->
                            IF i = id THEN entry.contact ELSE acc.table[i]]]

\* The whole batch: merged against what the SELECT found, stored in the table as
\* it is now.  A statement that fails leaves the table alone.
Outcome(inputs, found, table, source) ==
    LET Entry(input) == [ids |-> Target(input, found),
                         contact |-> Merge(input, found, source)]
        kept == UniqueInputs(inputs)
        stored == FoldLeft(StoreRow, [ok |-> TRUE, touched |-> {}, table |-> table],
                           [i \in DOMAIN kept |-> Entry(kept[i])])
    IN  [ok |-> stored.ok, table |-> IF stored.ok THEN stored.table ELSE table]

(***************************************************************************)
(* The specification                                                       *)
(***************************************************************************)

Init ==
    /\ contacts \in SeedTables
    /\ pc = [w \in Writers |-> "idle"]
    /\ batch = [w \in Writers |-> <<>>]
    /\ snapshot = [w \in Writers |-> <<>>]

Select(w) ==
    /\ pc[w] = "idle"
    /\ \E inputs \in Batches[w] :
        /\ batch' = [batch EXCEPT ![w] = inputs]
        /\ snapshot' = [snapshot EXCEPT ![w] = Matching(inputs, contacts)]
    /\ pc' = [pc EXCEPT ![w] = "selected"]
    /\ UNCHANGED contacts

Insert(w) ==
    LET outcome == Outcome(batch[w], snapshot[w], contacts, w)
    IN  /\ pc[w] = "selected"
        /\ contacts' = outcome.table
        /\ pc' = [pc EXCEPT ![w] = IF outcome.ok THEN "stored" ELSE "failed"]
        /\ UNCHANGED <<batch, snapshot>>

DeleteContactsByBatch(source) ==
    /\ contacts' = RestrictValues(contacts, LAMBDA c : c.source # source)
    /\ UNCHANGED <<pc, batch, snapshot>>

DeleteContactsBySegment ==
    /\ contacts' = <<>>
    /\ UNCHANGED <<pc, batch, snapshot>>

Next ==
    \/ \E w \in Writers : Select(w) \/ Insert(w)
    \/ \E source \in Writers \union {Seed} : DeleteContactsByBatch(source)
    \/ DeleteContactsBySegment

Spec == Init /\ [][Next]_vars

(***************************************************************************)
(* Properties                                                              *)
(***************************************************************************)

\* What a writer's SELECT returned is still what is in the table.
Fresh(w) == snapshot[w] = Matching(batch[w], contacts)

\* Two rows that step 1 kept lead to the same contact: one has its phone, the
\* other its email.
TwoRowsOneTarget(w) ==
    LET kept == UniqueInputs(batch[w])
    IN  \E i, j \in DOMAIN kept :
            i # j /\ Target(kept[i], snapshot[w]) \intersect
                     Target(kept[j], snapshot[w]) # {}

\* Whatever the phones and emails of a batch, cross-links and moved phones
\* included, the INSERT fails only when another writer changed the contacts the
\* batch is about since the SELECT, or when two rows lead to the same contact.
FreshBatchIsStored ==
    \A w \in Writers : pc[w] = "selected" /\ Fresh(w) =>
        (Outcome(batch[w], snapshot[w], contacts, w).ok <=> ~TwoRowsOneTarget(w))

\* Each contact that has the phone of a row of w's batch keeps it when v's batch is
\* stored: no row of v's has its email beside another phone.
KeepsPhones(v, w, table) ==
    \A mine \in ToSet(UniqueInputs(batch[w])), other \in ToSet(UniqueInputs(batch[v])) :
        \A id \in DOMAIN table :
            table[id].phone = mine.phone /\ SamePerson(other, table[id])
                => other.phone = mine.phone

\* A job's retry sends the rows it has already stored once more.  It stores them
\* again and adds no contact, also when another upload's batch was stored in between,
\* as long as that batch moved none of the contacts to another phone: a row whose
\* phone is nobody's any more, and whose email is not, becomes a contact again.
RerunAddsNothing ==
    \A w, v \in Writers : w # v /\ pc[w] = "selected" /\ Fresh(w) =>
        LET Store(x, table) == Outcome(batch[x], Matching(batch[x], table), table, x)
            once == Store(w, contacts)
            between == Store(v, once.table).table
            again == Store(w, between)
        IN  once.ok /\ KeepsPhones(v, w, once.table) =>
                again.ok /\ DOMAIN again.table = DOMAIN between

\* An insert moves a contact to another phone only for a row with its email, and
\* to another email only for a row with its phone; it takes no email away, and
\* every row that was kept finds its phone in the table.
KeysMoveOnlyOnMatch ==
    [][\A w \in Writers : Insert(w) /\ Fresh(w) /\ pc'[w] = "stored" =>
        LET kept == ToSet(UniqueInputs(batch[w]))
        IN  /\ \A input \in kept : \E id \in DOMAIN contacts' :
                    contacts'[id].phone = input.phone
            /\ \A id \in DOMAIN contacts :
                LET old == contacts[id]
                    new == contacts'[id]
                IN  /\ id \in DOMAIN contacts'
                    /\ old.phone # new.phone =>
                        \E input \in kept : /\ input.phone = new.phone
                                            /\ input.email = old.email
                    /\ old.email # new.email => new.email # NoEmail /\
                        \E input \in kept : /\ input.phone = old.phone
                                            /\ input.email = new.email]_vars

\* Two batches that name no phone and no email in common, and found no contact in
\* common, can be stored in either order: both fare the same, and the table ends
\* up with the same contacts.
ApartBatchesCommute ==
    \A w, v \in Writers :
        /\ w # v /\ pc[w] = "selected" /\ pc[v] = "selected"
        /\ Fresh(w) /\ Fresh(v)
        /\ DOMAIN snapshot[w] \intersect DOMAIN snapshot[v] = {}
        /\ ~ \E a \in ToSet(batch[w]), b \in ToSet(batch[v]) : SamePerson(a, b)
        =>
        LET After(x, table) == Outcome(batch[x], snapshot[x], table, x)
            wFirst == After(v, After(w, contacts).table)
            vFirst == After(w, After(v, contacts).table)
        IN  /\ wFirst.ok = After(v, contacts).ok
            /\ Range(wFirst.table) = Range(vFirst.table)

\* An upload that has no opt-out column, or nothing readable in it, takes nobody's
\* opt-out away, as long as its SELECT was fresh.
OptOutKept ==
    [][\A w \in Writers : Insert(w) /\ Fresh(w) =>
        \A id \in DOMAIN contacts :
            contacts[id].opt = "yes" /\ contacts'[id].opt = "no" =>
                \E input \in ToSet(UniqueInputs(batch[w])) :
                    input.opt = "no" /\ SamePerson(input, contacts[id])]_vars

=============================================================================
