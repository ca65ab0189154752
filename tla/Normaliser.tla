----------------------------- MODULE Normaliser -----------------------------
(***************************************************************************)
(* NormaliserService: the pure functions that turn one row of an upload     *)
(* into the input of bulkUpsertContacts.                                    *)
(*                                                                          *)
(* Abstracted: a text is what the functions can tell of it, the digits it   *)
(* holds, whether it starts with a plus, and one of a few words; blanks     *)
(* around it and punctuation are gone, as the functions remove them first.  *)
(* A blank text is empty or only blanks.  "yes" stands for every word that  *)
(* parseBoolean takes for true (true, 1, y, on), "no" for every one it      *)
(* takes for false.  The columns that are copied when they are not blank    *)
(* (name, city, website, ...) are one field, "name", and the three opt-out  *)
(* columns one field, "opt".                                                *)
(***************************************************************************)
EXTENDS Integers, SequencesExt

CONSTANTS
    Unset,     \* a property the input does not have
    Null,
    Index      \* the keys that are whole numbers to JavaScript, and the numbers

ASSUME IndexAssumption ==
    /\ \A key \in DOMAIN Index : Index[key] \in Nat
    /\ \A a, b \in DOMAIN Index : a # b => Index[a] # Index[b]

\* A word with no digits, or ("") nothing but digits and punctuation.
Text(word, plus, digits) == [word |-> word, plus |-> plus, digits |-> digits]
Word(w) == Text(w, FALSE, <<>>)
Blank == Word("")

StandardFields == {"phone", "email", "name", "source_batch_id", "tags", "opt"}
Fields == StandardFields \union {"skip"}

(***************************************************************************)
(* One value                                                               *)
(***************************************************************************)

CountryCode == <<9, 1>>

ValidE164(digits) == Len(digits) \in 7..15

\* Fault: the trunk zero stays.
KeepTrunkZero(raw) ==
    IF Len(raw.digits) = 10 /\ ~raw.plus THEN CountryCode \o raw.digits
    ELSE IF ValidE164(raw.digits) THEN raw.digits ELSE Null

\* The digits of the E.164 number, the plus left out.  Twelve digits that start
\* with the country code are a case of their own in the code, with the result of
\* the last one.
NormalisePhone(raw) ==
    LET stripped == IF raw.digits # <<>> /\ Head(raw.digits) = 0
                    THEN Tail(raw.digits) ELSE raw.digits
        OrNull(digits) == IF ValidE164(digits) THEN digits ELSE Null
    IN  IF Len(raw.digits) < 7 THEN Null
        ELSE IF raw.plus THEN OrNull(raw.digits)
        ELSE IF Len(stripped) = 10 THEN CountryCode \o stripped
        ELSE OrNull(stripped)

\* Placeholders and texts without an @ are no address.
NormaliseEmail(raw) == IF raw.word = "a@b.in" THEN raw ELSE Null

ParseTags(raw) == IF raw = Blank THEN {} ELSE {raw}

ParseBoolean(raw) ==
    CASE raw.word = "yes" -> TRUE
      [] raw.word = "no" \/ raw = Blank -> FALSE
      [] OTHER -> Unset

(***************************************************************************)
(* One row                                                                 *)
(***************************************************************************)

\* A cell of a row as the reader of the file yields it: a text, or a number that
\* an Excel sheet holds as such ("typed").
Cell(text, typed) == [text |-> text, typed |-> typed]

EmptyContact(batchId) ==
    [phone |-> Unset, email |-> Unset, name |-> Unset, tags |-> Unset,
     opt |-> Unset, source_batch_id |-> batchId, custom |-> {}]

\* Fault: a blank cell is stored like any other.
SaysAlways(field, value) == TRUE

\* The switch on the standard field of a column: whether its value is assigned,
Says(field, value) ==
    CASE field \in {"name", "source_batch_id"} -> value # Blank
      [] field = "opt" -> ParseBoolean(value) # Unset
      [] OTHER -> TRUE

\* and which.
FieldValue(field, value) ==
    CASE field = "email" -> IF NormaliseEmail(value) = Null THEN Unset ELSE value
      [] field = "tags" -> ParseTags(value)
      [] field = "opt" -> ParseBoolean(value)
      [] OTHER -> value

\* row is a function from the keys of a row to the place at which the key came and
\* the cell.  Object.entries yields whole numbers first, in their order, and the
\* other keys in the order in which they came.
Before(row, a, b) ==
    IF a \in DOMAIN Index THEN b \notin DOMAIN Index \/ Index[a] < Index[b]
    ELSE b \notin DOMAIN Index /\ row[a].place < row[b].place

\* fieldMapping is a function on some keys.  Of the columns that are mapped to one
\* field the last that says something about it counts.  The result says that the
\* row is "accepted", is "missing" a phone, has an "invalid" one, or that the call
\* "throws".
NormaliseRow(row, fieldMapping, batchId) ==
    LET Mapped(key) == key \in DOMAIN fieldMapping /\ fieldMapping[key] # "skip"
        Given(field) == {key \in DOMAIN row :
            /\ Mapped(key) /\ fieldMapping[key] = field
            /\ Says(field, row[key].cell.text)}
        Latest(keys) ==
            CHOOSE key \in keys : \A other \in keys \ {key} : Before(row, other, key)
        Read(field) == IF Given(field) = {} THEN EmptyContact(batchId)[field]
                       ELSE FieldValue(field, row[Latest(Given(field))].cell.text)
        custom == {key \in DOMAIN row : ~Mapped(key)}
        contact == [field \in StandardFields \union {"custom"} |->
                        IF field = "custom" THEN custom ELSE Read(field)]
        Answer(outcome, c) == [outcome |-> outcome, contact |-> c]
    IN  IF \E key \in DOMAIN row : Mapped(key) /\ row[key].cell.typed
        THEN Answer("throws", Null)
        ELSE IF contact["phone"] \in {Unset, Blank}
        THEN Answer("missing", Null)
        ELSE IF NormalisePhone(contact["phone"]) = Null
        THEN Answer("invalid", Null)
        ELSE Answer("accepted",
                    [contact EXCEPT !["phone"] = NormalisePhone(contact["phone"])])
=============================================================================
