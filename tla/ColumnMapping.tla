--------------------------- MODULE ColumnMapping ----------------------------
(***************************************************************************)
(* A file on its way through the upload: csv-parse.worker of the portal     *)
(* shows its columns with a preview, the administrator maps columns to      *)
(* fields, and the normaliser worker of the server reads the file again and *)
(* looks each of its columns up in that mapping.                            *)
(*                                                                          *)
(* Abstracted: a sheet is its header and its first row, of the same length; *)
(* lines and quoted cells are split.  fast-csv and xlsx are not under src/: *)
(* the keys of their rows are the header's texts as they stand in the file; *)
(* fast-csv rejects a file in which a text comes twice, xlsx numbers the    *)
(* second one, keeps numbers, and reads a blank cell as '' and a blank      *)
(* header as __EMPTY.                                                       *)
(***************************************************************************)
EXTENDS Normaliser

CONSTANTS
    Sheets,     \* the files that may be uploaded
    Subscribers \* ten-digit Indian numbers

JobId == Word("job")

\* A header cell is its text without the blanks around it, and those blanks.
Column(name, pad) == [name |-> name, pad |-> pad]
Trimmed(column) == column.name
Padded(column) == column.pad # ""

Texts == [word : STRING, plus : BOOLEAN, digits : Seq(0..9)]

IsSheet(s) ==
    /\ s.kind \in {"csv", "xlsx"}
    /\ s.header \in Seq([name : STRING, pad : STRING])
    /\ s.row \in Seq([text : Texts, typed : BOOLEAN])
    /\ Len(s.row) = Len(s.header)

ASSUME UnsetAssumption == Unset \notin Texts
ASSUME SheetsAssumption == \A s \in Sheets : IsSheet(s)
ASSUME SubscribersAssumption ==
    \A s \in Subscribers : s \in Seq(0..9) /\ Len(s) = 10 /\ s[1] # 0

VARIABLES
    sheet,        \* [kind, header, row]
    step,         \* of the wizard, "stored" once the server has read the row,
                  \* "failed" when it could not
    csvHeaders, previewRow, fieldMapping,
    result        \* what NormaliseRow says of the row

vars == <<sheet, step, csvHeaders, previewRow, fieldMapping, result>>

Init ==
    /\ sheet \in Sheets
    /\ step = "select"
    /\ csvHeaders = <<>>
    /\ previewRow = <<>>
    /\ fieldMapping = <<>>
    /\ result = Null

(***************************************************************************)
(* The portal                                                              *)
(***************************************************************************)

NonBlank(names) ==
    LET Keep(kept, name) == IF name = "" THEN kept ELSE Append(kept, name)
    IN  FoldLeft(Keep, <<>>, names)

\* Fault: blank headers are dropped from a CSV header as well.
ParseNamedHeaders ==
    NonBlank([i \in DOMAIN sheet.header |-> Trimmed(sheet.header[i])])

\* Blank headers stay in a CSV header and are dropped from an Excel one.
ParseHeaders ==
    LET names == [i \in DOMAIN sheet.header |-> Trimmed(sheet.header[i])]
    IN  IF sheet.kind = "csv" THEN names ELSE NonBlank(names)

\* The value shown for a header is the one at the header's position.
ParsePreview(headers) ==
    [name \in ToSet(headers) |->
        sheet.row[Max({i \in DOMAIN headers : headers[i] = name})].text]

\* Columns that are named like a field are mapped to it.
AutoMap(headers) ==
    [name \in ToSet(headers) \intersect StandardFields |-> name]

OnMessage ==
    /\ step = "select"
    /\ csvHeaders' = ParseHeaders
    /\ previewRow' = ParsePreview(csvHeaders')
    /\ fieldMapping' = AutoMap(csvHeaders')
    /\ step' = "map"
    /\ UNCHANGED <<sheet, result>>

SetMapping(header, field) ==
    /\ step = "map"
    /\ fieldMapping' = [name \in DOMAIN fieldMapping \union {header} |->
                            IF name = header THEN field ELSE fieldMapping[name]]
    /\ UNCHANGED <<sheet, step, csvHeaders, previewRow, result>>

CanConfirm == \E name \in DOMAIN fieldMapping : fieldMapping[name] = "phone"

Confirm ==
    /\ step = "map" /\ CanConfirm
    /\ step' = "confirm"
    /\ UNCHANGED <<sheet, csvHeaders, previewRow, fieldMapping, result>>

EditMapping ==
    /\ step = "confirm"
    /\ step' = "map"
    /\ UNCHANGED <<sheet, csvHeaders, previewRow, fieldMapping, result>>

(***************************************************************************)
(* The server                                                              *)
(***************************************************************************)

\* A header's text in the file, as a sequence of the texts it is made of.
TextOf(column) ==
    IF Padded(column) THEN <<column.pad, column.name>>
    ELSE IF column.name = "" /\ sheet.kind = "xlsx" THEN <<"__EMPTY">>
    ELSE <<column.name>>

Numbered(text, n) == [text EXCEPT ![Len(text)] = @ \o "_" \o ToString(n)]

Positions == DOMAIN sheet.header

\* The keys of the reader's rows, column by column; there is one such sequence.  A
\* text that is a key already gets the least number that makes it a new one.
KeysOf ==
    LET text(i) == TextOf(sheet.header[i])
        texts == {text(i) : i \in Positions}
        Numbers(i) == 1..(i - 1)
        New(keys, i, key) == \A j \in 1..(i - 1) : keys[j] # key
    IN  {keys \in [Positions -> texts \union
                        UNION {{Numbered(text(i), n) : n \in Numbers(i)} : i \in Positions}] :
            \A i \in Positions :
                IF sheet.kind = "csv" \/ New(keys, i, text(i)) THEN keys[i] = text(i)
                ELSE \E n \in Numbers(i) :
                        /\ keys[i] = Numbered(text(i), n)
                        /\ New(keys, i, keys[i])
                        /\ \A m \in 1..(n - 1) : ~New(keys, i, Numbered(text(i), m))}

\* A key that comes again keeps its place and takes the new cell.
RowOfReader(keys) ==
    [key \in ToSet(keys) |->
        LET places == {i \in DOMAIN keys : keys[i] = key}
        IN  [place |-> Min(places), cell |-> sheet.row[Max(places)]]]

\* The mapping as the server got it, by key.
MappingByKey ==
    [key \in {<<name>> : name \in DOMAIN fieldMapping} |-> fieldMapping[key[1]]]

NamedTwice ==
    /\ sheet.kind = "csv"
    /\ \E i, j \in Positions :
        /\ i # j /\ TextOf(sheet.header[i]) = TextOf(sheet.header[j])
        /\ TextOf(sheet.header[i]) # <<"">>

ReaderRejects ==
    /\ step = "confirm" /\ NamedTwice
    /\ step' = "failed"
    /\ UNCHANGED <<sheet, csvHeaders, previewRow, fieldMapping, result>>

ReadRow ==
    /\ step = "confirm" /\ ~NamedTwice
    /\ \E keys \in KeysOf :
        result' = NormaliseRow(RowOfReader(keys), MappingByKey, JobId)
    /\ step' = "stored"
    /\ UNCHANGED <<sheet, csvHeaders, previewRow, fieldMapping>>

Next ==
    \/ OnMessage
    \/ \E header \in ToSet(csvHeaders), field \in Fields : SetMapping(header, field)
    \/ Confirm \/ EditMapping
    \/ ReaderRejects \/ ReadRow

Spec == Init /\ [][Next]_vars

(***************************************************************************)
(* Properties                                                              *)
(***************************************************************************)

\* How people write an Indian number.
Spellings(s) ==
    {Text("", FALSE, digits) :
        digits \in {s, <<0>> \o s, CountryCode \o s, <<0>> \o CountryCode \o s}}
    \union {Text("", TRUE, CountryCode \o s)}

StartsWith(digits, prefix) ==
    Len(prefix) <= Len(digits) /\ SubSeq(digits, 1, Len(prefix)) = prefix

\* The phone is half of a contact's identity, so all spellings of one number must
\* give one key; a key must be E.164, and must be read back as itself when an
\* export is uploaded again.  The code lets a leading zero through, which E.164
\* has not, when the text was written with 00 or +0.
OneKeyPerNumber ==
    \A i \in DOMAIN sheet.row :
        LET text == sheet.row[i].text
            key == NormalisePhone(text)
        IN  /\ \A s \in Subscribers : text \in Spellings(s) => key = CountryCode \o s
            /\ key # Null =>
                /\ Len(key) \in 7..15
                /\ Head(key) = 0 =>
                        StartsWith(text.digits, IF text.plus THEN <<0>> ELSE <<0, 0>>)
                /\ NormalisePhone(Text("", TRUE, key)) = key

MappedTo(i, field) ==
    LET name == Trimmed(sheet.header[i])
    IN  name \in DOMAIN fieldMapping /\ fieldMapping[name] = field

\* The keys that xlsx may make up for a column, which no header need have.
MadeUp(j) ==
    LET column == sheet.header[j]
        blank == column.name = "" /\ ~Padded(column)
    IN  IF sheet.kind = "csv" THEN {}
        ELSE {Numbered(TextOf(column), n) : n \in Positions}
             \union {key \in {<<"__EMPTY">>} : blank}

\* A made-up key that is the name of a column mapped to the field.
Confused(field) ==
    \E j, k \in Positions :
        MappedTo(k, field) /\ <<Trimmed(sheet.header[k])>> \in MadeUp(j)

\* What the administrator saw beside the last column that was mapped to the phone is
\* the phone the server stores.  Not so when the portal trims the header and the
\* server's reader does not, so that every row misses its phone; when a blank Excel
\* header shifts the preview of the columns after it; when a mapped column holds a
\* number, which makes the row throw; when a column before it has the same header,
\* whose key it then shares or, from xlsx, does not get; when xlsx makes up the name
\* of a column that is mapped to the phone; and when the column is named like a whole
\* number, which comes first wherever it stands, and another one is mapped to the
\* phone as well.
MappedColumnArrives ==
    step = "stored" =>
        \A i \in Positions :
            LET column == sheet.header[i]
                shown == previewRow[column.name]
            IN  /\ MappedTo(i, "phone") /\ NormalisePhone(shown) # Null
                /\ \A j \in Positions : j > i => ~MappedTo(j, "phone")
                =>
                    \/ /\ result.outcome = "accepted"
                       /\ result.contact["phone"] = NormalisePhone(shown)
                    \/ Padded(column)
                    \/ sheet.kind = "xlsx" /\ \E j \in 1..(i - 1) : sheet.header[j].name = ""
                    \/ \E j \in DOMAIN sheet.row : sheet.row[j].typed
                    \/ \E j \in 1..(i - 1) : sheet.header[j] = column
                    \/ Confused("phone")
                    \/ /\ <<column.name>> \in DOMAIN Index
                       /\ \E j \in Positions \ {i} : MappedTo(j, "phone")

\* A blank cell says nothing about the contact: the merge of the upsert keeps what
\* is stored for a property that is unset.  A blank opt-out cell says "no" all the
\* same, and a blank tags cell takes all tags away.  Only when xlsx makes up the
\* name of the column may the cell be another's.
BlankCellTakesNothing ==
    step = "stored" /\ result.outcome = "accepted" =>
        \A i \in Positions, field \in StandardFields \ {"phone", "tags", "opt"} :
            /\ sheet.row[i].text = Blank
            /\ \A j \in Positions : MappedTo(j, field) <=> j = i
            => result.contact[field] = EmptyContact(JobId)[field] \/ Confused(field)
=============================================================================
