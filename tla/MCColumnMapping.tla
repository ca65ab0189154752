-------------------------- MODULE MCColumnMapping ---------------------------
(* Instances of ColumnMapping for TLC. *)
EXTENDS ColumnMapping

MCSubscribers == {<<9, 8, 7, 6, 5, 4, 3, 2, 1, 5>>, <<9, 1, 5, 5, 5, 5, 5, 5, 5, 5>>}

\* Every text of up to two zeros, up to two country codes and up to 16 other digits,
\* and the ways to write a subscriber's number.
Repeat(digits, n) == FlattenSeq([i \in 1..n |-> digits])
PhoneTexts ==
    {Text("", plus, Repeat(<<0>>, z) \o Repeat(<<9, 1>>, c) \o Repeat(<<5>>, n)) :
        plus \in BOOLEAN, z \in 0..2, c \in 0..2, n \in 0..16}
    \union UNION {Spellings(s) : s \in MCSubscribers}

MCIndex == [key \in {<<"2">>, <<"10">>} |-> IF key = <<"2">> THEN 2 ELSE 10]

\* One column named phone: every text.
Sheet(kind, header, row) == [kind |-> kind, header |-> header, row |-> row]
Named1(name) == Column(name, "")
OneColumn ==
    {Sheet("csv", <<Named1("phone")>>, <<Cell(text, FALSE)>>) : text \in PhoneTexts}

\* Two columns: cells of every kind under headers of every kind, the same twice too.
Phone == Text("", FALSE, <<9, 8, 7, 6, 5, 4, 3, 2, 1, 5>>)
Phone2 == Text("", FALSE, <<9, 8, 7, 6, 5, 4, 3, 2, 1, 6>>)
Cells == {Cell(text, FALSE) : text \in {Blank, Phone, Word("yes"), Word("a@b.in")}}
         \union {Cell(Phone2, TRUE)}
Columns == {Named1(name) : name \in {"phone", "opt", "x", "2", ""}}
           \union {Column("phone", " ")}
TwoColumns ==
    {s \in {Sheet(kind, <<a, b>>, row) :
                kind \in {"csv", "xlsx"}, a, b \in Columns, row \in Cells \X Cells} :
        s.kind = "xlsx" \/ \A i \in 1..2 : ~s.row[i].typed}

\* Three columns, for the names that xlsx makes up and for the order of the keys.
Triples ==
    {<<"phone", "phone", "phone_1">>, <<"phone_1", "phone", "phone">>,
     <<"phone", "x", "phone">>, <<"", "x", "">>, <<"10", "phone", "2">>, <<"", "phone", "__EMPTY">>}
ThreeColumns ==
    {Sheet(kind, [i \in 1..3 |-> Named1(names[i])], row) :
        kind \in {"csv", "xlsx"}, names \in Triples,
        row \in [1..3 -> {Cell(text, FALSE) : text \in {Blank, Phone, Phone2}}]}

MCSheets == OneColumn \union TwoColumns \union ThreeColumns
=============================================================================
