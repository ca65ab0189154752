-------------------------- MODULE MCContactUpsert ---------------------------
EXTENDS ContactUpsert

CONSTANTS w1, w2, p1, p2, p3, e1, e2, e3

MCSymmetry == Permutations(Phones) \union Permutations(Emails)

\* w1 has up to two rows of an upload without an opt-out column, w2 one row of an
\* upload with such a column.
Plain == [phone : Phones, email : Emails \union {NoEmail}, opt : {"unset"}]
MCBatches ==
    (w1 :> UNION {[1..n -> Plain] : n \in 1..2}) @@
    (w2 :> [1..1 -> Input])

\* Up to two contacts that respect the unique indexes.
Seeds == [phone : Phones, email : Emails \union {NoEmail},
          opt : {"yes", "no"}, source : {Seed}]
MCSeedTables ==
    {t \in UNION {[1..n -> Seeds] : n \in 0..2} :
        \A i, j \in DOMAIN t : i # j => ~SamePerson(t[i], t[j])}

=============================================================================
