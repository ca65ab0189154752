------------------------- MODULE ColumnMappingProofs -------------------------
(***************************************************************************)
(* Theorems about ColumnMapping, for every set of sheets and subscribers:   *)
(* whatever file, header, text and mapping.                                 *)
(***************************************************************************)
EXTENDS ColumnMapping, SequenceTheorems, WellFoundedInduction, TLAPS

(***************************************************************************)
(* Phone numbers                                                           *)
(***************************************************************************)

\* One number after the other.
LEMMA Joined ==
    ASSUME NEW a \in Seq(0..9), NEW b \in Seq(0..9), a # <<>>
    PROVE  /\ a \o b \in Seq(0..9) /\ Len(a \o b) = Len(a) + Len(b)
           /\ a \o b # <<>> /\ Head(a \o b) = a[1] /\ (a \o b)[1] = a[1]
<1>1. a \o b \in Seq(0..9) /\ Len(a \o b) = Len(a) + Len(b) BY ConcatProperties
<1>2. Len(a) >= 1 /\ Len(b) >= 0 OBVIOUS
<1>3. (a \o b)[1] = a[1]
    <2>1. 1 \in 1..(Len(a) + Len(b)) /\ 1 <= Len(a) BY <1>2
    <2>2. QED BY <2>1, ConcatProperties
<1> DEFINE joined == a \o b
<1> HIDE DEF joined
<1>4. joined # <<>> /\ Head(joined) = joined[1] BY <1>1, <1>2 DEF joined
<1>5. QED BY <1>1, <1>3, <1>4 DEF joined

Zeroed(b) == <<0>> \o b
Coded(b) == CountryCode \o b

HasZero(digits, b) ==
    /\ digits \in Seq(0..9) /\ Len(digits) = 1 + Len(b)
    /\ digits # <<>> /\ Head(digits) = 0 /\ Tail(digits) = b

HasCode(digits, b) ==
    /\ digits \in Seq(0..9) /\ Len(digits) = 2 + Len(b)
    /\ digits # <<>> /\ Head(digits) = 9

LEMMA ZeroBefore == ASSUME NEW b \in Seq(0..9) PROVE HasZero(Zeroed(b), b)
<1>1. <<0>> \in Seq(0..9) /\ <<0>> # <<>> /\ Len(<<0>>) = 1 /\ <<0>>[1] = 0 OBVIOUS
<1>2. /\ <<0>> \o b \in Seq(0..9) /\ Len(<<0>> \o b) = 1 + Len(b)
      /\ <<0>> \o b # <<>> /\ Head(<<0>> \o b) = 0
    BY <1>1, Joined
<1> DEFINE joined == <<0>> \o b
<1>3. \A i \in 1..Len(b) : joined[i + 1] = b[i]
    <2>1. ASSUME NEW i \in 1..Len(b) PROVE joined[i + 1] = b[i]
        <3>1. i + 1 \in 1..(1 + Len(b)) /\ ~(i + 1 <= 1) /\ i + 1 - 1 = i OBVIOUS
        <3>2. QED BY <1>1, <3>1, ConcatProperties
    <2>2. QED BY <2>1
<1>4. joined \in Seq(0..9) /\ Len(joined) = 1 + Len(b) /\ joined # <<>> BY <1>2
<1> HIDE DEF joined
<1>5. Tail(joined) = b
    <2>1. /\ Tail(joined) \in Seq(0..9) /\ Len(Tail(joined)) = Len(b)
          /\ \A i \in 1..Len(b) : Tail(joined)[i] = joined[i + 1]
        BY <1>4
    <2>2. QED BY <1>3, <2>1, SeqEqual
<1>6. QED BY <1>2, <1>5 DEF joined, Zeroed, HasZero

LEMMA CodeBefore == ASSUME NEW b \in Seq(0..9) PROVE HasCode(Coded(b), b)
<1>1. CountryCode \in Seq(0..9) /\ CountryCode # <<>> /\ Len(CountryCode) = 2 /\ CountryCode[1] = 9
    BY DEF CountryCode
<1>2. QED BY <1>1, Joined DEF Coded, HasCode

Stripped(digits, stripped) ==
    \/ digits # <<>> /\ Head(digits) = 0 /\ stripped = Tail(digits)
    \/ Head(digits) # 0 /\ stripped = digits

\* The cases of normalisePhone, with the digits after a leading zero.
LEMMA ByDigits ==
    ASSUME NEW text, NEW digits, text.digits = digits, Len(digits) \in Nat, Len(digits) >= 7,
           NEW stripped, Stripped(digits, stripped)
    PROVE  /\ text.plus => NormalisePhone(text) = IF Len(digits) \in 7..15 THEN digits ELSE Null
           /\ ~text.plus /\ Len(stripped) = 10 => NormalisePhone(text) = Coded(stripped)
           /\ ~text.plus /\ Len(stripped) # 10 =>
                NormalisePhone(text) = IF Len(stripped) \in 7..15 THEN stripped ELSE Null
<1>1. ~(Len(digits) < 7) OBVIOUS
<1>2. stripped = IF digits # <<>> /\ Head(digits) = 0 THEN Tail(digits) ELSE digits BY DEF Stripped
<1>3. QED BY <1>1, <1>2 DEF NormalisePhone, ValidE164, Coded

LEMMA TooShort ==
    ASSUME NEW text, NormalisePhone(text) # Null
    PROVE  text.digits # <<>> /\ ~(Len(text.digits) < 7)
BY DEF NormalisePhone

\* The key of a number: 7 to 15 digits, which start with a 0 only if the text did so
\* after its plus, or after another 0.
LEMMA KeyOfText ==
    ASSUME NEW text \in Texts, NormalisePhone(text) # Null
    PROVE  LET key == NormalisePhone(text)
           IN  /\ key \in Seq(0..9) /\ Len(key) \in 7..15
               /\ Head(key) = 0 =>
                    StartsWith(text.digits, IF text.plus THEN <<0>> ELSE <<0, 0>>)
<1> DEFINE digits == text.digits
           stripped == IF digits # <<>> /\ Head(digits) = 0 THEN Tail(digits) ELSE digits
           key == NormalisePhone(text)
<1>1. digits \in Seq(0..9) /\ text.plus \in BOOLEAN BY DEF Texts
<1>2. Len(digits) \in Nat /\ Len(digits) >= 7
    <2>1. ~(Len(digits) < 7) BY TooShort
    <2>2. Len(digits) \in Nat BY <1>1
    <2> HIDE DEF digits
    <2>3. QED BY <2>1, <2>2
<1>3. /\ stripped \in Seq(0..9)
      /\ Head(stripped) = 0 => StartsWith(digits, <<0, 0>>)
    <2> DEFINE d == digits
    <2>1. CASE Head(digits) = 0
        <3>1. d \in Seq(0..9) /\ Len(d) >= 7 /\ Head(d) = 0 BY <1>1, <1>2, <2>1
        <3> HIDE DEF d
        <3>2. /\ d # <<>> /\ Tail(d) \in Seq(0..9) /\ Head(Tail(d)) = d[2] /\ d[1] = 0
            BY <3>1
        <3>3. SubSeq(d, 1, 2) = <<d[1], d[2]>>
            <4>1. /\ SubSeq(d, 1, 2) \in Seq(0..9) /\ Len(SubSeq(d, 1, 2)) = 2
                  /\ SubSeq(d, 1, 2)[1] = d[1] /\ SubSeq(d, 1, 2)[2] = d[2]
                BY <3>1
            <4> DEFINE two == SubSeq(d, 1, 2)
            <4> HIDE DEF two
            <4>2. two = <<two[1], two[2]>>
                <5> DEFINE pair == <<two[1], two[2]>>
                <5>1. two \in Seq(0..9) /\ Len(two) = 2 BY <4>1 DEF two
                <5>2. pair \in Seq(0..9) /\ Len(pair) = 2 /\ pair[1] = two[1] /\ pair[2] = two[2]
                    <6>1. two[1] \in 0..9 /\ two[2] \in 0..9
                        <7>1. 1 \in 1..Len(two) /\ 2 \in 1..Len(two) BY <5>1
                        <7>2. QED BY <5>1, <7>1, ElementOfSeq
                    <6>2. QED BY <6>1
                <5> HIDE DEF pair
                <5>3. \A i \in 1..2 : i = 1 \/ i = 2 OBVIOUS
                <5>4. two = pair BY <5>1, <5>2, <5>3, SeqEqual
                <5>5. QED BY <5>4 DEF pair
            <4>3. QED BY <4>1, <4>2 DEF two
        <3>4. Len(<<0, 0>>) = 2 /\ 2 <= Len(d) BY <3>1
        <3>5. stripped = Tail(d) BY <2>1, <3>2 DEF d
        <3>6. Head(stripped) = 0 => StartsWith(d, <<0, 0>>)
            BY <3>2, <3>3, <3>4, <3>5 DEF StartsWith
        <3>7. QED BY <3>2, <3>5, <3>6 DEF d
    <2>2. CASE Head(digits) # 0
        <3>1. stripped = digits BY <2>2
        <3>2. QED BY <1>1, <2>2, <3>1
    <2>3. QED BY <2>1, <2>2
<1>3a. Stripped(digits, stripped)
    <2>1. digits # <<>> BY <1>1, <1>2
    <2>2. QED BY <2>1 DEF Stripped
<1> HIDE DEF stripped, key
<1>4. CASE text.plus
    <2>1. key = digits /\ Len(key) \in 7..15
        BY <1>1, <1>2, <1>4, <1>3a, ByDigits DEF key
    <2>2. SubSeq(digits, 1, 1) = <<digits[1]>> /\ Head(digits) = digits[1]
          /\ Len(<<0>>) = 1 /\ 1 <= Len(digits)
        <3> DEFINE one == SubSeq(digits, 1, 1)
        <3>1. one \in Seq(0..9) /\ Len(one) = 1 /\ one[1] = digits[1] /\ Head(digits) = digits[1]
            BY <1>1, <1>2
        <3> HIDE DEF one
        <3>2. one = <<one[1]>> BY <3>1
        <3>3. QED BY <1>2, <3>1, <3>2 DEF one
    <2>3. Head(key) = 0 => StartsWith(digits, <<0>>) BY <2>1, <2>2 DEF StartsWith
    <2>4. QED BY <1>1, <1>4, <2>1, <2>3 DEF key
<1>5. CASE ~text.plus /\ Len(stripped) = 10
    <2>1. key = Coded(stripped)
        BY <1>1, <1>2, <1>5, <1>3a, ByDigits DEF key
    <2>2. key \in Seq(0..9) /\ Len(key) = 12 /\ Head(key) = 9
        <3>1. HasCode(key, stripped) BY <1>3, <2>1, CodeBefore
        <3>2. QED BY <1>5, <3>1 DEF HasCode
    <2>3. QED BY <2>2 DEF key
<1>6. CASE ~text.plus /\ Len(stripped) # 10
    <2>1. key = stripped /\ Len(key) \in 7..15
        BY <1>1, <1>2, <1>6, <1>3a, ByDigits DEF key
    <2>2. QED BY <1>3, <1>6, <2>1 DEF key
<1>7. QED BY <1>1, <1>4, <1>5, <1>6

\* Any of the ways to write a subscriber's number gives the same key.
LEMMA KeyOfSubscriber ==
    ASSUME NEW s \in Subscribers, NEW text \in Spellings(s)
    PROVE  NormalisePhone(text) = Coded(s)
<1>1. s \in Seq(0..9) /\ Len(s) = 10 /\ Head(s) # 0 BY SubscribersAssumption
<1> DEFINE zero == Zeroed(s)
           code == Coded(s)
           both == <<0>> \o CountryCode \o s
<1>2. /\ zero \in Seq(0..9) /\ zero # <<>> /\ Len(zero) = 11 /\ Head(zero) = 0 /\ Tail(zero) = s
    <2>1. HasZero(zero, s) BY <1>1, ZeroBefore
    <2> HIDE DEF zero
    <2>2. QED BY <1>1, <2>1 DEF HasZero
<1>3. /\ code \in Seq(0..9) /\ Len(code) = 12 /\ Head(code) = 9
    <2>1. HasCode(code, s) BY <1>1, CodeBefore
    <2> HIDE DEF code
    <2>2. QED BY <1>1, <2>1 DEF HasCode
<1>4. /\ both \in Seq(0..9) /\ both # <<>> /\ Len(both) = 13 /\ Head(both) = 0 /\ Tail(both) = code
    <2>1. both = Zeroed(code)
        <3>1. <<0>> \in Seq(0..9) /\ CountryCode \in Seq(0..9) BY DEF CountryCode
        <3>2. QED BY <1>1, <3>1, ConcatAssociative DEF Zeroed, Coded
    <2> HIDE DEF both, code
    <2>2. HasZero(both, code) BY <1>3, <2>1, ZeroBefore
    <2>3. QED BY <1>3, <2>2 DEF HasZero
<1> HIDE DEF zero, code, both
<1>5. \A plus, digits : /\ Text("", plus, digits).digits = digits
                        /\ Text("", plus, digits).plus = plus
    BY DEF Text
<1>6. PICK digits : \/ digits \in {s, zero, code, both} /\ text = Text("", FALSE, digits)
                    \/ digits = code /\ text = Text("", TRUE, digits)
    BY DEF Spellings, zero, code, both, Zeroed, Coded
<1>7. text.digits = digits /\ (text.plus => digits = code) BY <1>5, <1>6
<1>7a. Len(digits) \in Nat /\ Len(digits) >= 7
    <2>1. Len(digits) \in {10, 11, 12, 13} BY <1>1, <1>2, <1>3, <1>4, <1>6
    <2>2. \A n \in {10, 11, 12, 13} : n \in Nat /\ n >= 7 OBVIOUS
    <2>3. QED BY <2>1, <2>2, Zenon
<1>8. ASSUME NEW stripped, Stripped(digits, stripped), stripped \in {s, code}
      PROVE  NormalisePhone(text) = code
    <2>2. /\ text.plus => NormalisePhone(text) = IF Len(digits) \in 7..15 THEN digits ELSE Null
          /\ ~text.plus /\ Len(stripped) = 10 => NormalisePhone(text) = Coded(stripped)
          /\ ~text.plus /\ Len(stripped) # 10 =>
                NormalisePhone(text) = IF Len(stripped) \in 7..15 THEN stripped ELSE Null
        BY <1>7, <1>7a, <1>8, ByDigits
    <2>3. CASE text.plus
        <3>1. digits = code /\ Len(digits) \in 7..15 BY <1>3, <1>7, <2>3
        <3>2. QED BY <2>2, <2>3, <3>1
    <2>4. CASE ~text.plus /\ stripped = s BY <1>1, <2>2, <2>4 DEF code
    <2>5. CASE ~text.plus /\ stripped = code
        <3>1. Len(stripped) = 12 /\ Len(stripped) \in 7..15 BY <1>3, <2>5
        <3>2. QED BY <2>2, <2>5, <3>1
    <2>6. QED BY <1>8, <2>3, <2>4, <2>5
<1>9. NormalisePhone(text) = code
    <2>1. CASE digits = s
        <3>1. Stripped(digits, s) BY <1>1, <2>1 DEF Stripped
        <3>2. QED BY <1>8, <3>1
    <2>2. CASE digits = zero
        <3>1. Stripped(digits, s) BY <1>2, <2>2 DEF Stripped
        <3>2. QED BY <1>8, <3>1
    <2>3. CASE digits = code
        <3>1. Stripped(digits, code) BY <1>3, <2>3 DEF Stripped
        <3>2. QED BY <1>8, <3>1
    <2>4. CASE digits = both
        <3>1. Stripped(digits, code) BY <1>4, <2>4 DEF Stripped
        <3>2. QED BY <1>8, <3>1
    <2>5. QED BY <1>6, <2>1, <2>2, <2>3, <2>4
<1>10. QED BY <1>9 DEF code

(***************************************************************************)
(* Induction                                                               *)
(***************************************************************************)

\* Induction over numbers, as a fact about sets of them.
LEMMA Induction ==
    ASSUME NEW S \in SUBSET Nat, 0 \in S, \A n \in S : n + 1 \in S
    PROVE  S = Nat
<1> DEFINE rest == Nat \ S
           less == {pair \in Nat \X Nat : pair[1] < pair[2]}
<1>1. IsWellFoundedOn(less, Nat) BY NatLessThanWellFounded DEF OpToRel
<1>2. SUFFICES ASSUME rest # {} PROVE FALSE OBVIOUS
<1>3. PICK least \in rest : \A n \in rest : <<n, least>> \notin less
    <2>1. rest \in SUBSET Nat OBVIOUS
    <2> HIDE DEF less, rest
    <2>2. QED BY <1>1, <1>2, <2>1, WFMin
<1>4. least \in Nat /\ least - 1 \in Nat /\ least - 1 + 1 = least BY <1>3
<1>5. <<least - 1, least>> \in less BY <1>4
<1>6. least - 1 \in S
    <2>1. least - 1 \notin rest BY <1>3, <1>5
    <2>2. QED BY <1>4, <2>1
<1>7. QED BY <1>3, <1>4, <1>6

NoName == ""

\* A header is read name by name.
KeepName(kept, name) == IF name = "" THEN kept ELSE Append(kept, name)

LEMMA NameByName ==
    ASSUME NEW n \in Nat, NEW row, DOMAIN row = 1..n
    PROVE  \E acc : /\ acc[0] = <<>>
                    /\ \A i \in 1..n : acc[i] = KeepName(acc[i - 1], row[i])
                    /\ acc[n] = NonBlank(row)
<1> DEFINE Next1(h, s) == IF s = {} THEN <<>>
                          ELSE KeepName(h[s \ {Max(s)}], row[Max(s)])
           Folds(h, m) == h = [s \in SUBSET (1..m) |-> Next1(h, s)]
           total == CHOOSE h : Folds(h, n)
           known == {m \in Nat : \E h : Folds(h, m)}
<1>1. NonBlank(row) = total[1..n]
    BY DEF NonBlank, KeepName, FoldLeft, MapThenFoldSet
<1>2. 0 \in known
    <2> DEFINE h == [s \in SUBSET (1..0) |-> <<>>]
    <2>1. h = [s \in SUBSET (1..0) |-> Next1(h, s)] OBVIOUS
    <2> HIDE DEF h
    <2>2. Folds(h, 0) BY <2>1
    <2>3. QED BY <2>2
<1>3. ASSUME NEW m \in known PROVE m + 1 \in known
    <2>1. PICK h : Folds(h, m) OBVIOUS
    <2> DEFINE g == [s \in SUBSET (1..(m + 1)) |->
                        IF m + 1 \in s THEN KeepName(h[s \ {m + 1}], row[m + 1])
                        ELSE h[s]]
    <2>2. ASSUME NEW s \in SUBSET (1..(m + 1)) PROVE g[s] = Next1(g, s)
        <3>1. m \in Nat /\ m + 1 \notin 1..m /\ \A x \in 1..(m + 1) : x # m + 1 => x \in 1..m
            OBVIOUS
        <3>2. CASE m + 1 \in s
            <4>1. Max(s) = m + 1
                <5>1. \A x \in s : x \in Int /\ x <= m + 1 BY <3>1
                <5>2. \A x \in s : (\A y \in s : x >= y) <=> x = m + 1 BY <3>2, <5>1
                <5>3. QED BY <3>2, <5>2 DEF Max
            <4>2. s \ {m + 1} \in SUBSET (1..(m + 1)) /\ m + 1 \notin s \ {m + 1} OBVIOUS
            <4>3. g[s \ {m + 1}] = h[s \ {m + 1}] BY <4>2
            <4>4. s # {} BY <3>2
            <4>5. g[s] = KeepName(h[s \ {m + 1}], row[m + 1]) BY <3>2
            <4> HIDE DEF g
            <4>6. QED BY <4>1, <4>3, <4>4, <4>5
        <3>3. CASE m + 1 \notin s
            <4>1. s \in SUBSET (1..m) BY <3>1, <3>3
            <4>2. h[s] = Next1(h, s) BY <2>1, <4>1
            <4>3. g[s] = h[s] BY <3>3
            <4>4. g[s \ {Max(s)}] = h[s \ {Max(s)}] BY <3>3
            <4> HIDE DEF g
            <4>5. QED BY <4>2, <4>3, <4>4
        <3>4. QED BY <3>2, <3>3
    <2>3. g = [s \in SUBSET (1..(m + 1)) |-> g[s]] OBVIOUS
    <2> HIDE DEF g
    <2>4. g = [s \in SUBSET (1..(m + 1)) |-> Next1(g, s)]
        <3> HIDE DEF Next1
        <3>1. QED BY <2>2, <2>3
    <2>5. Folds(g, m + 1) BY <2>4
    <2> HIDE DEF Folds
    <2>6. QED BY <2>5
<1>4. Folds(total, n)
    <2>1. known \in SUBSET Nat OBVIOUS
    <2>2. n \in known
        <3> HIDE DEF known
        <3>1. QED BY <1>2, <1>3, <2>1, Induction
    <2>3. QED BY <2>2
<1> DEFINE acc == [i \in 0..n |-> total[1..i]]
<1>5. acc[0] = <<>>
    <2>1. 1..0 = {} /\ 0 \in 0..n OBVIOUS
    <2>2. acc[0] = total[1..0]
        <3> HIDE DEF total
        <3>1. QED BY <2>1
    <2> HIDE DEF total, acc
    <2>3. total[{}] = <<>> BY <1>4
    <2>4. QED BY <2>1, <2>2, <2>3
<1>6. ASSUME NEW i \in 1..n PROVE acc[i] = KeepName(acc[i - 1], row[i])
    <2>1. 1..i \in SUBSET (1..n) /\ 1..i # {} /\ (1..i) \ {i} = 1..(i - 1)
        <3>1. i \in Nat /\ 1 <= i /\ i <= n OBVIOUS
        <3>2. \A x : x \in (1..i) \ {i} <=> x \in 1..(i - 1) BY <3>1
        <3>3. QED BY <3>1, <3>2
    <2>2. Max(1..i) = i
        <3>1. \A x \in 1..i : (\A y \in 1..i : x >= y) <=> x = i OBVIOUS
        <3>2. i \in 1..i OBVIOUS
        <3>3. QED BY <3>1, <3>2 DEF Max
    <2>3. total[1..i] = Next1(total, 1..i)
        <3> HIDE DEF total
        <3>1. QED BY <1>4, <2>1
    <2> HIDE DEF total
    <2>4. acc[i] = total[1..i] /\ acc[i - 1] = total[1..(i - 1)] OBVIOUS
    <2> HIDE DEF acc
    <2>5. QED BY <2>1, <2>2, <2>3, <2>4
<1>7. acc[n] = total[1..n] OBVIOUS
<1> HIDE DEF acc, total
<1>8. QED BY <1>1, <1>5, <1>6, <1>7

(***************************************************************************)
(* What is read of a header                                                *)
(***************************************************************************)

\* A name with no blank one before it keeps its place.
KeepsPlace(kept, names, i) ==
    /\ i \in DOMAIN kept /\ kept[i] = names[i]
    /\ \A k \in DOMAIN kept : kept[k] # NoName /\ (kept[k] = names[i] => k <= i)

LEMMA NamesKept ==
    ASSUME NEW S, NEW names \in Seq(S), NEW i \in 1..Len(names),
           \A j \in 1..Len(names) : j > i => names[j] # names[i],
           \A j \in 1..i : names[j] # NoName
    PROVE  KeepsPlace(NonBlank(names), names, i)
<1> DEFINE n == Len(names)
<1>1. n \in Nat /\ DOMAIN names = 1..n /\ \A j \in 1..n : names[j] \in S OBVIOUS
<1>2. PICK kept : /\ kept[0] = <<>>
                  /\ \A m \in 1..n : kept[m] = KeepName(kept[m - 1], names[m])
                  /\ kept[n] = NonBlank(names)
    <2> HIDE DEF n
    <2>1. QED BY <1>1, NameByName
<1> DEFINE Good(K, m) ==
            /\ K \in Seq(S)
            /\ m <= i => Len(K) = m
            /\ m >= i => Len(K) >= i
            /\ \A k \in 1..Len(K) :
                /\ K[k] # NoName
                /\ k <= i => K[k] = names[k]
                /\ k > i => \E j \in 1..n : j > i /\ K[k] = names[j]
<1>3. i \in Nat /\ 1 <= i /\ i <= n OBVIOUS
<1> HIDE DEF n
<1> DEFINE known == {m \in Nat : m <= n => Good(kept[m], m)}
<1>4. 0 \in known
    <2>1. Good(<<>>, 0) BY <1>3
    <2> HIDE DEF Good
    <2>2. QED BY <1>2, <2>1
<1>5. ASSUME NEW m \in known PROVE m + 1 \in known
    <2>1. SUFFICES ASSUME m + 1 <= n PROVE Good(kept[m + 1], m + 1) OBVIOUS
    <2> DEFINE K == kept[m]
               name == names[m + 1]
    <2>2. m \in Nat /\ m + 1 \in 1..n /\ m <= n /\ m + 1 - 1 = m BY <1>1, <2>1
    <2>3. kept[m + 1] = KeepName(K, name)
        <3>1. kept[m + 1] = KeepName(kept[m + 1 - 1], names[m + 1]) BY <1>2, <2>2
        <3>2. QED BY <2>2, <3>1
    <2>4. Good(K, m) BY <2>2
    <2>5. name \in S BY <1>1, <2>2
    <2> HIDE DEF K
    <2>6. CASE name = NoName
        <3>1. kept[m + 1] = K BY <2>3, <2>6 DEF KeepName, NoName
        <3>2. m + 1 > i
            <4>1. ~(m + 1 \in 1..i) BY <2>6
            <4>2. QED BY <1>3, <2>2, <4>1
        <3>3. Good(K, m + 1) BY <1>3, <2>2, <2>4, <3>2
        <3> HIDE DEF Good
        <3>4. QED BY <3>1, <3>3
    <2>7. CASE name # NoName
        <3> DEFINE L == Append(K, name)
        <3>1. kept[m + 1] = L BY <2>3, <2>7 DEF KeepName, NoName
        <3>2. /\ L \in Seq(S) /\ Len(L) = Len(K) + 1 /\ L[Len(K) + 1] = name
              /\ Len(K) \in Nat /\ \A k \in 1..Len(K) : L[k] = K[k]
            BY <2>4, <2>5
        <3> HIDE DEF L
        <3>3. ASSUME NEW k \in 1..Len(L)
              PROVE  /\ L[k] # NoName
                     /\ k <= i => L[k] = names[k]
                     /\ k > i => \E j \in 1..n : j > i /\ L[k] = names[j]
            <4>1. CASE k \in 1..Len(K) BY <2>4, <3>2, <4>1
            <4>2. CASE k = Len(K) + 1
                <5>1. L[k] = name BY <3>2, <4>2
                <5>2. k <= i => k = m + 1 BY <1>3, <2>2, <2>4, <3>2, <4>2
                <5>3. k > i => m + 1 > i BY <1>3, <2>2, <2>4, <3>2, <4>2
                <5>4. QED BY <2>2, <2>7, <5>1, <5>2, <5>3
            <4>3. QED BY <3>2, <4>1, <4>2
        <3>4. /\ m + 1 <= i => Len(L) = m + 1
              /\ m + 1 >= i => Len(L) >= i
            BY <1>3, <2>2, <2>4, <3>2
        <3>5. Good(L, m + 1) BY <3>2, <3>3, <3>4
        <3> HIDE DEF Good
        <3>6. QED BY <3>1, <3>5
    <2>8. QED BY <2>6, <2>7
<1>6. n \in known
    <2>1. known \in SUBSET Nat OBVIOUS
    <2> HIDE DEF known
    <2>2. QED BY <1>1, <1>4, <1>5, <2>1, Induction
<1>7. Good(NonBlank(names), n)
    <2> HIDE DEF Good
    <2>1. QED BY <1>1, <1>2, <1>6
<1> DEFINE K == NonBlank(names)
<1> HIDE DEF K
<1>8. K \in Seq(S) /\ Len(K) >= i /\ DOMAIN K = 1..Len(K) /\ Len(K) \in Nat
    BY <1>1, <1>3, <1>7 DEF K
<1>9. ASSUME NEW k \in DOMAIN K PROVE K[k] # NoName /\ (K[k] = names[i] => k <= i)
    <2>1. k \in 1..Len(K) BY <1>8
    <2>2. /\ K[k] # NoName
          /\ k <= i => K[k] = names[k]
          /\ k > i => \E j \in 1..n : j > i /\ K[k] = names[j]
        BY <1>7, <2>1 DEF K
    <2>3. \A j \in 1..n : j > i => names[j] # names[i] BY DEF n
    <2>4. k <= i \/ k > i BY <1>3, <1>8, <2>1
    <2>5. QED BY <2>2, <2>3, <2>4
<1>10. i \in DOMAIN K /\ K[i] = names[i]
    <2>1. i \in 1..Len(K) BY <1>3, <1>8
    <2>2. i <= i BY <1>3
    <2>3. QED BY <1>7, <1>8, <2>1, <2>2 DEF K
<1>11. QED BY <1>9, <1>10 DEF KeepsPlace, K

\* No blank name is kept.
LEMMA NoBlankKept ==
    ASSUME NEW S, NEW names \in Seq(S)
    PROVE  /\ NonBlank(names) \in Seq(S)
           /\ \A k \in DOMAIN NonBlank(names) : NonBlank(names)[k] # NoName
<1> DEFINE n == Len(names)
<1>1. n \in Nat /\ DOMAIN names = 1..n /\ \A j \in 1..n : names[j] \in S OBVIOUS
<1>2. PICK kept : /\ kept[0] = <<>>
                  /\ \A m \in 1..n : kept[m] = KeepName(kept[m - 1], names[m])
                  /\ kept[n] = NonBlank(names)
    <2> HIDE DEF n
    <2>1. QED BY <1>1, NameByName
<1> HIDE DEF n
<1> DEFINE Good(K) == K \in Seq(S) /\ \A k \in 1..Len(K) : K[k] # NoName
           known == {m \in Nat : m <= n => Good(kept[m])}
<1>3. 0 \in known
    <2>1. Good(<<>>) OBVIOUS
    <2> HIDE DEF Good
    <2>2. QED BY <1>2, <2>1
<1>4. ASSUME NEW m \in known PROVE m + 1 \in known
    <2>1. SUFFICES ASSUME m + 1 <= n PROVE Good(kept[m + 1]) OBVIOUS
    <2> DEFINE K == kept[m]
               name == names[m + 1]
    <2>2. m \in Nat /\ m + 1 \in 1..n /\ m <= n /\ m + 1 - 1 = m BY <1>1, <2>1
    <2>3. kept[m + 1] = KeepName(K, name)
        <3>1. kept[m + 1] = KeepName(kept[m + 1 - 1], names[m + 1]) BY <1>2, <2>2
        <3>2. QED BY <2>2, <3>1
    <2>4. Good(K) BY <2>2
    <2>5. name \in S BY <1>1, <2>2
    <2> HIDE DEF K, name
    <2>6. name = NoName => KeepName(K, name) = K BY DEF KeepName, NoName
    <2>7. name # NoName => KeepName(K, name) = Append(K, name) BY DEF KeepName, NoName
    <2>8. name # NoName => Good(Append(K, name)) BY <2>4, <2>5
    <2> HIDE DEF Good
    <2>9. QED BY <2>3, <2>4, <2>6, <2>7, <2>8
<1>5. n \in known
    <2>1. known \in SUBSET Nat OBVIOUS
    <2> HIDE DEF known
    <2>2. QED BY <1>1, <1>3, <1>4, <2>1, Induction
<1>6. Good(NonBlank(names))
    <2>1. n <= n BY <1>1
    <2> HIDE DEF Good
    <2>2. QED BY <1>2, <1>5, <2>1
<1>7. QED BY <1>6

(***************************************************************************)
(* The wizard and the server                                               *)
(***************************************************************************)

Shown ==
    /\ csvHeaders = ParseHeaders
    /\ previewRow = ParsePreview(csvHeaders)
    /\ DOMAIN fieldMapping \subseteq ToSet(csvHeaders)
    /\ \A name \in DOMAIN fieldMapping : fieldMapping[name] \in Fields

\* The server has read the sheet under one of the sequences of keys.
Read == \E keys \in KeysOf :
            result = NormaliseRow(RowOfReader(keys), MappingByKey, JobId)

Inv ==
    /\ sheet \in Sheets
    /\ step \in {"select", "map", "confirm", "stored", "failed"}
    /\ step # "select" => Shown
    /\ step = "select" => csvHeaders = <<>>
    /\ step = "stored" => Read

LEMMA SameSheet ==
    ASSUME UNCHANGED <<sheet, fieldMapping>>
    PROVE  /\ ParseHeaders' = ParseHeaders /\ KeysOf' = KeysOf /\ MappingByKey' = MappingByKey
           /\ \A headers : ParsePreview(headers)' = ParsePreview(headers)
           /\ \A keys : RowOfReader(keys)' = RowOfReader(keys)
<1>1. KeysOf' = KeysOf BY DEF KeysOf, Positions, TextOf, Padded
<1>2. MappingByKey' = MappingByKey BY DEF MappingByKey
<1>3. ParseHeaders' = ParseHeaders BY DEF ParseHeaders, Trimmed
<1>4. ASSUME NEW keys PROVE RowOfReader(keys)' = RowOfReader(keys) BY DEF RowOfReader
<1>5. ASSUME NEW headers PROVE ParsePreview(headers)' = ParsePreview(headers)
    BY DEF ParsePreview
<1>6. QED BY <1>1, <1>2, <1>3, <1>4, <1>5

LEMMA SameHeaders ==
    ASSUME sheet' = sheet, csvHeaders' = csvHeaders
    PROVE  /\ ParseHeaders' = ParseHeaders
           /\ ParsePreview(csvHeaders)' = ParsePreview(csvHeaders)
BY DEF ParseHeaders, Trimmed, ParsePreview

LEMMA Invariance == Spec => []Inv
<1>1. Init => Inv BY DEF Init, Inv
<1>2. Inv /\ [Next]_vars => Inv'
    <2> SUFFICES ASSUME Inv, [Next]_vars PROVE Inv' OBVIOUS
    <2>1. CASE UNCHANGED vars
        <3>1. UNCHANGED <<sheet, fieldMapping>> /\ csvHeaders' = csvHeaders BY <2>1 DEF vars
        <3>2. Shown => Shown' BY <2>1, <3>1, SameHeaders DEF vars, Shown
        <3>3. Read => Read' BY <2>1, <3>1, SameSheet DEF vars, Read
        <3>4. QED BY <2>1, <3>2, <3>3 DEF vars, Inv
    <2>2. CASE OnMessage
        <3>1. /\ sheet' = sheet /\ step' = "map" /\ csvHeaders' = ParseHeaders
              /\ previewRow' = ParsePreview(csvHeaders') /\ fieldMapping' = AutoMap(csvHeaders')
            BY <2>2 DEF OnMessage
        <3>2. /\ DOMAIN fieldMapping' \subseteq ToSet(csvHeaders')
              /\ \A name \in DOMAIN fieldMapping' : fieldMapping'[name] \in Fields
            BY <3>1 DEF AutoMap, Fields
        <3>3. ParseHeaders' = ParseHeaders
              /\ ParsePreview(csvHeaders)' = ParsePreview(csvHeaders')
            BY <3>1 DEF ParseHeaders, Trimmed, ParsePreview
        <3>4. QED BY <3>1, <3>2, <3>3 DEF Inv, Shown
    <2>3. ASSUME NEW header \in ToSet(csvHeaders), NEW field \in Fields,
                 SetMapping(header, field)
          PROVE  Inv'
        <3>1. /\ step = "map" /\ step' = "map" /\ UNCHANGED <<sheet, csvHeaders, previewRow>>
              /\ DOMAIN fieldMapping' \subseteq DOMAIN fieldMapping \union {header}
              /\ \A name \in DOMAIN fieldMapping' :
                    \/ fieldMapping'[name] = field
                    \/ name \in DOMAIN fieldMapping /\ fieldMapping'[name] = fieldMapping[name]
            BY <2>3 DEF SetMapping
        <3>2. QED BY <3>1, SameHeaders DEF Inv, Shown
    <2>4. CASE Confirm \/ EditMapping
        <3>1. /\ step = "map" \/ step = "confirm"
              /\ step' \in {"map", "confirm"}
              /\ UNCHANGED <<sheet, csvHeaders, previewRow, fieldMapping>>
            BY <2>4 DEF Confirm, EditMapping
        <3>2. QED BY <3>1, SameHeaders DEF Inv, Shown
    <2>5. CASE ReaderRejects
        <3>1. /\ step = "confirm" /\ step' = "failed"
              /\ UNCHANGED <<sheet, csvHeaders, previewRow, fieldMapping>>
            BY <2>5 DEF ReaderRejects
        <3>2. QED BY <3>1, SameHeaders DEF Inv, Shown
    <2>6. CASE ReadRow
        <3>1. /\ step = "confirm" /\ step' = "stored"
              /\ UNCHANGED <<sheet, csvHeaders, previewRow, fieldMapping>>
              /\ \E keys \in KeysOf :
                    result' = NormaliseRow(RowOfReader(keys), MappingByKey, JobId)
            BY <2>6 DEF ReadRow
        <3>2. Read' BY <3>1, SameSheet DEF Read
        <3>3. QED BY <3>1, <3>2, SameHeaders DEF Inv, Shown
    <2>7. QED BY <2>1, <2>2, <2>3, <2>4, <2>5, <2>6 DEF Next
<1>3. QED BY <1>1, <1>2, PTL DEF Spec

\* OneKeyPerNumber: normalisePhone gives every spelling of a subscriber's number the
\* same key, and gives no text a key that is not read back as itself.
THEOREM OneKey == Spec => []OneKeyPerNumber
<1>1. ASSUME Inv, NEW i \in DOMAIN sheet.row
      PROVE  LET text == sheet.row[i].text
                 key == NormalisePhone(text)
             IN  /\ \A s \in Subscribers : text \in Spellings(s) => key = CountryCode \o s
                 /\ key # Null =>
                     /\ Len(key) \in 7..15
                     /\ Head(key) = 0 =>
                             StartsWith(text.digits, IF text.plus THEN <<0>> ELSE <<0, 0>>)
                     /\ NormalisePhone(Text("", TRUE, key)) = key
    <2> DEFINE text == sheet.row[i].text
               key == NormalisePhone(text)
    <2>1. text \in Texts
        <3> DEFINE cells == [text : Texts, typed : BOOLEAN]
        <3>1. sheet.row \in Seq(cells)
            BY <1>1, SheetsAssumption DEF Inv, IsSheet
        <3> HIDE DEF cells
        <3>2. sheet.row[i] \in cells
            BY <1>1, <3>1
        <3>3. QED BY <3>2 DEF cells
    <2>2. \A s \in Subscribers : text \in Spellings(s) => key = CountryCode \o s
        BY KeyOfSubscriber DEF Coded
    <2> HIDE DEF text
    <2>3. key # Null =>
            /\ key \in Seq(0..9) /\ Len(key) \in 7..15
            /\ Head(key) = 0 =>
                    StartsWith(text.digits, IF text.plus THEN <<0>> ELSE <<0, 0>>)
        BY <2>1, KeyOfText
    <2> HIDE DEF key
    <2>4. key # Null => NormalisePhone(Text("", TRUE, key)) = key
        <3>1. ASSUME key # Null PROVE ~(Len(key) < 7) /\ Len(key) \in 7..15
            <4>1. Len(key) \in 7..15 BY <2>3, <3>1
            <4>2. \A n \in 7..15 : ~(n < 7) OBVIOUS
            <4>3. QED BY <4>1, <4>2
        <3>2. Text("", TRUE, key).digits = key /\ Text("", TRUE, key).plus = TRUE
            BY DEF Text
        <3>3. QED BY <3>1, <3>2 DEF NormalisePhone, ValidE164
    <2>5. QED BY <2>2, <2>3, <2>4 DEF text, key
<1>2. Inv => OneKeyPerNumber BY <1>1 DEF OneKeyPerNumber
<1>3. QED BY <1>2, Invariance, PTL

(***************************************************************************)
(* Columns and keys                                                        *)
(***************************************************************************)

Named == [i \in Positions |-> Trimmed(sheet.header[i])]

LEMMA SheetFacts ==
    ASSUME IsSheet(sheet)
    PROVE  /\ Named \in Seq(STRING) /\ Len(Named) = Len(sheet.header)
           /\ Len(sheet.header) \in Nat /\ Positions = 1..Len(sheet.header)
           /\ DOMAIN sheet.row = Positions
           /\ \A i \in Positions : /\ Named[i] = sheet.header[i].name
                                   /\ sheet.header[i] \in [name : STRING, pad : STRING]
                                   /\ sheet.row[i] \in [text : Texts, typed : BOOLEAN]
<1> DEFINE columns == [name : STRING, pad : STRING]
           cells == [text : Texts, typed : BOOLEAN]
<1>1. sheet.header \in Seq(columns) /\ sheet.row \in Seq(cells)
      /\ Len(sheet.row) = Len(sheet.header)
    BY DEF IsSheet
<1>2. \A column \in columns : column.name \in STRING OBVIOUS
<1> HIDE DEF columns, cells
<1>3. /\ Len(sheet.header) \in Nat /\ Positions = 1..Len(sheet.header)
      /\ DOMAIN sheet.row = Positions
      /\ \A i \in Positions : sheet.header[i] \in columns /\ sheet.row[i] \in cells
    BY <1>1 DEF Positions
<1>4. \A i \in Positions : Named[i] = sheet.header[i].name
    BY DEF Named, Trimmed
<1>5. Named \in [1..Len(sheet.header) -> STRING] BY <1>2, <1>3 DEF Named, Trimmed
<1>6. Named \in Seq(STRING) /\ Len(Named) = Len(sheet.header) BY <1>3, <1>5
<1>7. QED BY <1>3, <1>4, <1>6 DEF columns, cells

LEMMA HeadersOfSheet ==
    ParseHeaders = IF sheet.kind = "csv" THEN Named ELSE NonBlank(Named)
BY DEF ParseHeaders, Named, Positions

\* The portal's headers are names of columns; those of an Excel sheet are not blank.
LEMMA HeadersAmong ==
    ASSUME IsSheet(sheet), NEW name \in ToSet(ParseHeaders)
    PROVE  /\ \E i \in Positions : sheet.header[i].name = name
           /\ sheet.kind = "xlsx" => name # NoName
<1> DEFINE S == {sheet.header[i].name : i \in Positions}
           names == Named
<1>1. names \in Seq(S) /\ ToSet(names) \subseteq S
    <2>1. /\ DOMAIN names = 1..Len(sheet.header) /\ Len(sheet.header) \in Nat
          /\ \A i \in 1..Len(sheet.header) : names[i] \in S
        BY SheetFacts DEF Named
    <2>2. names = [i \in 1..Len(sheet.header) |-> names[i]] BY <2>1 DEF Named
    <2> HIDE DEF names, S
    <2>3. names \in [1..Len(sheet.header) -> S] BY <2>1, <2>2
    <2>4. QED BY <2>1, <2>3 DEF ToSet
<1> HIDE DEF names, S
<1> DEFINE kept == NonBlank(names)
<1>2. kept \in Seq(S) /\ \A k \in DOMAIN kept : kept[k] # NoName
    BY <1>1, NoBlankKept
<1>3. ParseHeaders = IF sheet.kind = "csv" THEN names ELSE kept
    BY HeadersOfSheet DEF names
<1> HIDE DEF kept
<1>4. ToSet(kept) \subseteq S /\ NoName \notin ToSet(kept)
    BY <1>2 DEF ToSet
<1>5. sheet.kind = "csv" => sheet.kind # "xlsx" OBVIOUS
<1>6. name \in S /\ (sheet.kind = "xlsx" => name # NoName) BY <1>1, <1>3, <1>4, <1>5
<1>7. QED BY <1>6 DEF S

\* The preview of a column is its own cell, when no column after it has its name and,
\* in an Excel sheet, no name before it is blank, and dropped.
LEMMA PreviewOfColumn ==
    ASSUME IsSheet(sheet), NEW i \in Positions,
           sheet.header[i].name \in ToSet(ParseHeaders),
           \A j \in Positions : j > i => sheet.header[j].name # sheet.header[i].name,
           sheet.kind = "xlsx" => \A j \in 1..(i - 1) : sheet.header[j].name # NoName
    PROVE  ParsePreview(ParseHeaders)[sheet.header[i].name] = sheet.row[i].text
<1> DEFINE names == Named
           headers == ParseHeaders
           name == sheet.header[i].name
           places == {k \in DOMAIN headers : headers[k] = name}
<1>1. /\ names \in Seq(STRING) /\ Len(names) = Len(sheet.header) /\ i \in 1..Len(names)
      /\ Positions = 1..Len(names) /\ names[i] = name
      /\ \A j \in 1..Len(names) : names[j] = sheet.header[j].name
    BY SheetFacts
<1>2. \A j \in 1..Len(names) : j > i => names[j] # names[i] BY <1>1
<1>3. headers = IF sheet.kind = "csv" THEN names ELSE NonBlank(names) BY HeadersOfSheet
<1>4. sheet.kind \in {"csv", "xlsx"} BY DEF IsSheet
<1>5. sheet.kind = "xlsx" => name # NoName BY HeadersAmong
<1> HIDE DEF names, name
<1>6. i \in places /\ \A k \in places : k \in Nat /\ k <= i
    <2>1. CASE sheet.kind = "csv"
        <3>1. headers = names BY <1>3, <2>1
        <3> HIDE DEF headers
        <3>2. DOMAIN headers = 1..Len(names) BY <1>1, <3>1
        <3>3. \A k \in DOMAIN headers : headers[k] = name => k <= i
            BY <1>1, <1>2, <3>1, <3>2
        <3>4. QED BY <1>1, <3>1, <3>2, <3>3
    <2>2. CASE sheet.kind # "csv"
        <3>1. headers = NonBlank(names) BY <1>3, <2>2
        <3>2. \A j \in 1..i : names[j] # NoName
            <4>1. \A j \in 1..i : j = i \/ j \in 1..(i - 1) BY <1>1
            <4>2. \A j \in 1..i : j \in 1..Len(names) BY <1>1
            <4>3. QED BY <1>1, <1>4, <1>5, <2>2, <4>1, <4>2
        <3>3. KeepsPlace(NonBlank(names), names, i) BY <1>1, <1>2, <3>2, NamesKept
        <3>4. NonBlank(names) \in Seq(STRING) BY <1>1, NoBlankKept
        <3> HIDE DEF headers
        <3>5. \A k \in DOMAIN headers : k \in Nat BY <3>1, <3>4
        <3>6. QED BY <1>1, <3>1, <3>3, <3>5 DEF KeepsPlace
    <2>3. QED BY <2>1, <2>2
<1>7. Max(places) = i
    <2>1. i \in Int BY <1>1
    <2> HIDE DEF places
    <2>2. \A x \in places : (\A y \in places : x >= y) <=> x = i BY <1>6, <2>1
    <2>3. QED BY <1>6, <2>2 DEF Max
<1>8. ParsePreview(headers)[name] = sheet.row[Max(places)].text
    <2> HIDE DEF headers
    <2>1. QED BY DEF ParsePreview, name, headers
<1>9. QED BY <1>7, <1>8 DEF name

\* Where a key comes in the reader's header.
Places(keys, key) == {i \in DOMAIN keys : keys[i] = key}

LEMMA Least ==
    ASSUME NEW S \in SUBSET Nat, S # {}
    PROVE  \E least \in S : \A n \in S : least <= n
<1> DEFINE less == {pair \in Nat \X Nat : pair[1] < pair[2]}
<1>1. IsWellFoundedOn(less, Nat) BY NatLessThanWellFounded DEF OpToRel
<1>2. PICK least \in S : \A n \in S : <<n, least>> \notin less
    <2> HIDE DEF less
    <2>1. QED BY <1>1, WFMin
<1>3. ASSUME NEW n \in S PROVE least <= n
    <2>1. n \in Nat /\ least \in Nat OBVIOUS
    <2>2. n < least => <<n, least>> \in less BY <2>1
    <2> HIDE DEF less
    <2>3. QED BY <1>2, <2>1, <2>2
<1>4. QED BY <1>3

\* Of some positions one is the first, and one the last.
LEMMA FirstAndLast ==
    ASSUME NEW n \in Nat, NEW S \in SUBSET (1..n), S # {}
    PROVE  Min(S) \in S /\ Max(S) \in S
<1>1. \A x \in S : x \in Nat /\ 1 <= x /\ x <= n OBVIOUS
<1>2. \E least \in S : \A x \in S : least <= x BY Least
<1>3. Min(S) \in S BY <1>2 DEF Min
<1> DEFINE bounds == {b \in Nat : \A x \in S : x <= b}
<1>4. PICK bound \in bounds : \A b \in bounds : bound <= b
    <2>1. n \in bounds BY <1>1
    <2> HIDE DEF bounds
    <2>2. bounds \in SUBSET Nat BY DEF bounds
    <2>3. QED BY <2>1, <2>2, Least
<1>5. bound \in S
    <2>1. SUFFICES ASSUME bound \notin S PROVE FALSE OBVIOUS
    <2>2. \A x \in S : x <= bound - 1 BY <1>1, <1>4, <2>1
    <2>3. PICK x \in S : TRUE OBVIOUS
    <2>3a. x \in Nat /\ 1 <= x /\ x <= bound - 1 /\ bound \in Nat BY <1>1, <1>4, <2>2
    <2>3b. bound - 1 \in Nat BY <2>3a
    <2>4. bound - 1 \in bounds BY <2>2, <2>3b
    <2>5. bound <= bound - 1 BY <1>4, <2>4
    <2>6. QED BY <1>4, <2>5
<1>6. \A x \in S : bound >= x BY <1>1, <1>4
<1>7. Max(S) \in S BY <1>5, <1>6 DEF Max
<1>8. QED BY <1>3, <1>7

LEMMA RowFacts ==
    ASSUME IsSheet(sheet), NEW keys \in KeysOf, NEW key \in ToSet(keys)
    PROVE  /\ DOMAIN keys = Positions /\ DOMAIN RowOfReader(keys) = ToSet(keys)
           /\ Places(keys, key) \in SUBSET Positions
           /\ RowOfReader(keys)[key].place \in Places(keys, key)
           /\ \E last \in Places(keys, key) : RowOfReader(keys)[key].cell = sheet.row[last]
<1> DEFINE places == Places(keys, key)
           n == Len(sheet.header)
<1>1. DOMAIN keys = Positions BY DEF KeysOf
<1>2. n \in Nat /\ Positions = 1..n BY SheetFacts
<1>3. places \in SUBSET (1..n) /\ places # {} BY <1>1, <1>2 DEF Places, ToSet
<1> HIDE DEF places, n
<1>4. Min(places) \in places /\ Max(places) \in places BY <1>2, <1>3, FirstAndLast
<1>5. /\ DOMAIN RowOfReader(keys) = ToSet(keys)
      /\ RowOfReader(keys)[key] = [place |-> Min(places), cell |-> sheet.row[Max(places)]]
    BY DEF RowOfReader, places, Places
<1>6. QED BY <1>1, <1>2, <1>3, <1>4, <1>5 DEF places

\* The key of a column is its text, or one that xlsx made up from it.
LEMMA KeyOfColumn ==
    ASSUME IsSheet(sheet), NEW keys \in KeysOf, NEW j \in Positions
    PROVE  \/ keys[j] = TextOf(sheet.header[j])
           \/ sheet.kind # "csv" /\ \E n \in Positions : keys[j] = Numbered(TextOf(sheet.header[j]), n)
<1>1. 1..(j - 1) \subseteq Positions
    <2>1. Positions = 1..Len(sheet.header) /\ Len(sheet.header) \in Nat BY SheetFacts
    <2>2. QED BY <2>1
<1>2. \/ keys[j] = TextOf(sheet.header[j])
      \/ sheet.kind # "csv" /\ \E n \in 1..(j - 1) : keys[j] = Numbered(TextOf(sheet.header[j]), n)
    BY DEF KeysOf
<1>3. QED BY <1>1, <1>2

\* A name that xlsx did not make up is the key of columns with that name only.
LEMMA OwnKey ==
    ASSUME IsSheet(sheet), NEW keys \in KeysOf, NEW j \in Positions, NEW name,
           keys[j] = <<name>>, <<name>> \notin MadeUp(j)
    PROVE  ~Padded(sheet.header[j]) /\ sheet.header[j].name = name
<1> DEFINE column == sheet.header[j]
<1>1. keys[j] = TextOf(column)
    <2>1. ASSUME sheet.kind # "csv", NEW n \in Positions, keys[j] = Numbered(TextOf(column), n)
          PROVE  FALSE
        <3>1. Numbered(TextOf(column), n) \in MadeUp(j) BY <2>1 DEF MadeUp
        <3>2. QED BY <2>1, <3>1
    <2>2. QED BY <2>1, KeyOfColumn
<1>2. ~Padded(column)
    <2>1. <<column.pad, column.name>> # <<name>> OBVIOUS
    <2>2. QED BY <1>1, <2>1 DEF TextOf
<1>3. ~(column.name = "" /\ sheet.kind = "xlsx")
    <2>1. SUFFICES ASSUME column.name = "", sheet.kind = "xlsx" PROVE FALSE OBVIOUS
    <2>2. keys[j] = <<"__EMPTY">> BY <1>1, <1>2, <2>1 DEF TextOf
    <2>3. <<"__EMPTY">> \in MadeUp(j) BY <1>2, <2>1 DEF MadeUp
    <2>4. QED BY <2>2, <2>3
<1>4. <<column.name>> = <<name>> BY <1>1, <1>2, <1>3 DEF TextOf
<1>5. QED BY <1>2, <1>4

LEMMA EarlierPlace ==
    ASSUME NEW n \in Nat, NEW i \in 1..n, NEW j \in 1..(i - 1)
    PROVE  j \in 1..n
OBVIOUS

LEMMA OnlyPlace ==
    ASSUME NEW n \in Nat, NEW i \in 1..n, NEW j \in 1..n, ~(j > i), j \notin 1..(i - 1)
    PROVE  j = i
OBVIOUS

LEMMA BeforePlace ==
    ASSUME NEW n \in Nat, NEW i \in 1..n, NEW j \in 1..n, ~(j > i), j # i
    PROVE  j < i /\ ~(i < j)
OBVIOUS

LEMMA SameColumn ==
    ASSUME NEW a \in [name : STRING, pad : STRING], NEW b \in [name : STRING, pad : STRING],
           a.name = b.name, a.pad = b.pad
    PROVE  a = b
<1>1. a = [name |-> a.name, pad |-> a.pad] /\ b = [name |-> b.name, pad |-> b.pad] OBVIOUS
<1>2. QED BY <1>1

\* A column keeps its name as its key when nothing before it has that key.
LEMMA NameKept ==
    ASSUME IsSheet(sheet), NEW keys \in KeysOf, NEW i \in Positions,
           ~Padded(sheet.header[i]), sheet.kind = "xlsx" => sheet.header[i].name # "",
           \A j \in 1..(i - 1) : sheet.header[j] # sheet.header[i],
           \A j \in Positions : <<sheet.header[i].name>> \notin MadeUp(j)
    PROVE  keys[i] = <<sheet.header[i].name>>
<1> DEFINE column == sheet.header[i]
<1>1. TextOf(column) = <<column.name>> BY DEF TextOf
<1>2. ASSUME NEW j \in 1..(i - 1) PROVE keys[j] # TextOf(column)
    <2>1. j \in Positions
        <3>1. Positions = 1..Len(sheet.header) /\ Len(sheet.header) \in Nat BY SheetFacts
        <3>2. QED BY <3>1, EarlierPlace
    <2>2. SUFFICES ASSUME keys[j] = <<column.name>> PROVE FALSE BY <1>1
    <2> DEFINE name == column.name
    <2>2a. keys[j] = <<name>> /\ <<name>> \notin MadeUp(j) BY <2>1, <2>2
    <2> HIDE DEF name
    <2>2b. ~Padded(sheet.header[j]) /\ sheet.header[j].name = name
        BY <2>1, <2>2a, OwnKey
    <2>3. ~Padded(sheet.header[j]) /\ sheet.header[j].name = column.name
        BY <2>2b DEF name
    <2>4. sheet.header[j].pad = column.pad BY <2>3 DEF Padded
    <2>5. /\ sheet.header[j] \in [name : STRING, pad : STRING]
          /\ column \in [name : STRING, pad : STRING]
        BY <2>1, SheetFacts
    <2>6. sheet.header[j] = column BY <2>3, <2>4, <2>5, SameColumn
    <2>7. QED BY <2>6
<1>3. keys[i] = TextOf(column) BY <1>2 DEF KeysOf
<1>4. QED BY <1>1, <1>3

(***************************************************************************)
(* What is read of a row                                                   *)
(***************************************************************************)

\* NormaliseRow in parts.
MappedBy(mapping, key) == key \in DOMAIN mapping /\ mapping[key] # "skip"

GivenBy(row, mapping, field) ==
    {key \in DOMAIN row :
        /\ MappedBy(mapping, key) /\ mapping[key] = field
        /\ Says(field, row[key].cell.text)}

LatestOf(row, keys) ==
    CHOOSE key \in keys : \A other \in keys \ {key} : Before(row, other, key)

ContactFields == StandardFields \union {"custom"}

ContactBy(row, mapping, batchId) ==
    [field \in ContactFields |->
        IF field = "custom" THEN {key \in DOMAIN row : ~MappedBy(mapping, key)}
        ELSE IF GivenBy(row, mapping, field) = {} THEN EmptyContact(batchId)[field]
        ELSE FieldValue(field, row[LatestOf(row, GivenBy(row, mapping, field))].cell.text)]

LEMMA RowJudged ==
    ASSUME NEW row, NEW mapping, NEW batchId
    PROVE  LET contact == ContactBy(row, mapping, batchId)
               Answer(outcome, c) == [outcome |-> outcome, contact |-> c]
           IN  NormaliseRow(row, mapping, batchId) =
                IF \E key \in DOMAIN row : MappedBy(mapping, key) /\ row[key].cell.typed
                THEN Answer("throws", Null)
                ELSE IF contact["phone"] \in {Unset, Blank} THEN Answer("missing", Null)
                ELSE IF NormalisePhone(contact["phone"]) = Null THEN Answer("invalid", Null)
                ELSE Answer("accepted",
                            [contact EXCEPT !["phone"] = NormalisePhone(contact["phone"])])
BY DEF NormaliseRow, ContactBy, ContactFields, GivenBy, LatestOf, MappedBy

\* The key that all others of the field come before is the one that is read.
LEMMA LatestRead ==
    ASSUME NEW row, NEW mapping, NEW batchId, NEW field \in StandardFields,
           NEW key \in GivenBy(row, mapping, field),
           \A other \in GivenBy(row, mapping, field) \ {key} :
                Before(row, other, key) /\ ~Before(row, key, other)
    PROVE  ContactBy(row, mapping, batchId)[field] = FieldValue(field, row[key].cell.text)
<1> DEFINE keys == GivenBy(row, mapping, field)
<1>1. key \in keys /\ \A other \in keys \ {key} : Before(row, other, key) OBVIOUS
<1>2. ASSUME NEW k \in keys, \A other \in keys \ {k} : Before(row, other, k) PROVE k = key
    <2>1. k # key => Before(row, key, k) BY <1>1, <1>2
    <2>2. QED BY <2>1
<1>3. LatestOf(row, keys) = key
    <2> HIDE DEF keys
    <2>1. QED BY <1>1, <1>2 DEF LatestOf
<1>4. keys # {} BY <1>1
<1>5. field \in ContactFields /\ field # "custom" BY DEF ContactFields, StandardFields
<1>6. QED BY <1>3, <1>4, <1>5 DEF ContactBy

\* When no key that xlsx made up is mapped to a field, a key that is mapped to it is
\* the name of a column that the wizard mapped, and of such columns only.
LEMMA MappedKeys ==
    ASSUME IsSheet(sheet), Shown, NEW keys \in KeysOf, NEW field \in StandardFields,
           ~Confused(field), NEW key \in GivenBy(RowOfReader(keys), MappingByKey, field)
    PROVE  /\ key \in ToSet(keys)
           /\ \E name : key = <<name>>
           /\ \A j \in Places(keys, key) :
                /\ j \in Positions /\ MappedTo(j, field)
                /\ ~Padded(sheet.header[j]) /\ key = <<sheet.header[j].name>>
<1>1. key \in DOMAIN RowOfReader(keys) /\ key \in DOMAIN MappingByKey /\ MappingByKey[key] = field
    BY DEF GivenBy, MappedBy
<1>2. key \in ToSet(keys) BY <1>1 DEF RowOfReader
<1>3. PICK name \in DOMAIN fieldMapping : key = <<name>> BY <1>1 DEF MappingByKey
<1>4. fieldMapping[name] = field
    <2>1. MappingByKey[key] = fieldMapping[key[1]] BY <1>1 DEF MappingByKey
    <2>2. QED BY <1>1, <1>3, <2>1
<1>5. PICK k \in Positions : sheet.header[k].name = name
    BY <1>3, HeadersAmong DEF Shown
<1>6. MappedTo(k, field) BY <1>3, <1>4, <1>5 DEF MappedTo, Trimmed
<1>7. \A j \in Positions : key \notin MadeUp(j)
    BY <1>3, <1>5, <1>6 DEF Confused, Trimmed
<1>8. ASSUME NEW j \in Places(keys, key)
      PROVE  /\ j \in Positions /\ MappedTo(j, field)
             /\ ~Padded(sheet.header[j]) /\ key = <<sheet.header[j].name>>
    <2>1. j \in Positions /\ keys[j] = key BY DEF Places, KeysOf
    <2>2. ~Padded(sheet.header[j]) /\ sheet.header[j].name = name
        BY <1>3, <1>7, <2>1, OwnKey
    <2>3. MappedTo(j, field) BY <1>3, <1>4, <2>2 DEF MappedTo, Trimmed
    <2>4. QED BY <1>3, <2>1, <2>2, <2>3
<1>9. QED BY <1>2, <1>3, <1>8

\* The cell of a key is a cell of the sheet.
LEMMA CellsOfSheet ==
    ASSUME IsSheet(sheet), NEW keys \in KeysOf, NEW key \in DOMAIN RowOfReader(keys)
    PROVE  \E j \in Positions : RowOfReader(keys)[key].cell = sheet.row[j]
<1>1. key \in ToSet(keys) BY DEF RowOfReader
<1>2. Places(keys, key) \in SUBSET Positions BY <1>1, RowFacts
<1>3. \E j \in Places(keys, key) : RowOfReader(keys)[key].cell = sheet.row[j]
    BY <1>1, RowFacts
<1>4. QED BY <1>2, <1>3

\* The last column that is mapped to the phone is the one that is read.
LEMMA PhoneRead ==
    ASSUME Inv, step = "stored", NEW keys \in KeysOf, NEW i \in Positions,
           MappedTo(i, "phone"),
           \A j \in Positions : j > i => ~MappedTo(j, "phone"),
           ~Padded(sheet.header[i]),
           \A j \in 1..(i - 1) : sheet.header[j] # sheet.header[i],
           ~Confused("phone"),
           <<sheet.header[i].name>> \in DOMAIN Index =>
                \A j \in Positions \ {i} : ~MappedTo(j, "phone")
    PROVE  ContactBy(RowOfReader(keys), MappingByKey, JobId)["phone"] = sheet.row[i].text
<1> DEFINE row == RowOfReader(keys)
           own == <<sheet.header[i].name>>
           given == GivenBy(row, MappingByKey, "phone")
<1>1. IsSheet(sheet) /\ Shown BY SheetsAssumption DEF Inv
<1>2. "phone" \in StandardFields BY DEF StandardFields
<1>3. sheet.header[i].name \in DOMAIN fieldMapping
      /\ fieldMapping[sheet.header[i].name] = "phone"
    BY DEF MappedTo, Trimmed
<1>4. keys[i] = own
    <2>1. sheet.kind = "xlsx" => sheet.header[i].name # ""
        BY <1>1, <1>3, HeadersAmong DEF Shown, NoName
    <2>2. \A j \in Positions : own \notin MadeUp(j) BY DEF Confused, Trimmed
    <2> HIDE DEF own
    <2>3. \A j \in Positions : <<sheet.header[i].name>> \notin MadeUp(j) BY <2>2 DEF own
    <2>4. keys[i] = <<sheet.header[i].name>> BY <1>1, <2>1, <2>3, NameKept
    <2>5. QED BY <2>4 DEF own
<1>5. DOMAIN keys = Positions BY DEF KeysOf
<1>6. own \in ToSet(keys) BY <1>4, <1>5 DEF ToSet
<1>7. own \in given
    <2>1. own \in DOMAIN MappingByKey BY <1>3 DEF MappingByKey
    <2>2. MappingByKey[own] = "phone" BY <1>3, <2>1 DEF MappingByKey
    <2>3. own \in DOMAIN row BY <1>6 DEF RowOfReader
    <2>4. Says("phone", row[own].cell.text) BY DEF Says
    <2> HIDE DEF own, row
    <2>5. QED BY <2>1, <2>2, <2>3, <2>4 DEF GivenBy, MappedBy
<1>8. Places(keys, own) = {i}
    <2>1. i \in Places(keys, own) BY <1>4, <1>5 DEF Places
    <2>2. ASSUME NEW j \in Places(keys, own) PROVE j = i
        <3> HIDE DEF own
        <3>1. /\ j \in Positions /\ MappedTo(j, "phone") /\ ~Padded(sheet.header[j])
              /\ own = <<sheet.header[j].name>>
            BY <1>1, <1>2, <1>7, MappedKeys
        <3>2. sheet.header[j].name = sheet.header[i].name BY <3>1 DEF own
        <3>3. sheet.header[j].pad = sheet.header[i].pad BY <3>1 DEF Padded
        <3>4. /\ sheet.header[j] \in [name : STRING, pad : STRING]
              /\ sheet.header[i] \in [name : STRING, pad : STRING]
            BY <1>1, <3>1, SheetFacts
        <3>5. sheet.header[j] = sheet.header[i] BY <3>2, <3>3, <3>4, SameColumn
        <3>6. ~(j > i) BY <3>1
        <3>7. j \notin 1..(i - 1) BY <3>5
        <3>8. Positions = 1..Len(sheet.header) /\ Len(sheet.header) \in Nat BY <1>1, SheetFacts
        <3>9. QED BY <3>1, <3>6, <3>7, <3>8, OnlyPlace
    <2>3. QED BY <2>1, <2>2
<1> HIDE DEF own, row, given
<1>9. row[own].place = i /\ row[own].cell = sheet.row[i]
    <2>1. row[own].place \in Places(keys, own)
          /\ \E last \in Places(keys, own) : row[own].cell = sheet.row[last]
        BY <1>1, <1>6, RowFacts DEF row
    <2>2. QED BY <1>8, <2>1
<1>10. ASSUME NEW other \in given \ {own}
       PROVE  Before(row, other, own) /\ ~Before(row, own, other)
    <2> DEFINE j == row[other].place
    <2>1. other \in ToSet(keys)
          /\ \A k \in Places(keys, other) :
                k \in Positions /\ MappedTo(k, "phone")
        BY <1>1, <1>2, MappedKeys DEF row, given
    <2>2. j \in Places(keys, other) BY <1>1, <2>1, RowFacts DEF row
    <2>3. j \in Positions /\ MappedTo(j, "phone") BY <2>1, <2>2
    <2>4. j # i BY <1>4, <2>2 DEF Places
    <2>5. own \notin DOMAIN Index BY <2>3, <2>4 DEF own
    <2>6. j < i /\ ~(i < j)
        <3>1. ~(j > i) BY <2>3
        <3>2. Positions = 1..Len(sheet.header) /\ Len(sheet.header) \in Nat BY <1>1, SheetFacts
        <3> HIDE DEF j
        <3>3. QED BY <2>3, <2>4, <3>1, <3>2, BeforePlace
    <2>7. row[other].place < row[own].place /\ ~(row[own].place < row[other].place)
        BY <1>9, <2>6
    <2>8. QED BY <2>5, <2>7 DEF Before
<1>11. ContactBy(row, MappingByKey, JobId)["phone"] = FieldValue("phone", row[own].cell.text)
    BY <1>2, <1>7, <1>10, LatestRead DEF given
<1>12. FieldValue("phone", row[own].cell.text) = row[own].cell.text BY DEF FieldValue
<1>13. QED BY <1>9, <1>11, <1>12 DEF row

\* MappedColumnArrives: whatever the file, its headers and the mapping, the phone
\* that the server stores is the one the preview of the wizard shows for the last
\* column mapped to it, but for the cases the property names.
THEOREM Arrival == Spec => []MappedColumnArrives
<1>1. ASSUME Inv, step = "stored", NEW i \in Positions,
             MappedTo(i, "phone"),
             NormalisePhone(previewRow[sheet.header[i].name]) # Null,
             \A j \in Positions : j > i => ~MappedTo(j, "phone"),
             ~Padded(sheet.header[i]),
             ~(sheet.kind = "xlsx" /\ \E j \in 1..(i - 1) : sheet.header[j].name = ""),
             ~ \E j \in DOMAIN sheet.row : sheet.row[j].typed,
             ~ \E j \in 1..(i - 1) : sheet.header[j] = sheet.header[i],
             ~Confused("phone"),
             ~(/\ <<sheet.header[i].name>> \in DOMAIN Index
               /\ \E j \in Positions \ {i} : MappedTo(j, "phone"))
      PROVE  /\ result.outcome = "accepted"
             /\ result.contact["phone"] = NormalisePhone(previewRow[sheet.header[i].name])
    <2>1. IsSheet(sheet) /\ Shown BY <1>1, SheetsAssumption DEF Inv
    <2>2. PICK keys \in KeysOf :
                result = NormaliseRow(RowOfReader(keys), MappingByKey, JobId)
        BY <1>1 DEF Inv, Read
    <2> DEFINE row == RowOfReader(keys)
               text == sheet.row[i].text
               contact == ContactBy(row, MappingByKey, JobId)
    <2>3. previewRow[sheet.header[i].name] = text
        <3>1. sheet.header[i].name \in ToSet(ParseHeaders)
            BY <1>1, <2>1 DEF MappedTo, Trimmed, Shown
        <3>2. sheet.kind = "xlsx" => \A j \in 1..(i - 1) : sheet.header[j].name # NoName
            BY <1>1 DEF NoName
        <3>3. \A j \in Positions : j > i => sheet.header[j].name # sheet.header[i].name
            BY <1>1 DEF MappedTo, Trimmed
        <3>4. ParsePreview(ParseHeaders)[sheet.header[i].name] = text
            BY <2>1, <3>1, <3>2, <3>3, PreviewOfColumn
        <3>5. QED BY <2>1, <3>4 DEF Shown
    <2>4. contact["phone"] = text
        <3>1. \A j \in 1..(i - 1) : sheet.header[j] # sheet.header[i] BY <1>1
        <3>2. <<sheet.header[i].name>> \in DOMAIN Index =>
                    \A j \in Positions \ {i} : ~MappedTo(j, "phone")
            BY <1>1
        <3>3. QED BY <1>1, <3>1, <3>2, PhoneRead
    <2>5. \A key \in DOMAIN row : ~row[key].cell.typed
        <3>1. DOMAIN sheet.row = Positions BY <2>1, SheetFacts
        <3>2. QED BY <1>1, <2>1, <3>1, CellsOfSheet
    <2>6. NormalisePhone(text) # Null BY <1>1, <2>3
    <2>7. text \in Texts BY <2>1, SheetFacts
    <2>8. text \notin {Unset, Blank}
        <3>1. NormalisePhone(Blank) = Null
            <4>1. Blank.digits = <<>> /\ Len(<<>>) < 7 BY DEF Blank, Word, Text
            <4>2. QED BY <4>1 DEF NormalisePhone
        <3>2. QED BY <2>6, <2>7, <3>1, UnsetAssumption
    <2> DEFINE stored == [contact EXCEPT !["phone"] = NormalisePhone(contact["phone"])]
    <2> HIDE DEF row, text
    <2>9. stored["phone"] = NormalisePhone(text)
        <3>1. "phone" \in DOMAIN contact BY DEF ContactBy, ContactFields, StandardFields
        <3> HIDE DEF contact
        <3>2. QED BY <2>4, <3>1
    <2> HIDE DEF contact
    <2>10. NormaliseRow(row, MappingByKey, JobId) =
                [outcome |-> "accepted", contact |-> stored]
        BY <2>4, <2>5, <2>6, <2>8, RowJudged DEF contact
    <2> HIDE DEF stored
    <2>11. result.outcome = "accepted" /\ result.contact = stored
        BY <2>2, <2>10 DEF row
    <2>12. QED BY <2>3, <2>9, <2>11
<1>2. Inv => MappedColumnArrives
    BY <1>1 DEF MappedColumnArrives
<1>3. QED BY <1>2, Invariance, PTL

\* BlankCellTakesNothing: a row that is accepted leaves a field unset, and with it
\* what the contact has, when the only cell that is mapped to it is blank.
THEOREM BlankTakesNothing == Spec => []BlankCellTakesNothing
<1>1. ASSUME Inv, step = "stored", result.outcome = "accepted",
             NEW i \in Positions,
             NEW field \in StandardFields \ {"phone", "tags", "opt"},
             sheet.row[i].text = Blank,
             \A j \in Positions : MappedTo(j, field) <=> j = i,
             ~Confused(field)
      PROVE  result.contact[field] = EmptyContact(JobId)[field]
    <2>1. IsSheet(sheet) /\ Shown BY <1>1, SheetsAssumption DEF Inv
    <2>2. PICK keys \in KeysOf :
                result = NormaliseRow(RowOfReader(keys), MappingByKey, JobId)
        BY <1>1 DEF Inv, Read
    <2> DEFINE row == RowOfReader(keys)
               given == GivenBy(row, MappingByKey, field)
               contact == ContactBy(row, MappingByKey, JobId)
    <2>3. field \in {"email", "name", "source_batch_id"} /\ field \in StandardFields
        BY DEF StandardFields
    <2>4. ASSUME NEW key \in given
          PROVE  row[key].cell.text = Blank /\ Says(field, Blank) /\ key = <<sheet.header[i].name>>
        <3>1. /\ key \in ToSet(keys)
              /\ \A j \in Places(keys, key) :
                    j \in Positions /\ MappedTo(j, field) /\ key = <<sheet.header[j].name>>
            BY <1>1, <2>1, <2>3, MappedKeys
        <3>2. PICK last \in Places(keys, key) : row[key].cell = sheet.row[last]
            BY <2>1, <3>1, RowFacts
        <3>3. last = i BY <1>1, <3>1, <3>2
        <3>4. row[key].cell.text = Blank BY <1>1, <3>2, <3>3
        <3>5. Says(field, row[key].cell.text) BY DEF GivenBy
        <3>6. QED BY <3>1, <3>2, <3>3, <3>4, <3>5
    <2>5. contact[field] = EmptyContact(JobId)[field]
        <3>1. field \in ContactFields /\ field # "custom" BY <2>3 DEF ContactFields
        <3>2. CASE given = {} BY <3>1, <3>2 DEF ContactBy
        <3>3. CASE given # {}
            <4>1. PICK key \in given : given = {key} BY <2>4, <3>3
            <4> HIDE DEF row, given
            <4>2. row[key].cell.text = Blank /\ Says(field, Blank) BY <2>4, <4>1
            <4>3. field = "email" BY <2>3, <4>2 DEF Says
            <4>4. contact[field] = FieldValue(field, row[key].cell.text)
                <5>1. \A other \in given \ {key} :
                            Before(row, other, key) /\ ~Before(row, key, other)
                    BY <4>1
                <5>2. QED BY <2>3, <4>1, <5>1, LatestRead DEF given
            <4>5. NormaliseEmail(Blank) = Null BY DEF NormaliseEmail, Blank, Word, Text
            <4>6. FieldValue(field, Blank) = Unset BY <4>3, <4>5 DEF FieldValue
            <4>7. EmptyContact(JobId)["email"] = Unset BY DEF EmptyContact
            <4>8. QED BY <4>2, <4>3, <4>4, <4>6, <4>7
        <3>4. QED BY <3>2, <3>3
    <2>6. field \in DOMAIN contact /\ field # "phone"
        BY <2>3 DEF ContactBy, ContactFields
    <2> HIDE DEF row, contact
    <2>7. result.contact = [contact EXCEPT !["phone"] = NormalisePhone(contact["phone"])]
        BY <1>1, <2>2, RowJudged DEF contact, row
    <2>8. QED BY <2>5, <2>6, <2>7
<1>2. Inv => BlankCellTakesNothing
    BY <1>1 DEF BlankCellTakesNothing
<1>3. QED BY <1>2, Invariance, PTL

=============================================================================
