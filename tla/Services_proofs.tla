--------------------------- MODULE Services_proofs ---------------------------
(***************************************************************************)
(* Proofs about the services beside the API process: the consent ledger,   *)
(* journeys, the consent SDK, the answers of the routes, schedules, the    *)
(* stores in memory and in the tables, the limiters and the audit trail.   *)
(***************************************************************************)
EXTENDS Journeys, ConsentLedger, ConsentSdk, Routes, Scheduler, Backends, RateLimiter, AuditTrail,
        DataLemmas

-----------------------------------------------------------------------------
(* The consent ledger.                                                     *)

Texts == {hashedText(c) : c \in Contents}
Hashes == Seq(Texts)
Lines == [tenant : {Home, Other}, content : Contents, prevHash : Hashes, hash : Hashes,
          sig : [key : Nat, of : Hashes]]

LedgerTypes ==
  /\ rows \in Seq(Lines) /\ issued \subseteq Lines /\ key \in Nat
  /\ reading \in [Writers -> [hash : Hashes, on : BOOLEAN]]

\* Nobody else can sign: the signature of a row, with the key at hand, is that of a
\* record that was appended, and such a record is as append() made it.
NobodyForges ==
  /\ \A i \in 1..Len(rows) : rows[i].sig.key <= key
  /\ \A i \in 1..Len(rows) : rows[i].sig.key = key => \E r \in issued : r.sig = rows[i].sig
  /\ \A r \in issued : /\ r.tenant = Home /\ r.hash = computeRecordHash(r.prevHash, r.content)
                       /\ r.sig = [key |-> key, of |-> r.hash]

LedgerInv == LedgerTypes /\ NobodyForges

LEMMA TextTyped == \A c \in Contents : hashedText(c) \in Texts
BY DEF Texts

LEMMA LedgerStart == LedgerInit => LedgerInv
BY DEF LedgerInit, LedgerInv, LedgerTypes, NobodyForges, NotReading, Genesis, Hashes

LEMMA ReadStep ==
  ASSUME LedgerInv, NEW w \in Writers, ReadLatest(w)
  PROVE  LedgerInv'
<1>1. UNCHANGED <<rows, key, issued>> BY DEF ReadLatest
<1> DEFINE h == IF rows = <<>> THEN Genesis ELSE Last(rows).hash
<1>2. h \in Hashes
  <2>1. CASE rows = <<>> BY <2>1 DEF Genesis, Hashes
  <2>2. CASE rows # <<>>
    <3>1. rows[Len(rows)] \in Lines BY <2>2 DEF LedgerInv, LedgerTypes
    <3> QED BY <2>2, <3>1 DEF Last, Lines
  <2> QED BY <2>1, <2>2
<1>3. reading' = [reading EXCEPT ![w] = [hash |-> h, on |-> TRUE]] BY DEF ReadLatest
<1> HIDE DEF h
<1>4. reading' \in [Writers -> [hash : Hashes, on : BOOLEAN]]
  BY <1>2, <1>3 DEF LedgerInv, LedgerTypes
<1> QED BY <1>1, <1>4 DEF LedgerInv, LedgerTypes, NobodyForges

LEMMA AppendStep ==
  ASSUME LedgerInv, NEW w \in Writers, NEW c \in Contents, AppendRecord(w, c)
  PROVE  LedgerInv'
<1> DEFINE h == reading[w].hash
           r == LedgerRecord(c, h)
<1>1. /\ rows' = Append(rows, r) /\ issued' = issued \cup {r} /\ key' = key
      /\ reading' = [reading EXCEPT ![w] = NotReading]
  BY DEF AppendRecord
<1>2. h \in Hashes /\ key \in Nat /\ rows \in Seq(Lines) BY DEF LedgerInv, LedgerTypes
<1>3. /\ r.tenant = Home /\ r.content = c /\ r.prevHash = h /\ r.hash = computeRecordHash(h, c)
      /\ r.sig = [key |-> key, of |-> computeRecordHash(h, c)] /\ r.sig.key = key
  BY DEF LedgerRecord
<1>4. r \in Lines
  <2>1. computeRecordHash(h, c) \in Hashes BY <1>2, TextTyped DEF computeRecordHash, Hashes
  <2> QED BY <1>2, <2>1 DEF LedgerRecord, Lines
<1>5. NotReading \in [hash : Hashes, on : BOOLEAN] BY DEF NotReading, Genesis, Hashes
<1> HIDE DEF r, h
<1>6. /\ rows' \in Seq(Lines) /\ Len(rows') = Len(rows) + 1 /\ Len(rows) \in Nat
      /\ rows'[Len(rows) + 1] = r /\ \A i \in 1..Len(rows) : rows'[i] = rows[i]
  BY <1>1, <1>2, <1>4
<1>7. LedgerTypes' BY <1>1, <1>4, <1>5, <1>6 DEF LedgerInv, LedgerTypes
<1>8. NobodyForges'
  <2>1. \A i \in 1..Len(rows') : i \in 1..Len(rows) \/ rows'[i] = r BY <1>6
  <2>2. \A i \in 1..Len(rows') : rows'[i].sig.key <= key
    BY <1>2, <1>3, <1>6, <2>1 DEF LedgerInv, NobodyForges
  <2>3. \A i \in 1..Len(rows') : rows'[i].sig.key = key => \E s \in issued' : s.sig = rows'[i].sig
    BY <1>1, <1>6, <2>1 DEF LedgerInv, NobodyForges
  <2>4. \A s \in issued' : /\ s.tenant = Home /\ s.hash = computeRecordHash(s.prevHash, s.content)
                           /\ s.sig = [key |-> key, of |-> s.hash]
    BY <1>1, <1>3 DEF LedgerInv, NobodyForges
  <2> QED BY <1>1, <2>2, <2>3, <2>4 DEF NobodyForges
<1> QED BY <1>7, <1>8 DEF LedgerInv

\* Edits leave signatures that were there.
LEMMA Cut ==
  ASSUME NEW S, NEW s \in Seq(S), NEW m \in 1..(Len(s) + 1), NEW n \in 0..Len(s), m <= n + 1
  PROVE  /\ SubSeq(s, m, n) \in Seq(S) /\ Len(SubSeq(s, m, n)) = n - m + 1
         /\ \A k \in 1..(n - m + 1) : SubSeq(s, m, n)[k] = s[m + k - 1]
<1>1. \A k \in m..n : s[k] \in S OBVIOUS
<1>2. m \in Int /\ n \in Int OBVIOUS
<1>3. (IF m <= n THEN n - m + 1 ELSE 0) = n - m + 1 OBVIOUS
<1> QED BY <1>1, <1>2, <1>3, SubSeqProperties

LEMMA EditKeeps ==
  ASSUME LedgerInv, rows' \in Seq(Lines), UNCHANGED <<reading, key, issued>>,
         \A i \in 1..Len(rows') : \E j \in 1..Len(rows) : rows'[i].sig = rows[j].sig
  PROVE  LedgerInv'
<1>1. LedgerTypes' BY DEF LedgerInv, LedgerTypes
<1>2. \A i \in 1..Len(rows') :
        /\ rows'[i].sig.key <= key
        /\ rows'[i].sig.key = key => \E r \in issued : r.sig = rows'[i].sig
  <2> SUFFICES ASSUME NEW i \in 1..Len(rows')
               PROVE  /\ rows'[i].sig.key <= key
                      /\ rows'[i].sig.key = key => \E r \in issued : r.sig = rows'[i].sig
    OBVIOUS
  <2>1. PICK j \in 1..Len(rows) : rows'[i].sig = rows[j].sig OBVIOUS
  <2> QED BY <2>1 DEF LedgerInv, NobodyForges
<1> QED BY <1>1, <1>2 DEF LedgerInv, NobodyForges

LEMMA EditStep ==
  ASSUME LedgerInv, EditRows
  PROVE  LedgerInv'
<1>1. UNCHANGED <<reading, key, issued>> BY DEF EditRows
<1>2. rows \in Seq(Lines) /\ Len(rows) \in Nat /\ DOMAIN rows = 1..Len(rows)
  BY DEF LedgerInv, LedgerTypes
<1>3. PICK i \in 1..Len(rows) :
       \/ rows' = RemoveAt(rows, i)
       \/ \E j \in 1..Len(rows) : rows' = [rows EXCEPT ![i] = rows[j], ![j] = rows[i]]
       \/ rows' = [rows EXCEPT ![i].tenant = Other]
       \/ \E c \in Contents : rows' = [rows EXCEPT ![i].content = c]
       \/ \E c \in Contents : rows' = [rows EXCEPT ![i].content = c,
                                         ![i].hash = computeRecordHash(rows[i].prevHash, c)]
  BY <1>2 DEF EditRows
<1>4. rows[i] \in Lines BY <1>2
<1>5. CASE rows' = RemoveAt(rows, i)
  <2>1. rows' = SubSeq(rows, 1, i - 1) \o SubSeq(rows, i + 1, Len(rows)) BY <1>5 DEF RemoveAt
  <2>2. /\ rows' \in Seq(Lines) /\ Len(rows') = Len(rows) - 1
        /\ \A k \in 1..Len(rows') : rows'[k] = IF k < i THEN rows[k] ELSE rows[k + 1]
    <3> DEFINE a == SubSeq(rows, 1, i - 1)
               b == SubSeq(rows, i + 1, Len(rows))
    <3>1. /\ a \in Seq(Lines) /\ Len(a) = i - 1 /\ \A k \in 1..(i - 1) : a[k] = rows[k]
          /\ b \in Seq(Lines) /\ Len(b) = Len(rows) - i
          /\ \A k \in 1..(Len(rows) - i) : b[k] = rows[i + k]
      <4>1. i \in Nat /\ Len(rows) \in Nat /\ \A k \in 1..Len(rows) : rows[k] \in Lines BY <1>2
      <4>2. a \in Seq(Lines) /\ Len(a) = (i - 1) - 1 + 1
            /\ \A k \in 1..((i - 1) - 1 + 1) : a[k] = rows[1 + k - 1]
        BY <1>2, <4>1, Cut
      <4>3. b \in Seq(Lines) /\ Len(b) = Len(rows) - (i + 1) + 1
            /\ \A k \in 1..(Len(rows) - (i + 1) + 1) : b[k] = rows[(i + 1) + k - 1]
        <5>1. i + 1 \in 1..(Len(rows) + 1) /\ Len(rows) \in 0..Len(rows) /\ i + 1 <= Len(rows) + 1
          BY <4>1
        <5> DEFINE m == i + 1
        <5> HIDE DEF m
        <5>2. /\ SubSeq(rows, m, Len(rows)) \in Seq(Lines)
              /\ Len(SubSeq(rows, m, Len(rows))) = Len(rows) - m + 1
              /\ \A k \in 1..(Len(rows) - m + 1) : SubSeq(rows, m, Len(rows))[k] = rows[m + k - 1]
          BY <1>2, <5>1, Cut DEF m
        <5> QED BY <5>2 DEF m
      <4> HIDE DEF a, b
      <4>4. (i - 1) - 1 + 1 = i - 1 /\ Len(rows) - (i + 1) + 1 = Len(rows) - i BY <4>1
      <4>5. a \in Seq(Lines) /\ Len(a) = i - 1 /\ \A k \in 1..(i - 1) : a[k] = rows[k]
        <5>1. \A k \in 1..(i - 1) : 1 + k - 1 = k BY <4>1
        <5> QED BY <4>2, <4>4, <5>1
      <4>6. b \in Seq(Lines) /\ Len(b) = Len(rows) - i /\ \A k \in 1..(Len(rows) - i) : b[k] = rows[i + k]
        <5>1. \A k \in 1..(Len(rows) - i) : (i + 1) + k - 1 = i + k BY <4>1
        <5> QED BY <4>3, <4>4, <5>1
      <4> QED BY <4>5, <4>6
    <3>2. rows' = a \o b BY <2>1
    <3> HIDE DEF a, b
    <3>3. /\ rows' \in Seq(Lines) /\ Len(rows') = Len(rows) - 1
          /\ \A k \in 1..Len(rows') : rows'[k] = IF k < i THEN a[k] ELSE b[k - (i - 1)]
      <4>1. /\ a \o b \in Seq(Lines) /\ Len(a \o b) = Len(a) + Len(b)
            /\ \A k \in 1..(Len(a) + Len(b)) : (a \o b)[k] = IF k <= Len(a) THEN a[k] ELSE b[k - Len(a)]
        BY <3>1, ConcatProperties
      <4>2. Len(a) = i - 1 /\ Len(b) = Len(rows) - i /\ i \in Nat /\ Len(rows) \in Nat BY <1>2, <3>1
      <4>3. \A k \in 1..(Len(rows) - 1) : k <= i - 1 <=> k < i BY <1>2
      <4> QED BY <3>2, <4>1, <4>2, <4>3
    <3>4. ASSUME NEW k \in 1..Len(rows'), ~(k < i) PROVE rows'[k] = rows[k + 1]
      <4>1. k - (i - 1) \in 1..(Len(rows) - i) /\ i + (k - (i - 1)) = k + 1 BY <1>2, <3>3, <3>4
      <4> QED BY <3>1, <3>3, <3>4, <4>1
    <3>5. ASSUME NEW k \in 1..Len(rows'), k < i PROVE rows'[k] = rows[k]
      BY <1>2, <3>1, <3>3, <3>5
    <3> QED BY <3>3, <3>4, <3>5
  <2>3. \A k \in 1..Len(rows') : \E j \in 1..Len(rows) : rows'[k].sig = rows[j].sig
    <3> SUFFICES ASSUME NEW k \in 1..Len(rows')
                 PROVE  \E j \in 1..Len(rows) : rows'[k].sig = rows[j].sig
      OBVIOUS
    <3>1. k \in 1..Len(rows) /\ k + 1 \in 1..Len(rows) BY <1>2, <2>2
    <3> QED BY <2>2, <3>1
  <2> QED BY <1>1, <2>2, <2>3, EditKeeps
<1>6. CASE \E j \in 1..Len(rows) : rows' = [rows EXCEPT ![i] = rows[j], ![j] = rows[i]]
  BY <1>1, <1>2, <1>6, EditKeeps
<1>7. ASSUME NEW r \in Lines, r.sig = rows[i].sig, rows' = [rows EXCEPT ![i] = r]
      PROVE  LedgerInv'
  BY <1>1, <1>2, <1>7, EditKeeps
<1>8. CASE rows' = [rows EXCEPT ![i].tenant = Other]
  <2> DEFINE r == [rows[i] EXCEPT !.tenant = Other]
  <2>1. r \in Lines /\ r.sig = rows[i].sig BY <1>4 DEF Lines
  <2>2. rows' = [rows EXCEPT ![i] = r] BY <1>8
  <2> QED BY <1>7, <2>1, <2>2
<1>9. ASSUME NEW c \in Contents, rows' = [rows EXCEPT ![i].content = c]
      PROVE  LedgerInv'
  <2> DEFINE r == [rows[i] EXCEPT !.content = c]
  <2>1. r \in Lines /\ r.sig = rows[i].sig BY <1>4 DEF Lines
  <2>2. rows' = [rows EXCEPT ![i] = r] BY <1>9
  <2> QED BY <1>7, <2>1, <2>2
<1>10. ASSUME NEW c \in Contents,
              rows' = [rows EXCEPT ![i].content = c,
                                   ![i].hash = computeRecordHash(rows[i].prevHash, c)]
       PROVE  LedgerInv'
  <2> DEFINE h == computeRecordHash(rows[i].prevHash, c)
             q == [rows[i] EXCEPT !.content = c]
             r == [q EXCEPT !.hash = h]
  <2>1. h \in Hashes BY <1>4, TextTyped DEF computeRecordHash, Lines, Hashes
  <2>2. q \in Lines /\ q.sig = rows[i].sig BY <1>4 DEF Lines
  <2>3. rows' = [rows EXCEPT ![i] = r] BY <1>2, <1>10
  <2> HIDE DEF q, h
  <2>4. r \in Lines /\ r.sig = q.sig BY <2>1, <2>2 DEF Lines
  <2> QED BY <1>7, <2>2, <2>3, <2>4
<1> QED BY <1>3, <1>5, <1>6, <1>8, <1>9, <1>10

LEMMA RestartStep ==
  ASSUME LedgerInv, RestartWithoutKeys
  PROVE  LedgerInv'
<1>1. NotReading \in [hash : Hashes, on : BOOLEAN] BY DEF NotReading, Genesis, Hashes
<1>2. /\ rows' = rows /\ key' = key + 1 /\ key \in Nat /\ issued' = {}
      /\ reading' = [w \in Writers |-> NotReading] /\ rows \in Seq(Lines)
  BY DEF RestartWithoutKeys, LedgerInv, LedgerTypes
<1>3. LedgerTypes'
  <2>1. reading' \in [Writers -> [hash : Hashes, on : BOOLEAN]] BY <1>1, <1>2
  <2> QED BY <1>2, <2>1 DEF LedgerTypes
<1>4. \A i \in 1..Len(rows) : rows[i].sig.key \in Nat /\ rows[i].sig.key <= key
  <2>1. \A i \in 1..Len(rows) : rows[i] \in Lines BY <1>2
  <2>2. \A r \in Lines : r.sig.key \in Nat BY DEF Lines
  <2> QED BY <2>1, <2>2 DEF LedgerInv, NobodyForges
<1>5. NobodyForges' BY <1>2, <1>4 DEF NobodyForges
<1> QED BY <1>3, <1>5 DEF LedgerInv

LEMMA LedgerStep == LedgerInv /\ [LedgerNext]_ledgerVars => LedgerInv'
<1> SUFFICES ASSUME LedgerInv, [LedgerNext]_ledgerVars PROVE LedgerInv'
  OBVIOUS
<1>1. CASE UNCHANGED ledgerVars
  BY <1>1 DEF ledgerVars, LedgerInv, LedgerTypes, NobodyForges
<1> QED BY <1>1, ReadStep, AppendStep, EditStep, RestartStep DEF LedgerNext

-----------------------------------------------------------------------------
\* The texts of the rows up to the n-th.
Said(n) == [k \in 1..n |-> hashedText(rows[k].content)]

LEMMA SaidMore ==
  ASSUME LedgerInv, NEW n \in Nat, n + 1 <= Len(rows)
  PROVE  Append(Said(n), hashedText(rows[n + 1].content)) = Said(n + 1)
<1> DEFINE text == [k \in 1..(n + 1) |-> hashedText(rows[k].content)]
           c == text[n + 1]
<1>1. \A k \in 1..(n + 1) : text[k] \in Texts /\ text[k] = hashedText(rows[k].content)
  <2>1. \A k \in 1..(n + 1) : rows[k] \in Lines BY DEF LedgerInv, LedgerTypes
  <2>2. \A k \in 1..(n + 1) : rows[k].content \in Contents BY <2>1 DEF Lines
  <2> QED BY <2>2, TextTyped
<1>2. /\ Said(n) = [k \in 1..n |-> text[k]] /\ Said(n + 1) = [k \in 1..(n + 1) |-> text[k]]
  BY DEF Said
<1>7. c = hashedText(rows[n + 1].content) BY <1>1
<1> HIDE DEF text
<1>3. /\ Said(n) \in Seq(Texts) /\ Len(Said(n)) = n /\ \A k \in 1..n : Said(n)[k] = text[k]
  BY <1>1, <1>2
<1>4. /\ Said(n + 1) \in Seq(Texts) /\ Len(Said(n + 1)) = n + 1
      /\ \A k \in 1..(n + 1) : Said(n + 1)[k] = text[k]
  BY <1>1, <1>2
<1>5. c \in Texts BY <1>1
<1>6. /\ Append(Said(n), c) \in Seq(Texts) /\ Len(Append(Said(n), c)) = n + 1
      /\ Append(Said(n), c)[n + 1] = c
      /\ \A k \in 1..n : Append(Said(n), c)[k] = text[k]
  BY <1>3, <1>5
<1> DEFINE s == Append(Said(n), c)
           t == Said(n + 1)
<1>8. /\ s \in Seq(Texts) /\ t \in Seq(Texts) /\ Len(s) = Len(t)
      /\ \A k \in 1..Len(s) : s[k] = t[k]
  BY <1>4, <1>6
<1> HIDE DEF s, t
<1>9. s = t BY <1>8, SeqEqual
<1> QED BY <1>7, <1>9 DEF s, t

LEMMA NothingSaid == Said(0) = <<>>
BY DEF Said

\* A hash comes of one append only.
LEMMA OneAppend ==
  ASSUME NEW s \in Hashes, NEW t \in Hashes, NEW x \in Texts, NEW y \in Texts,
         Append(s, x) = Append(t, y)
  PROVE  s = t /\ x = y
<1>0. s \in Seq(Texts) /\ t \in Seq(Texts) BY DEF Hashes
<1>1. Len(s) = Len(t) /\ Len(s) \in Nat
  <2>1. Len(Append(s, x)) = Len(s) + 1 /\ Len(Append(t, y)) = Len(t) + 1 BY <1>0
  <2>2. Len(s) \in Nat /\ Len(t) \in Nat BY <1>0
  <2> QED BY <2>1, <2>2
<1>2. x = y
  <2>1. Append(s, x)[Len(s) + 1] = x /\ Append(t, y)[Len(t) + 1] = y BY <1>0
  <2> QED BY <1>1, <2>1
<1>3. \A k \in 1..Len(s) : s[k] = t[k]
  <2>1. \A k \in 1..Len(s) : Append(s, x)[k] = s[k] /\ Append(t, y)[k] = t[k] BY <1>0, <1>1
  <2> QED BY <2>1
<1> QED BY <1>0, <1>1, <1>2, <1>3

\* verifyChain accepts the record at i, which then was appended.
LEMMA GoodWasIssued ==
  ASSUME LedgerInv, NEW i \in 1..Len(rows), ~BadAt(rows, i)
  PROVE  \E r \in issued : SameForTheHash(rows[i], r)
<1>1. rows[i] \in Lines BY DEF LedgerInv, LedgerTypes
<1>2. /\ rows[i].hash = Append(rows[i].prevHash, hashedText(rows[i].content))
      /\ rows[i].sig = [key |-> key, of |-> rows[i].hash]
  BY DEF BadAt, computeRecordHash
<1>3. PICK r \in issued : r.sig = rows[i].sig BY <1>2 DEF LedgerInv, NobodyForges
<1>4. /\ r \in Lines /\ r.hash = Append(r.prevHash, hashedText(r.content))
      /\ r.sig = [key |-> key, of |-> r.hash]
  BY <1>3 DEF LedgerInv, LedgerTypes, NobodyForges, computeRecordHash
<1>5. r.hash = rows[i].hash
  <2>1. r.hash = r.sig.of /\ rows[i].hash = rows[i].sig.of BY <1>2, <1>4
  <2> QED BY <1>3, <2>1
<1>6. /\ r.prevHash \in Hashes /\ rows[i].prevHash \in Hashes
      /\ hashedText(r.content) \in Texts /\ hashedText(rows[i].content) \in Texts
  BY <1>1, <1>4, TextTyped DEF Lines
<1>7. r.prevHash = rows[i].prevHash /\ hashedText(r.content) = hashedText(rows[i].content)
  <2>1. Append(r.prevHash, hashedText(r.content)) = Append(rows[i].prevHash, hashedText(rows[i].content))
    BY <1>2, <1>4, <1>5
  <2> QED BY <1>6, <2>1, OneAppend
<1> QED BY <1>3, <1>5, <1>7 DEF SameForTheHash

\* The hash of a record of an accepted line is what the line says up to it.
LEMMA HashSays ==
  ASSUME LedgerInv, NEW n \in 0..Len(rows), \A i \in 1..n : ~BadAt(rows, i)
  PROVE  \A i \in 1..n : rows[i].prevHash = Said(i - 1) /\ rows[i].hash = Said(i)
<1> DEFINE S == {m \in Nat : m \in 1..n => rows[m].prevHash = Said(m - 1) /\ rows[m].hash = Said(m)}
<1>1. 0 \in S OBVIOUS
<1>2. ASSUME NEW m \in Nat, m \in S PROVE m + 1 \in S
  <2> SUFFICES ASSUME m + 1 \in 1..n
               PROVE  rows[m + 1].prevHash = Said(m) /\ rows[m + 1].hash = Said(m + 1)
    OBVIOUS
  <2>0. ~BadAt(rows, m + 1) /\ (m + 1) - 1 = m OBVIOUS
  <2>1. rows[m + 1].prevHash = IF m + 1 = 1 THEN Genesis ELSE rows[m].hash
    BY <2>0 DEF BadAt
  <2>2. rows[m + 1].hash = Append(rows[m + 1].prevHash, hashedText(rows[m + 1].content))
    <3>1. rows[m + 1].hash = computeRecordHash(rows[m + 1].prevHash, rows[m + 1].content)
      BY <2>0, <2>1 DEF BadAt
    <3> QED BY <3>1 DEF computeRecordHash
  <2>3. rows[m + 1].prevHash = Said(m)
    <3>1. CASE m = 0 BY <2>1, <3>1, NothingSaid DEF Genesis
    <3>2. CASE m # 0 BY <1>2, <2>1, <3>2
    <3> QED BY <3>1, <3>2
  <2> QED BY <2>2, <2>3, SaidMore
<1>3. Nat \subseteq S
  <2> HIDE DEF S
  <2> QED BY <1>1, <1>2, AllNumbers
<1> QED BY <1>3

\* A line that is accepted up to n is genuine up to n.
LEMMA GoodIsGenuine ==
  ASSUME LedgerInv, NEW n \in 0..Len(rows), \A i \in 1..n : ~BadAt(rows, i)
  PROVE  Genuine(n)
<1>1. ASSUME NEW i \in 1..n PROVE \E r \in issued : SameForTheHash(rows[i], r)
  <2>1. i \in 1..Len(rows) /\ ~BadAt(rows, i) OBVIOUS
  <2> QED BY <2>1, GoodWasIssued
<1>2. ASSUME NEW i \in 1..n PROVE rows[i].prevHash = Said(i - 1)
  BY HashSays
<1> QED BY <1>1, <1>2 DEF Genuine, Said

\* A genuine record after an accepted line is accepted.
LEMMA GenuineIsGood ==
  ASSUME LedgerInv, NEW n \in 1..Len(rows), \A i \in 1..(n - 1) : ~BadAt(rows, i), Genuine(n)
  PROVE  ~BadAt(rows, n)
<1>1. rows[n].prevHash = Said(n - 1) /\ \E r \in issued : SameForTheHash(rows[n], r)
  BY DEF Genuine, Said
<1>2. PICK r \in issued : SameForTheHash(rows[n], r) BY <1>1
<1>3. /\ r.hash = rows[n].hash /\ r.prevHash = rows[n].prevHash /\ r.sig = rows[n].sig
      /\ hashedText(r.content) = hashedText(rows[n].content)
  BY <1>2 DEF SameForTheHash
<1>4. r.hash = Append(r.prevHash, hashedText(r.content)) /\ r.sig = [key |-> key, of |-> r.hash]
  BY <1>2 DEF LedgerInv, NobodyForges, computeRecordHash
<1>5. Said(n - 1) = IF n = 1 THEN Genesis ELSE rows[n - 1].hash
  <2>1. CASE n = 1
    <3>1. n - 1 = 0 BY <2>1
    <3> QED BY <2>1, <3>1, NothingSaid DEF Genesis
  <2>2. CASE n # 1
    <3>1. n - 1 \in 0..Len(rows) /\ n - 1 \in 1..(n - 1) BY <2>2
    <3> QED BY <2>2, <3>1, HashSays
  <2> QED BY <2>1, <2>2
<1> QED BY <1>1, <1>3, <1>4, <1>5 DEF BadAt, computeRecordHash

LEMMA FirstBad ==
  ASSUME LedgerInv
  PROVE  \/ verifyChain(rows) = 0 /\ \A i \in 1..Len(rows) : ~BadAt(rows, i)
         \/ /\ verifyChain(rows) \in 1..Len(rows) /\ BadAt(rows, verifyChain(rows))
            /\ \A i \in 1..(verifyChain(rows) - 1) : ~BadAt(rows, i)
<1>1. DOMAIN rows = 1..Len(rows) /\ Len(rows) \in Nat BY DEF LedgerInv, LedgerTypes
<1>2. CASE \A i \in 1..Len(rows) : ~BadAt(rows, i)
  BY <1>1, <1>2 DEF verifyChain
<1>3. CASE \E i \in 1..Len(rows) : BadAt(rows, i)
  <2> DEFINE Bad == {i \in 1..Len(rows) : BadAt(rows, i)}
  <2>1. PICK i \in Bad : \A j \in Bad : i <= j
    <3>1. Bad \in SUBSET Nat /\ Bad # {} BY <1>3
    <3> QED BY <3>1, Least
  <2>2. \A j \in 1..(i - 1) : ~BadAt(rows, j) BY <1>1, <2>1
  <2>3. \E k \in DOMAIN rows : BadAt(rows, k) /\ \A j \in 1..(k - 1) : ~BadAt(rows, j)
    BY <1>1, <2>1, <2>2
  <2>4. verifyChain(rows) =
          CHOOSE k \in DOMAIN rows : BadAt(rows, k) /\ \A j \in 1..(k - 1) : ~BadAt(rows, j)
    BY <1>1, <1>3 DEF verifyChain
  <2> QED BY <1>1, <2>3, <2>4
<1> QED BY <1>2, <1>3

\* verifyChain accepts the rows of a subject exactly up to the first one that was
\* not appended, with the key at hand, to the row before it - but for the tenant and
\* for where subject, ts and source meet in the text that is hashed: for any
\* contents, any number of writers, forks, edits and lost keys.
THEOREM LedgerVerifies == LedgerSpec => []OnlyAppendedLinesVerify
<1>1. LedgerInv => OnlyAppendedLinesVerify
  <2> SUFFICES ASSUME LedgerInv PROVE OnlyAppendedLinesVerify
    OBVIOUS
  <2> DEFINE bad == verifyChain(rows)
  <2>1. Len(rows) \in Nat BY DEF LedgerInv, LedgerTypes
  <2>2. CASE bad = 0 /\ \A i \in 1..Len(rows) : ~BadAt(rows, i)
    <3>1. Genuine(Len(rows)) BY <2>1, <2>2, GoodIsGenuine
    <3> QED BY <2>2, <3>1 DEF OnlyAppendedLinesVerify
  <2>3. CASE bad \in 1..Len(rows) /\ BadAt(rows, bad) /\ \A i \in 1..(bad - 1) : ~BadAt(rows, i)
    <3> HIDE DEF bad
    <3>1. bad - 1 \in 0..Len(rows) /\ bad # 0 BY <2>1, <2>3
    <3>2. Genuine(bad - 1) BY <2>3, <3>1, GoodIsGenuine
    <3>3. ~Genuine(bad) BY <2>3, GenuineIsGood
    <3> QED BY <3>1, <3>2, <3>3 DEF OnlyAppendedLinesVerify, bad
  <2> QED BY <2>2, <2>3, FirstBad
<1> QED BY <1>1, LedgerStart, LedgerStep, PTL DEF LedgerSpec

-----------------------------------------------------------------------------
(* Journeys.                                                               *)

\* A step that ends the run.
Ends(step) == (step.type = "enter" /\ ~step.holds) \/ step.type = "exit"

\* What was executed: steps of the journey, each the one that follows the one
\* before, none but the last of which ends the run.
Walked ==
  /\ path \in Seq(Keys) /\ Len(path) <= MaxSteps /\ Nowhere \notin {path[i] : i \in 1..Len(path)}
  /\ \A i \in 1..(Len(path) - 1) :
       path[i + 1] = Following(Step(path[i])) /\ ~Ends(Step(path[i]))

\* A run that went round has its last step twice: it is still on its way round.
Round ==
  (\E i, j \in 1..Len(path) : i < j /\ path[i] = path[j]) =>
     \E i \in 1..Len(path) : i < Len(path) /\ path[i] = path[Len(path)]

\* Where the run stands.
Standing ==
  /\ status \in {"none", "running", "completed", "rejected", "halted", "thrown"}
  /\ status \in {"none", "thrown"} => path = <<>>
  /\ status \in {"running", "halted"} /\ path # <<>> =>
       current = Following(Step(path[Len(path)])) /\ ~Ends(Step(path[Len(path)]))
  /\ status \in {"completed", "rejected"} => path # <<>> /\ Ends(Step(path[Len(path)]))
  /\ status = "halted" => ~Left \/ current \notin Keys

JourneyInv == Walked /\ Round /\ Standing

LEMMA JourneyStart == JourneyInit => JourneyInv
BY JourneyAssumption DEF JourneyInit, JourneyInv, Walked, Round, Standing

LEMMA RunStep ==
  ASSUME JourneyInv, NEW j \in Journeys, Run(j)
  PROVE  JourneyInv'
<1>1. status = "none" /\ path = <<>> /\ path' = <<>> /\ status' = "running"
  BY DEF Run, JourneyInv, Standing
<1> QED BY <1>1, JourneyAssumption DEF JourneyInv, Walked, Round, Standing

\* The run stands still, or halts.
LEMMA HaltStep ==
  ASSUME JourneyInv, Halt \/ UNCHANGED journeyVars
  PROVE  JourneyInv'
<1>1. /\ UNCHANGED <<journey, current, path>>
      /\ \/ status' = status
         \/ status = "running" /\ status' = "halted" /\ (~Left \/ current \notin Keys)
  BY DEF Halt, Complete, journeyVars
<1>2. Keys' = Keys /\ Left' = Left BY <1>1 DEF Keys, Left
<1>3. \A k : (Following(Step(k)))' = Following(Step(k)) /\ (Ends(Step(k)))' = Ends(Step(k))
  <2>1. \A k : Step(k)' = Step(k) BY <1>1 DEF Step
  <2>2. \A s : Following(s)' = Following(s) BY <1>1 DEF Following, NextSequential
  <2> QED BY <2>1, <2>2 DEF Ends
<1>4. Walked' /\ Round' BY <1>1, <1>2, <1>3 DEF JourneyInv, Walked, Round
<1>5. Standing' BY <1>1, <1>2, <1>3 DEF JourneyInv, Standing
<1> QED BY <1>4, <1>5 DEF JourneyInv

LEMMA ExecutorThrowsStep ==
  ASSUME JourneyInv, ExecutorThrows
  PROVE  JourneyInv'
<1>1. path' = <<>> /\ status' = "thrown" BY DEF ExecutorThrows, Complete
<1> QED BY <1>1, JourneyAssumption DEF JourneyInv, Walked, Round, Standing

LEMMA ExecuteStep ==
  ASSUME JourneyInv, Execute
  PROVE  JourneyInv'
<1> DEFINE step == Step(current)
           n == Len(path)
<1>1. /\ status = "running" /\ Left /\ current \in Keys
      /\ path' = Append(path, current) /\ journey' = journey
      /\ \/ Ends(step) /\ status' \in {"completed", "rejected"}
         \/ ~Ends(step) /\ status' = "running" /\ current' = Following(step)
  BY DEF Execute, Executing, Complete, Ends
<1> HIDE DEF step
<1>2. /\ path \in Seq(Keys) /\ n \in Nat /\ n < MaxSteps /\ current # Nowhere
      /\ MaxSteps \in Nat
  BY <1>1, JourneyAssumption DEF JourneyInv, Walked, Left
<1>3. /\ path' \in Seq(Keys) /\ Len(path') = n + 1 /\ path'[n + 1] = current
      /\ \A i \in 1..n : path'[i] = path[i]
  BY <1>1, <1>2
<1>4. /\ Keys' = Keys
      /\ \A k : Step(k)' = Step(k)
      /\ \A s : Following(s)' = Following(s)
  BY <1>1 DEF Keys, Step, Following, NextSequential
<1>a. path # <<>> => n > 0 /\ current = Following(Step(path[n])) /\ ~Ends(Step(path[n]))
  BY <1>1, <1>2 DEF JourneyInv, Standing
<1>b. n = 0 => path = <<>> BY <1>2
<1>5. ASSUME NEW i \in 1..n PROVE path'[i + 1] = Following(Step(path[i])) /\ ~Ends(Step(path[i]))
  <2>1. CASE i = n BY <1>3, <1>a, <1>2, <2>1
  <2>2. CASE i # n
    <3>1. i \in 1..(n - 1) /\ i + 1 \in 1..n BY <1>2, <2>2
    <3> QED BY <1>3, <3>1 DEF JourneyInv, Walked
  <2> QED BY <2>1, <2>2
<1> HIDE DEF n
<1>6. Walked'
  <2>1. Nowhere \notin {path'[i] : i \in 1..Len(path')}
    <3>1. \A i \in 1..(n + 1) : path'[i] # Nowhere
      BY <1>2, <1>3 DEF JourneyInv, Walked, n
    <3> QED BY <1>3, <3>1
  <2>2. \A i \in 1..(Len(path') - 1) :
          path'[i + 1] = Following(Step(path'[i])) /\ ~Ends(Step(path'[i]))
    BY <1>2, <1>3, <1>5
  <2>3. \A i \in 1..(Len(path') - 1) :
          path'[i + 1] = (Following(Step(path[i])))' /\ ~(Ends(Step(path[i])))'
    BY <1>4, <2>2 DEF Ends
  <2>4. path' \in Seq(Keys') /\ Len(path') <= MaxSteps BY <1>2, <1>3, <1>4
  <2> QED BY <2>1, <2>3, <2>4 DEF Walked
<1>7. Round'
  <2> SUFFICES ASSUME NEW i \in 1..(n + 1), NEW j \in 1..(n + 1), i < j, path'[i] = path'[j]
               PROVE  \E k \in 1..(n + 1) : k < n + 1 /\ path'[k] = path'[n + 1]
    BY <1>3 DEF Round
  <2>1. CASE j = n + 1 BY <1>2, <2>1
  <2>2. CASE j # n + 1
    <3>1. i \in 1..n /\ j \in 1..n /\ path[i] = path[j] BY <1>2, <1>3, <2>2
    <3>2. PICK k \in 1..n : k < n /\ path[k] = path[n]
      BY <3>1 DEF JourneyInv, Round, n
    <3>3. n \in 1..n /\ k + 1 \in 1..(n + 1) /\ k + 1 < n + 1 BY <1>2, <3>2
    <3>4. path'[k + 1] = Following(Step(path[k])) BY <1>5
    <3>5. path'[n + 1] = Following(Step(path[n])) BY <1>5, <3>3
    <3> QED BY <3>2, <3>3, <3>4, <3>5
  <2> QED BY <2>1, <2>2
<1>8. Standing'
  <2>1. Len(path') = n + 1 /\ path' # <<>> /\ path'[Len(path')] = current BY <1>2, <1>3
  <2>2. (Following(Step(path[Len(path)])))' = Following(step) /\ (Ends(Step(path[Len(path)])))' = Ends(step)
    BY <1>4, <2>1 DEF Ends, step
  <2> QED BY <1>1, <2>1, <2>2 DEF Standing
<1> QED BY <1>6, <1>7, <1>8 DEF JourneyInv

LEMMA JourneyStep == JourneyInv /\ [JourneyNext]_journeyVars => JourneyInv'
<1> SUFFICES ASSUME JourneyInv, [JourneyNext]_journeyVars PROVE JourneyInv'
  OBVIOUS
<1> QED BY RunStep, HaltStep, ExecuteStep, ExecutorThrowsStep DEF JourneyNext

\* A journey that went round and was not cut would have to end at a step it passed
\* before without ending there.
LEMMA EndsOnce ==
  ASSUME JourneyInv, status \in {"completed", "rejected", "halted"},
         NEW i \in 1..Len(path), NEW j \in 1..Len(path), i # j, path[i] = path[j]
  PROVE  status = "halted" /\ Len(path) = MaxSteps
<1>1. path \in Seq(Keys) /\ Len(path) \in Nat /\ Len(path) <= MaxSteps BY DEF JourneyInv, Walked
<1>2. PICK k \in 1..Len(path) : k < Len(path) /\ path[k] = path[Len(path)]
  <2>1. CASE i < j BY <2>1 DEF JourneyInv, Round
  <2>2. CASE j < i BY <2>2 DEF JourneyInv, Round
  <2> QED BY <1>1, <2>1, <2>2
<1>3. /\ k \in 1..(Len(path) - 1) /\ k + 1 \in 1..Len(path)
      /\ path[k + 1] = Following(Step(path[k])) /\ ~Ends(Step(path[k]))
  BY <1>1, <1>2 DEF JourneyInv, Walked
<1>4. status = "halted" BY <1>2, <1>3 DEF JourneyInv, Standing
<1>5. path # <<>> BY <1>1, <1>2
<1>6. current = path[k + 1] BY <1>2, <1>3, <1>4, <1>5 DEF JourneyInv, Standing
<1>7. current \in Keys /\ current # Nowhere
  BY <1>1, <1>3, <1>6 DEF JourneyInv, Walked
<1>8. MaxSteps \in Nat BY JourneyAssumption
<1> QED BY <1>1, <1>4, <1>7, <1>8 DEF JourneyInv, Standing, Left

\* Only a run that is cut executes a step twice, for journeys of any shape and any
\* maxSteps.
THEOREM JourneysEndAtNewSteps == JourneySpec => []RepeatsAreCut
<1>1. JourneyInv => RepeatsAreCut
  <2> SUFFICES ASSUME JourneyInv PROVE RepeatsAreCut
    OBVIOUS
  <2>1. DOMAIN path = 1..Len(path) /\ Len(path) <= MaxSteps BY DEF JourneyInv, Walked
  <2> QED BY <2>1, EndsOnce DEF RepeatsAreCut
<1> QED BY <1>1, JourneyStart, JourneyStep, PTL DEF JourneySpec

-----------------------------------------------------------------------------
(* The consent SDK.                                                        *)

\* A state never allows the sale under GPC.
States == {s \in [allowed : SUBSET Purposes, gpc : BOOLEAN] : s.gpc => "sale_or_share" \notin s.allowed}
StoredChoices == [subject : Nat \ {0}, state : States]
Loaded == [subject : Nat \ {0}, state : States, gpc : BOOLEAN, widget : {"none", "banner", "preferences"}]

SdkPageTypes ==
  /\ storage \in {"works", "full", "blocked"} /\ signal \in BOOLEAN /\ subjects \in Nat
  /\ local \in StoredChoices \cup {Nothing} /\ cookie \in StoredChoices \cup {Nothing}
  /\ page \in [Pages -> Loaded \cup {Closed}]
  /\ last \in [subject : Nat \ {0}, state : States, kept : BOOLEAN] \cup {Nothing}

\* The latest choice is in the cookie, and in localStorage unless it could not be
\* written, and then nothing hides the cookie.
LastIsStored ==
  last # Nothing =>
    LET choice == [subject |-> last.subject, state |-> last.state] IN
    /\ cookie = choice
    /\ storage = "works" => local = choice
    /\ storage = "full" /\ last.kept => local \in {Nothing, choice}

ConsentSdkInv == SdkPageTypes /\ LastIsStored

LEMMA WithGpcIsState ==
  ASSUME NEW s \in [allowed : SUBSET Purposes, gpc : BOOLEAN]
  PROVE  /\ WithGpc(s) \in States /\ WithGpc(s).gpc = s.gpc
         /\ WithGpc(s).allowed = IF s.gpc THEN s.allowed \ {"sale_or_share"} ELSE s.allowed
<1>1. CASE s.gpc
  <2> DEFINE a == s.allowed \ {"sale_or_share"}
             t == [s EXCEPT !.allowed = a]
  <2>1. a \in SUBSET Purposes OBVIOUS
  <2> HIDE DEF a
  <2>2. t \in [allowed : SUBSET Purposes, gpc : BOOLEAN] /\ t.allowed = a /\ t.gpc = s.gpc
    BY <2>1
  <2>3. WithGpc(s) = t BY <1>1 DEF WithGpc, a
  <2>4. "sale_or_share" \notin a BY DEF a
  <2> HIDE DEF t
  <2>5. t \in States BY <2>2, <2>4 DEF States
  <2> QED BY <1>1, <2>2, <2>3, <2>5 DEF a
<1>2. CASE ~s.gpc
  BY <1>2 DEF WithGpc, States
<1> QED BY <1>1, <1>2

LEMMA NotNothing ==
  /\ \A c \in StoredChoices : c # Nothing
  /\ \A c \in [subject : Nat \ {0}, state : States, kept : BOOLEAN] : c # Nothing
  /\ \A l \in Loaded : l # Closed /\ l.widget # "closed"
BY DEF StoredChoices, Loaded, Nothing, Closed

LEMMA SdkPagesStart == ConsentSdkInit => ConsentSdkInv
BY DEF ConsentSdkInit, ConsentSdkInv, SdkPageTypes, LastIsStored, Nothing

\* A stored choice is loaded under the signal of the page.
LEMMA LoadsStored ==
  ASSUME ConsentSdkInv, LoadStoredConsent(signal) # Nothing
  PROVE  LET found == IF ReadLocal # Nothing THEN ReadLocal ELSE ReadCookie
             state == WithGpc([found.state EXCEPT !.gpc = signal])
         IN  /\ found \in StoredChoices
             /\ LoadStoredConsent(signal).subject = found.subject
             /\ LoadStoredConsent(signal).state = state
             /\ state \in States
             /\ state.allowed = IF signal THEN found.state.allowed \ {"sale_or_share"}
                                ELSE found.state.allowed
             /\ state.gpc = signal
<1> DEFINE found == IF ReadLocal # Nothing THEN ReadLocal ELSE ReadCookie
           s == [found.state EXCEPT !.gpc = signal]
           state == WithGpc(s)
<1>1. found \in StoredChoices \cup {Nothing} /\ signal \in BOOLEAN
  BY DEF ConsentSdkInv, SdkPageTypes, ReadLocal, ReadCookie
<1>2. found # Nothing /\ LoadStoredConsent(signal) = [found EXCEPT !.state = state]
  BY DEF LoadStoredConsent
<1> HIDE DEF found
<1>3. found \in StoredChoices /\ found.state \in States /\ found.subject \in Nat \ {0}
  BY <1>1, <1>2 DEF StoredChoices
<1>4. /\ s \in [allowed : SUBSET Purposes, gpc : BOOLEAN] /\ s.gpc = signal
      /\ s.allowed = found.state.allowed
  BY <1>1, <1>3 DEF States
<1> HIDE DEF s
<1>5. /\ state \in States /\ state.gpc = signal
      /\ state.allowed = IF signal THEN found.state.allowed \ {"sale_or_share"} ELSE found.state.allowed
  BY <1>4, WithGpcIsState
<1>6. [found EXCEPT !.state = state].subject = found.subject
  BY <1>3 DEF StoredChoices
<1>7. [found EXCEPT !.state = state].state = state BY <1>3 DEF StoredChoices
<1> HIDE DEF state
<1>8. LoadStoredConsent(signal).subject = found.subject /\ LoadStoredConsent(signal).state = state
  BY <1>2, <1>6, <1>7
<1> QED BY Zenon, <1>3, <1>5, <1>8 DEF found, s, state

LEMMA DefaultIsState ==
  ASSUME NEW gpc \in BOOLEAN
  PROVE  /\ DefaultConsent(gpc) \in States
         /\ AcceptAllConsent(gpc) \in States /\ RejectNonEssentialConsent(gpc) \in States
<1>1. /\ [allowed |-> {"analytics"}, gpc |-> gpc] \in [allowed : SUBSET Purposes, gpc : BOOLEAN]
      /\ [allowed |-> Purposes, gpc |-> gpc] \in [allowed : SUBSET Purposes, gpc : BOOLEAN]
  BY DEF Purposes
<1> QED BY <1>1, WithGpcIsState DEF DefaultConsent, AcceptAllConsent, RejectNonEssentialConsent

LEMMA CreateKeeps ==
  ASSUME ConsentSdkInv, NEW p \in Pages, CreateStored(p) \/ CreateInitial(p)
  PROVE  ConsentSdkInv'
<1>1. /\ UNCHANGED <<storage, local, cookie, signal, last>> /\ subjects' \in Nat
  BY DEF CreateStored, CreateInitial, ConsentSdkInv, SdkPageTypes
<1>2. PICK subject \in Nat \ {0}, state \in States, widget \in {"none", "banner"} :
        page' = [page EXCEPT ![p] = Page(subject, state, widget)]
  <2>1. CASE CreateStored(p)
    <3> DEFINE load == LoadStoredConsent(signal)
    <3>1. load # Nothing /\ page' = [page EXCEPT ![p] = Page(load.subject, load.state, "none")]
      BY <2>1 DEF CreateStored
    <3> HIDE DEF load
    <3>2. load.state \in States /\ load.subject \in Nat \ {0}
      BY <3>1, LoadsStored DEF load, StoredChoices
    <3> QED BY <3>1, <3>2
  <2>2. CASE CreateInitial(p)
    <3>1. DefaultConsent(signal) \in States /\ subjects + 1 \in Nat \ {0}
      BY DefaultIsState DEF ConsentSdkInv, SdkPageTypes
    <3>2. page' = [page EXCEPT ![p] = Page(subjects + 1, DefaultConsent(signal), "banner")]
      BY <2>2 DEF CreateInitial
    <3> QED BY <3>1, <3>2
  <2> QED BY <2>1, <2>2
<1>3. page' \in [Pages -> Loaded \cup {Closed}]
  <2>1. Page(subject, state, widget) \in Loaded
    BY DEF Page, Loaded, ConsentSdkInv, SdkPageTypes
  <2> HIDE DEF Page
  <2> QED BY <1>2, <2>1 DEF ConsentSdkInv, SdkPageTypes
<1> QED BY <1>1, <1>3 DEF ConsentSdkInv, SdkPageTypes, LastIsStored

\* The page changes its widget, or is closed.
LEMMA WidgetKeeps ==
  ASSUME ConsentSdkInv, NEW p \in Pages, ClosePage(p) \/ OpenPreferences(p) \/ DestroyWidget(p)
  PROVE  /\ ConsentSdkInv'
         /\ \A q \in Pages : page[q] = Closed => page'[q] = Closed
<1>1. UNCHANGED <<storage, local, cookie, signal, subjects, last>>
  BY DEF ClosePage, OpenPreferences, DestroyWidget
<1>2. page \in [Pages -> Loaded \cup {Closed}] BY DEF ConsentSdkInv, SdkPageTypes
<1>3. PICK l \in Loaded \cup {Closed} :
        /\ page' = [page EXCEPT ![p] = l]
        /\ page[p] # Closed
  <2>1. CASE ClosePage(p) BY <2>1 DEF ClosePage
  <2>2. ASSUME NEW w \in {"none", "preferences"}, page' = [page EXCEPT ![p].widget = w],
               page[p].widget \in {"none", "banner", "preferences"}
        PROVE  /\ page' = [page EXCEPT ![p] = [page[p] EXCEPT !.widget = w]]
               /\ [page[p] EXCEPT !.widget = w] \in Loaded /\ page[p] # Closed
    <3>1. page[p] # Closed BY <2>2 DEF Closed
    <3>2. page[p] \in Loaded BY <1>2, <3>1
    <3> QED BY <2>2, <3>1, <3>2 DEF Loaded
  <2>3. CASE OpenPreferences(p) BY <2>2, <2>3 DEF OpenPreferences
  <2>4. CASE DestroyWidget(p) BY <2>2, <2>4 DEF DestroyWidget
  <2> QED BY <2>1, <2>3, <2>4
<1>4. page' \in [Pages -> Loaded \cup {Closed}] BY <1>2, <1>3
<1>5. \A q \in Pages : page[q] = Closed => page'[q] = Closed BY <1>2, <1>3
<1> QED BY <1>1, <1>4, <1>5 DEF ConsentSdkInv, SdkPageTypes, LastIsStored

LEMMA CommitKeeps ==
  ASSUME ConsentSdkInv, NEW p \in Pages, page[p] # Closed, NEW next \in States, Commit(p, next)
  PROVE  /\ ConsentSdkInv'
         /\ \A q \in Pages : page[q] = Closed => page'[q] = Closed
<1> DEFINE s == [next EXCEPT !.gpc = page[p].gpc]
           state == WithGpc(s)
           choice == [subject |-> page[p].subject, state |-> state]
           half == [page[p] EXCEPT !.state = state]
           l == [half EXCEPT !.widget = "none"]
           k == storage = "full" => local = Nothing
<1>1. page \in [Pages -> Loaded \cup {Closed}] /\ page[p] \in Loaded /\ page[p].gpc \in BOOLEAN
      /\ page[p].subject \in Nat \ {0}
  BY DEF ConsentSdkInv, SdkPageTypes, Loaded
<1>2. s \in [allowed : SUBSET Purposes, gpc : BOOLEAN] BY <1>1 DEF States
<1>3. /\ page' = [page EXCEPT ![p] = l]
      /\ local' = IF storage = "works" THEN choice ELSE local
      /\ cookie' = choice
      /\ last' = [subject |-> page[p].subject, state |-> state, kept |-> k]
      /\ UNCHANGED <<storage, signal, subjects>>
  BY <1>1 DEF Commit, SaveStoredConsent
<1> HIDE DEF s
<1>4. state \in States BY <1>2, WithGpcIsState
<1> HIDE DEF state
<1>5. choice \in StoredChoices /\ choice.subject = page[p].subject /\ choice.state = state
  BY <1>1, <1>4 DEF StoredChoices
<1>6. half \in Loaded BY <1>1, <1>4 DEF Loaded
<1> HIDE DEF half
<1>7. l \in Loaded BY <1>6 DEF Loaded
<1>8. k \in BOOLEAN OBVIOUS
<1> HIDE DEF l, k
<1>9. page' \in [Pages -> Loaded \cup {Closed}] /\ \A q \in Pages : page[q] = Closed => page'[q] = Closed
  BY <1>1, <1>3, <1>7
<1>10. /\ last' \in [subject : Nat \ {0}, state : States, kept : BOOLEAN]
       /\ last'.subject = choice.subject /\ last'.state = choice.state /\ last'.kept = k
  BY <1>1, <1>3, <1>4, <1>5, <1>8
<1>11. SdkPageTypes'
  BY <1>3, <1>5, <1>9, <1>10 DEF ConsentSdkInv, SdkPageTypes
<1>12. LastIsStored'
  <2>1. choice = [subject |-> last'.subject, state |-> last'.state] BY <1>5, <1>10
  <2> HIDE DEF choice
  <2>2. storage = "full" /\ last'.kept => local' = Nothing BY <1>3, <1>10 DEF k
  <2>3. cookie' = choice /\ (storage' = "works" => local' = choice) /\ storage' = storage BY <1>3
  <2> QED BY <2>1, <2>2, <2>3 DEF LastIsStored
<1> QED BY <1>9, <1>11, <1>12 DEF ConsentSdkInv

LEMMA ChoiceKeeps ==
  ASSUME ConsentSdkInv, NEW p \in Pages,
         \/ AcceptAll(p) \/ RejectNonEssential(p)
         \/ \E ticked \in FormChoices : SavePreferences(p, ticked)
  PROVE  /\ ConsentSdkInv'
         /\ \A q \in Pages : page[q] = Closed => page'[q] = Closed
<1>1. page[p] \in Loaded \cup {Closed} BY DEF ConsentSdkInv, SdkPageTypes
<1>2. CASE AcceptAll(p)
  <2>1. page[p] # Closed /\ Commit(p, AcceptAllConsent(page[p].gpc)) BY <1>2 DEF AcceptAll
  <2>2. AcceptAllConsent(page[p].gpc) \in States BY <1>1, <2>1, DefaultIsState DEF Loaded
  <2> QED BY <2>1, <2>2, CommitKeeps
<1>3. CASE RejectNonEssential(p)
  <2>1. page[p] # Closed /\ Commit(p, RejectNonEssentialConsent(page[p].gpc))
    BY <1>3 DEF RejectNonEssential
  <2>2. RejectNonEssentialConsent(page[p].gpc) \in States BY <1>1, <2>1, DefaultIsState DEF Loaded
  <2> QED BY <2>1, <2>2, CommitKeeps
<1>4. ASSUME NEW ticked \in FormChoices, SavePreferences(p, ticked)
      PROVE  ConsentSdkInv' /\ \A q \in Pages : page[q] = Closed => page'[q] = Closed
  <2>1. page[p] # Closed /\ Commit(p, ReadForm(p, ticked)) BY <1>4 DEF SavePreferences, Closed
  <2>2. ReadForm(p, ticked) \in States
    <3> DEFINE g == page[p].state.gpc
               a == IF g THEN ticked \ {"sale_or_share"} ELSE ticked
    <3>1. g \in BOOLEAN /\ a \in SUBSET Purposes
      BY <1>1, <2>1, FormAssumption DEF Loaded, States
    <3> HIDE DEF g, a
    <3>2. WithGpc([allowed |-> a, gpc |-> g]) \in States BY <3>1, WithGpcIsState
    <3> QED BY <3>2 DEF ReadForm, g, a
  <2> QED BY <2>1, <2>2, CommitKeeps
<1> QED BY <1>2, <1>3, <1>4

\* The browser and the network.
LEMMA OutsideKeeps ==
  ASSUME ConsentSdkInv,
         \/ FillStorage \/ SwitchSignal \/ UNCHANGED consentSdkVars
         \/ \E post \in posts : Receive(post) \/ PostLost(post)
  PROVE  ConsentSdkInv' /\ page' = page
<1>1. CASE FillStorage
  BY <1>1 DEF FillStorage, ConsentSdkInv, SdkPageTypes, LastIsStored
<1>2. CASE SwitchSignal
  BY <1>2 DEF SwitchSignal, ConsentSdkInv, SdkPageTypes, LastIsStored
<1>3. CASE UNCHANGED consentSdkVars
  BY <1>3 DEF consentSdkVars, ConsentSdkInv, SdkPageTypes, LastIsStored
<1>4. CASE \E post \in posts : Receive(post) \/ PostLost(post)
  BY <1>4 DEF Receive, PostLost, ConsentSdkInv, SdkPageTypes, LastIsStored
<1> QED BY <1>1, <1>2, <1>3, <1>4

LEMMA ConsentSdkStep ==
  ASSUME ConsentSdkInv, [ConsentSdkNext]_consentSdkVars
  PROVE  /\ ConsentSdkInv'
         /\ \/ \E p \in Pages : CreateStored(p) \/ CreateInitial(p)
            \/ \A q \in Pages : page[q] = Closed => page'[q] = Closed
<1>1. CASE \E p \in Pages : CreateStored(p) \/ CreateInitial(p)
  BY <1>1, CreateKeeps
<1>2. CASE \E p \in Pages : ClosePage(p) \/ OpenPreferences(p) \/ DestroyWidget(p)
  BY <1>2, WidgetKeeps
<1>3. CASE \E p \in Pages :
             \/ AcceptAll(p) \/ RejectNonEssential(p)
             \/ \E ticked \in FormChoices : SavePreferences(p, ticked)
  BY <1>3, ChoiceKeeps
<1>4. CASE \/ FillStorage \/ SwitchSignal \/ UNCHANGED consentSdkVars
           \/ \E post \in posts : Receive(post) \/ PostLost(post)
  BY <1>4, OutsideKeeps
<1> QED BY <1>1, <1>2, <1>3, <1>4 DEF ConsentSdkNext

\* A page that is loaded while the latest choice can be found finds it.
LEMMA LoadShows ==
  ASSUME ConsentSdkInv, NEW q \in Pages, CreateStored(q) \/ CreateInitial(q),
         NEW p \in Pages, page[p] = Closed, page'[p] # Closed, last # Nothing, last.kept
  PROVE  /\ page'[p].subject = last.subject
         /\ \A purpose \in Purposes :
              IsAllowed(page'[p].state, purpose) <=>
                (IsAllowed(last.state, purpose) /\ ~(purpose = "sale_or_share" /\ signal))
<1> DEFINE choice == [subject |-> last.subject, state |-> last.state]
           found == IF ReadLocal # Nothing THEN ReadLocal ELSE ReadCookie
           load == LoadStoredConsent(signal)
<1>1. last \in [subject : Nat \ {0}, state : States, kept : BOOLEAN] /\ signal \in BOOLEAN
  BY DEF ConsentSdkInv, SdkPageTypes
<1>2. choice \in StoredChoices /\ choice # Nothing /\ choice.subject = last.subject /\ choice.state = last.state
  BY <1>1, NotNothing DEF StoredChoices
<1>3. found = choice
  <2>1. cookie = choice /\ (storage = "works" => local = choice)
        /\ (storage = "full" => local \in {Nothing, choice}) /\ storage \in {"works", "full", "blocked"}
    BY DEF ConsentSdkInv, LastIsStored, SdkPageTypes
  <2> HIDE DEF choice
  <2> QED BY <1>2, <2>1 DEF ReadLocal, ReadCookie
<1>4. load # Nothing
  <2> DEFINE w == WithGpc([found.state EXCEPT !.gpc = signal])
  <2>1. load = [found EXCEPT !.state = w] BY <1>2, <1>3 DEF LoadStoredConsent
  <2> HIDE DEF found, load, choice, w
  <2>2. load.state = w \/ "state" \notin DOMAIN found BY <2>1
  <2>3. DOMAIN load = DOMAIN found BY <2>1
  <2>4. DOMAIN found = {"subject", "state"} BY <1>2, <1>3 DEF StoredChoices
  <2>5. DOMAIN Nothing = {"subject"} BY DEF Nothing
  <2> QED BY <2>3, <2>4, <2>5
<1>5. /\ load.subject = last.subject
      /\ load.state.allowed = IF signal THEN last.state.allowed \ {"sale_or_share"} ELSE last.state.allowed
      /\ load.state.gpc = signal
  BY <1>2, <1>3, <1>4, LoadsStored
<1>6. q = p /\ CreateStored(p)
  <2>1. page \in [Pages -> Loaded \cup {Closed}] BY DEF ConsentSdkInv, SdkPageTypes
  <2>2. CreateStored(q) BY <1>4 DEF CreateInitial
  <2>3. q = p BY <2>1, <2>2 DEF CreateStored
  <2> QED BY <2>2, <2>3
<1>7. page'[p].subject = load.subject /\ page'[p].state = load.state
  <2>1. page' = [page EXCEPT ![p] = Page(load.subject, load.state, "none")] BY <1>6 DEF CreateStored
  <2>2. page'[p] = Page(load.subject, load.state, "none")
    BY <2>1 DEF ConsentSdkInv, SdkPageTypes
  <2> HIDE DEF load
  <2> QED BY <2>2 DEF Page
<1> HIDE DEF load
<1>8. last.state \in States BY <1>1
<1> QED BY <1>1, <1>5, <1>7, <1>8 DEF IsAllowed, States

\* A choice outlives the page it was made in, for any number of tabs, choices and
\* signals of the browser.
THEOREM ChoicesOutlivePages == ConsentSdkSpec => ChoiceOutlivesThePage
<1>1. ASSUME ConsentSdkInv, [ConsentSdkNext]_consentSdkVars,
             NEW p \in Pages, page[p] = Closed, page'[p] # Closed, last # Nothing, last.kept
      PROVE  /\ page'[p].subject = last.subject
             /\ \A purpose \in Purposes :
                  IsAllowed(page'[p].state, purpose) <=>
                    (IsAllowed(last.state, purpose) /\ ~(purpose = "sale_or_share" /\ signal))
  <2>1. PICK q \in Pages : CreateStored(q) \/ CreateInitial(q) BY <1>1, ConsentSdkStep
  <2> QED BY <1>1, <2>1, LoadShows
<1>2. ConsentSdkInv /\ [ConsentSdkNext]_consentSdkVars => ConsentSdkInv' BY ConsentSdkStep
<1>3. ConsentSdkInv /\ [ConsentSdkNext]_consentSdkVars =>
        \A p \in Pages :
          (page[p] = Closed /\ page'[p] # Closed /\ last # Nothing /\ last.kept) =>
            /\ page'[p].subject = last.subject
            /\ \A purpose \in Purposes :
                 IsAllowed(page'[p].state, purpose) <=>
                   (IsAllowed(last.state, purpose) /\ ~(purpose = "sale_or_share" /\ signal))
  BY <1>1
<1> QED BY <1>2, <1>3, SdkPagesStart, PTL DEF ConsentSdkSpec, ChoiceOutlivesThePage

-----------------------------------------------------------------------------
(* The routes.                                                             *)

Guards == Seq(BOOLEAN \X Nat)

\* A reply is that of the first guard that fails: what fails and what answers.
Failing(guards) == {k \in 1..Len(guards) : guards[k][1]}

LEMMA FirstFailing ==
  ASSUME NEW guards \in Guards, NEW done
  PROVE  /\ Failing(guards) = {} => Reply(guards, done) = done
         /\ \A m \in Failing(guards) :
              (\A k \in Failing(guards) : m <= k) => Reply(guards, done) = guards[m][2]
<1>1. DOMAIN guards = 1..Len(guards) /\ Len(guards) \in Nat BY DEF Guards
<1>2. Failing(guards) = {k \in DOMAIN guards : guards[k][1]} BY <1>1 DEF Failing
<1>3. Reply(guards, done) = IF Failing(guards) = {} THEN done ELSE guards[Min(Failing(guards))][2]
  BY <1>2 DEF Reply
<1>4. ASSUME NEW m \in Failing(guards), \A k \in Failing(guards) : m <= k
      PROVE  Min(Failing(guards)) = m
  <2>1. Failing(guards) \subseteq Nat BY <1>1 DEF Failing
  <2> HIDE DEF Failing
  <2>2. \E x \in Failing(guards) : \A y \in Failing(guards) : x <= y BY <1>4
  <2>3. /\ Min(Failing(guards)) \in Failing(guards)
        /\ \A y \in Failing(guards) : Min(Failing(guards)) <= y
    BY <2>2 DEF Min
  <2> QED BY <1>4, <2>1, <2>3
<1> QED BY <1>3, <1>4

LEMMA ReplyConcat ==
  ASSUME NEW a \in Guards, NEW b \in Guards, NEW done
  PROVE  a \o b \in Guards /\ Reply(a \o b, done) = Reply(a, Reply(b, done))
<1> DEFINE ab == a \o b
<1>1. /\ ab \in Guards /\ Len(ab) = Len(a) + Len(b) /\ Len(a) \in Nat /\ Len(b) \in Nat
      /\ \A k \in 1..(Len(a) + Len(b)) : ab[k] = IF k <= Len(a) THEN a[k] ELSE b[k - Len(a)]
  BY ConcatProperties DEF Guards
<1> HIDE DEF ab
<1>2. \A k \in 1..Len(a) : k \in 1..Len(ab) /\ ab[k] = a[k] BY <1>1
<1>3. \A k \in 1..Len(b) : Len(a) + k \in 1..Len(ab) /\ ab[Len(a) + k] = b[k]
  <2> SUFFICES ASSUME NEW k \in 1..Len(b)
               PROVE  Len(a) + k \in 1..Len(ab) /\ ab[Len(a) + k] = b[k]
    OBVIOUS
  <2>1. Len(a) + k \in 1..(Len(a) + Len(b)) /\ ~(Len(a) + k <= Len(a)) /\ (Len(a) + k) - Len(a) = k
    BY <1>1
  <2> QED BY <1>1, <2>1
<1>4. \A k \in 1..Len(ab) : k \in 1..Len(a) \/ \E j \in 1..Len(b) : k = Len(a) + j
  <2> SUFFICES ASSUME NEW k \in 1..Len(ab), k \notin 1..Len(a)
               PROVE  \E j \in 1..Len(b) : k = Len(a) + j
    OBVIOUS
  <2>1. k - Len(a) \in 1..Len(b) /\ k = Len(a) + (k - Len(a)) BY <1>1
  <2> QED BY <2>1
<1>5. CASE Failing(a) # {}
  <2>1. PICK m \in Failing(a) : \A k \in Failing(a) : m <= k
    <3>1. Failing(a) \in SUBSET Nat BY <1>1 DEF Failing
    <3> QED BY <1>5, <3>1, Least
  <2>2. m \in Failing(ab) /\ ab[m] = a[m] BY <1>2, <2>1 DEF Failing
  <2>3. \A k \in Failing(ab) : m <= k
    <3> SUFFICES ASSUME NEW k \in Failing(ab) PROVE m <= k
      OBVIOUS
    <3>1. k \in 1..Len(ab) /\ ab[k][1] /\ m \in 1..Len(a) BY <2>1 DEF Failing
    <3>2. CASE k \in 1..Len(a)
      <4>1. k \in Failing(a) BY <1>2, <3>1, <3>2 DEF Failing
      <4> QED BY <2>1, <4>1
    <3>3. CASE k \notin 1..Len(a) BY <1>1, <3>1, <3>3
    <3> QED BY <3>2, <3>3
  <2>4. Reply(ab, done) = a[m][2] BY <1>1, <2>2, <2>3, FirstFailing
  <2>5. Reply(a, Reply(b, done)) = a[m][2] BY <2>1, FirstFailing
  <2> QED BY <1>1, <2>4, <2>5 DEF ab
<1>6. CASE Failing(a) = {} /\ Failing(b) # {}
  <2>1. PICK m \in Failing(b) : \A k \in Failing(b) : m <= k
    <3>1. Failing(b) \in SUBSET Nat BY <1>1 DEF Failing
    <3> QED BY <1>6, <3>1, Least
  <2>2. Len(a) + m \in Failing(ab) /\ ab[Len(a) + m] = b[m] BY <1>3, <2>1 DEF Failing
  <2>3. \A k \in Failing(ab) : Len(a) + m <= k
    <3> SUFFICES ASSUME NEW k \in Failing(ab) PROVE Len(a) + m <= k
      OBVIOUS
    <3>1. k \in 1..Len(ab) /\ ab[k][1] BY DEF Failing
    <3>2. k \notin 1..Len(a) BY <1>2, <1>6, <3>1 DEF Failing
    <3>3. PICK j \in 1..Len(b) : k = Len(a) + j BY <1>4, <3>1, <3>2
    <3>4. j \in Failing(b) BY <1>3, <3>1, <3>3 DEF Failing
    <3>5. m <= j /\ m \in Nat /\ j \in Nat BY <2>1, <3>4 DEF Failing
    <3> QED BY <1>1, <3>3, <3>5
  <2>4. Reply(ab, done) = b[m][2] BY <1>1, <2>2, <2>3, FirstFailing
  <2>5. Reply(a, Reply(b, done)) = Reply(b, done) BY <1>6, FirstFailing
  <2>6. Reply(b, done) = b[m][2] BY <2>1, FirstFailing
  <2> QED BY <1>1, <2>4, <2>5, <2>6 DEF ab
<1>7. CASE Failing(a) = {} /\ Failing(b) = {}
  <2>1. ASSUME NEW k \in Failing(ab) PROVE FALSE
    <3>1. k \in 1..Len(ab) /\ ab[k][1] BY DEF Failing
    <3>2. k \notin 1..Len(a) BY <1>2, <1>7, <3>1 DEF Failing
    <3>3. PICK j \in 1..Len(b) : k = Len(a) + j BY <1>4, <3>1, <3>2
    <3> QED BY <1>3, <1>7, <3>1, <3>3 DEF Failing
  <2> QED BY <1>1, <1>7, <2>1, FirstFailing DEF ab
<1> QED BY <1>1, <1>5, <1>6, <1>7 DEF ab

LEMMA ReplyOne ==
  ASSUME NEW g \in BOOLEAN, NEW n \in Nat, NEW done
  PROVE  <<<<g, n>>>> \in Guards /\ Reply(<<<<g, n>>>>, done) = IF g THEN n ELSE done
<1> DEFINE guards == <<<<g, n>>>>
<1>1. guards \in Guards /\ Len(guards) = 1 /\ guards[1] = <<g, n>> BY DEF Guards
<1> HIDE DEF guards
<1>2. guards[1][1] = g /\ guards[1][2] = n BY <1>1
<1>3. Failing(guards) = IF g THEN {1} ELSE {} BY <1>1, <1>2 DEF Failing
<1>4. CASE g
  <2>1. 1 \in Failing(guards) /\ \A k \in Failing(guards) : 1 <= k BY <1>3, <1>4
  <2> QED BY <1>1, <1>2, <1>4, <2>1, FirstFailing DEF guards
<1>5. CASE ~g
  BY <1>1, <1>3, <1>5, FirstFailing DEF guards
<1> QED BY <1>4, <1>5

Refusals == {400, 402, 403, 404, 500, 502, 503}
Queries == [route : RouteNames, caller : Principals \cup {Stranger}, tenant : RouteTenants]

\* Nothing the tenant lacks, and nothing wrong with the request.
Good(w) == w.known /\ w.enabled /\ w.account = "good" /\ w.body /\ w.provided /\ w.stored

\* Guards that pass or refuse, and pass if all is well.
Fine(guards, ok) ==
  guards \in Guards /\ \A done \in Nat : /\ Reply(guards, done) \in Refusals \cup {done}
                                         /\ ok => Reply(guards, done) = done

LEMMA OneFine ==
  ASSUME NEW g \in BOOLEAN, NEW n \in Refusals, NEW ok \in BOOLEAN, ok => ~g
  PROVE  Fine(<<<<g, n>>>>, ok)
<1>1. n \in Nat BY DEF Refusals
<1> QED BY <1>1, ReplyOne DEF Fine

LEMMA BothFine ==
  ASSUME NEW a, NEW b, NEW ok \in BOOLEAN, Fine(a, ok), Fine(b, ok)
  PROVE  Fine(a \o b, ok)
<1>1. a \in Guards /\ b \in Guards BY DEF Fine
<1>2. a \o b \in Guards BY <1>1, ReplyConcat
<1> SUFFICES ASSUME NEW done \in Nat
             PROVE  /\ Reply(a \o b, done) \in Refusals \cup {done}
                    /\ ok => Reply(a \o b, done) = done
  BY <1>2 DEF Fine
<1>3. Reply(a \o b, done) = Reply(a, Reply(b, done)) BY <1>1, ReplyConcat
<1>4. Reply(b, done) \in Refusals \cup {done} /\ (ok => Reply(b, done) = done) BY DEF Fine
<1>5. Reply(b, done) \in Nat BY <1>4 DEF Refusals
<1>6. /\ Reply(a, Reply(b, done)) \in Refusals \cup {Reply(b, done)}
      /\ ok => Reply(a, Reply(b, done)) = Reply(b, done)
  BY <1>5 DEF Fine
<1> QED BY <1>3, <1>4, <1>6

LEMMA TwoFine ==
  ASSUME NEW g \in BOOLEAN, NEW n \in Refusals, NEW h \in BOOLEAN, NEW m \in Refusals,
         NEW ok \in BOOLEAN, ok => ~g, ok => ~h
  PROVE  Fine(<<<<g, n>>, <<h, m>>>>, ok)
<1>1. <<<<g, n>>, <<h, m>>>> = <<<<g, n>>>> \o <<<<h, m>>>> OBVIOUS
<1>2. Fine(<<<<g, n>>>>, ok) /\ Fine(<<<<h, m>>>>, ok) BY OneFine
<1> QED BY <1>1, <1>2, BothFine

-----------------------------------------------------------------------------
\* May the caller ask this, and how a handler answers it if the rest of its guards
\* is fine.
RoleFor(route) == IF route \in Analysts THEN "analyst" ELSE IF route \in Admins THEN "admin" ELSE "viewer"
May(q) == q.caller.tenant = q.tenant /\ roleSatisfies(q.caller.role, RoleFor(q.route))
Outcome(q, w, n) ==
  \E rest \in Refusals \cup {200} :
    /\ Good(w) => rest = 200
    /\ n = IF q.caller = Stranger THEN 401 ELSE IF ~May(q) THEN 403 ELSE rest

LEMMA AdmissionFirst ==
  ASSUME NEW q \in Queries, NEW min \in DOMAIN ROLE_RANK, NEW done
  PROVE  LET door == Authenticated(q) \o OwnTenant(q)
                       \o <<<<~roleSatisfies(q.caller.role, min), 403>>>>
         IN  /\ door \in Guards
             /\ Reply(door, done) = IF q.caller = Stranger THEN 401
                                    ELSE IF ~(q.caller.tenant = q.tenant
                                              /\ roleSatisfies(q.caller.role, min)) THEN 403
                                    ELSE done
<1> DEFINE g == q.caller = Stranger
           h == q.caller.tenant # q.tenant
           r == ~roleSatisfies(q.caller.role, min)
<1>1. g \in BOOLEAN /\ h \in BOOLEAN /\ r \in BOOLEAN BY DEF roleSatisfies
<1>2. Authenticated(q) = <<<<g, 401>>>> /\ OwnTenant(q) = <<<<h, 403>>>>
  BY DEF Authenticated, OwnTenant
<1> DEFINE a == <<<<g, 401>>>>
           b == <<<<h, 403>>>>
           c == <<<<r, 403>>>>
<1> HIDE DEF g, h, r
<1>3. /\ a \in Guards /\ b \in Guards /\ c \in Guards
      /\ \A x : Reply(a, x) = IF g THEN 401 ELSE x
      /\ \A x : Reply(b, x) = IF h THEN 403 ELSE x
      /\ \A x : Reply(c, x) = IF r THEN 403 ELSE x
  BY <1>1, ReplyOne
<1> HIDE DEF a, b, c
<1>4. a \o b \in Guards /\ Reply(a \o b, Reply(c, done)) = Reply(a, Reply(b, Reply(c, done)))
  BY <1>3, ReplyConcat
<1>5. (a \o b) \o c \in Guards /\ Reply((a \o b) \o c, done) = Reply(a \o b, Reply(c, done))
  BY <1>3, <1>4, ReplyConcat
<1>6. Reply((a \o b) \o c, done) = IF g THEN 401 ELSE IF h \/ r THEN 403 ELSE done
  BY <1>3, <1>4, <1>5
<1>7. Authenticated(q) \o OwnTenant(q) \o <<<<~roleSatisfies(q.caller.role, min), 403>>>> = (a \o b) \o c
  BY <1>2 DEF a, b, c, r
<1> QED BY <1>5, <1>6, <1>7 DEF g, h, r

\* Guards that ask first who is there, and are fine behind that.
Behind(q, w, guards) ==
  /\ guards \in Guards
  /\ \A done \in Nat : \E rest \in Refusals \cup {done} :
       /\ Good(w) => rest = done
       /\ Reply(guards, done) = IF q.caller = Stranger THEN 401 ELSE IF ~May(q) THEN 403 ELSE rest

LEMMA BehindMore ==
  ASSUME NEW q \in Queries, NEW w \in Worlds, NEW a, NEW b, Behind(q, w, a), Fine(b, Good(w))
  PROVE  Behind(q, w, a \o b)
<1>1. a \in Guards /\ b \in Guards /\ a \o b \in Guards BY ReplyConcat DEF Behind, Fine
<1> SUFFICES ASSUME NEW done \in Nat
             PROVE  \E rest \in Refusals \cup {done} :
                      /\ Good(w) => rest = done
                      /\ Reply(a \o b, done) = IF q.caller = Stranger THEN 401
                                               ELSE IF ~May(q) THEN 403 ELSE rest
  BY <1>1 DEF Behind
<1> DEFINE d == Reply(b, done)
<1>2. d \in Refusals \cup {done} /\ (Good(w) => d = done) BY DEF Fine
<1>3. d \in Nat BY <1>2 DEF Refusals
<1>4. Reply(a \o b, done) = Reply(a, d) BY <1>1, ReplyConcat
<1> HIDE DEF d
<1>5. PICK rest \in Refusals \cup {d} :
        /\ Good(w) => rest = d
        /\ Reply(a, d) = IF q.caller = Stranger THEN 401 ELSE IF ~May(q) THEN 403 ELSE rest
  BY <1>3 DEF Behind
<1>6. rest \in Refusals \cup {done} /\ (Good(w) => rest = done) BY <1>2, <1>5
<1>7. \E r \in Refusals \cup {done} :
        /\ Good(w) => r = done
        /\ Reply(a \o b, done) = IF q.caller = Stranger THEN 401 ELSE IF ~May(q) THEN 403 ELSE r
  <2>1. Reply(a \o b, done) = IF q.caller = Stranger THEN 401 ELSE IF ~May(q) THEN 403 ELSE rest
    BY <1>4, <1>5
  <2> QED BY Zenon, <1>6, <2>1
<1> QED BY <1>7

LEMMA BehindReplies ==
  ASSUME NEW q \in Queries, NEW w \in Worlds, NEW guards, Behind(q, w, guards)
  PROVE  Outcome(q, w, Reply(guards, 200))
BY DEF Behind, Outcome

LEMMA DoorBehind ==
  ASSUME NEW q \in Queries, NEW w \in Worlds, NEW min \in DOMAIN ROLE_RANK, min = RoleFor(q.route)
  PROVE  Behind(q, w, Authenticated(q) \o OwnTenant(q)
                        \o <<<<~roleSatisfies(q.caller.role, min), 403>>>>)
<1> DEFINE door == Authenticated(q) \o OwnTenant(q)
                     \o <<<<~roleSatisfies(q.caller.role, min), 403>>>>
<1>1. /\ door \in Guards
      /\ \A done : Reply(door, done) = IF q.caller = Stranger THEN 401
                                       ELSE IF ~May(q) THEN 403 ELSE done
  BY AdmissionFirst DEF May
<1> HIDE DEF door
<1>2. Behind(q, w, door) BY <1>1 DEF Behind
<1> QED BY <1>2 DEF door

\* The guards the routes share.
Disabled(w) == <<<<~w.enabled, 403>>>>
Broken(w) == <<<<~w.stored, 500>>>>
Failed(w) == <<<<~w.stored, 502>>>>
Unprofiled(w) == <<<<~w.stored, 502>>, <<~w.provided, 404>>>>
Uncollected(w) == <<<<~w.provided, 503>>, <<~w.stored, 502>>>>

LEMMA FineGuards ==
  ASSUME NEW q \in Queries, NEW w \in Worlds
  PROVE  /\ Fine(Known(q, w), Good(w)) /\ Fine(Parsed(w), Good(w)) /\ Fine(Paid(w), Good(w))
         /\ Fine(Disabled(w), Good(w)) /\ Fine(Broken(w), Good(w)) /\ Fine(Failed(w), Good(w))
         /\ Fine(Unprofiled(w), Good(w)) /\ Fine(Uncollected(w), Good(w))
<1>1. /\ w.known \in BOOLEAN /\ w.enabled \in BOOLEAN /\ w.body \in BOOLEAN
      /\ w.provided \in BOOLEAN /\ w.stored \in BOOLEAN
  BY DEF Worlds
<1>2. {400, 402, 403, 404, 500, 502, 503} \subseteq Refusals BY DEF Refusals
<1> DEFINE kn == ~w.known
           en == ~w.enabled
           bo == ~w.body
           pr == ~w.provided
           st == ~w.stored
           su == w.account = "suspended"
           sp == w.account = "spent"
           ok == Good(w)
<1>3. /\ kn \in BOOLEAN /\ en \in BOOLEAN /\ bo \in BOOLEAN /\ pr \in BOOLEAN /\ st \in BOOLEAN
      /\ su \in BOOLEAN /\ sp \in BOOLEAN /\ ok \in BOOLEAN
      /\ ok => ~kn /\ ~en /\ ~bo /\ ~pr /\ ~st /\ ~su /\ ~sp
  BY <1>1 DEF Good
<1> HIDE DEF kn, en, bo, pr, st, su, sp, ok
<1>4. Fine(<<<<kn, 404>>>>, ok) BY <1>2, <1>3, OneFine
<1>5. Fine(<<<<bo, 400>>>>, ok) BY <1>2, <1>3, OneFine
<1>6. Fine(<<<<su, 403>>, <<sp, 402>>>>, ok) BY <1>2, <1>3, TwoFine
<1>7. Fine(<<<<en, 403>>>>, ok) BY <1>2, <1>3, OneFine
<1>8. Fine(<<<<st, 500>>>>, ok) /\ Fine(<<<<st, 502>>>>, ok) BY <1>2, <1>3, OneFine
<1>9. Fine(<<<<st, 502>>, <<pr, 404>>>>, ok) /\ Fine(<<<<pr, 503>>, <<st, 502>>>>, ok)
  BY <1>2, <1>3, TwoFine
<1> QED BY Zenon, <1>4, <1>5, <1>6, <1>7, <1>8, <1>9
     DEF Known, Parsed, Paid, Disabled, Broken, Failed, Unprofiled, Uncollected,
       kn, en, bo, pr, st, su, sp, ok

LEMMA AdmittedBehind ==
  ASSUME NEW q \in Queries, NEW w \in Worlds, NEW min \in DOMAIN ROLE_RANK, min = RoleFor(q.route)
  PROVE  Behind(q, w, Admitted(q, w, min))
<1> DEFINE door == Authenticated(q) \o OwnTenant(q)
                     \o <<<<~roleSatisfies(q.caller.role, min), 403>>>>
<1>1. Behind(q, w, door) BY DoorBehind
<1>2. Admitted(q, w, min) = door \o Known(q, w) BY DEF Admitted
<1> HIDE DEF door
<1>3. Behind(q, w, door \o Known(q, w)) BY <1>1, FineGuards, BehindMore
<1> QED BY <1>2, <1>3

\* What answers under which path.
LEMMA Dispatch ==
  ASSUME NEW q \in Queries, NEW w \in Worlds
  PROVE  /\ q.route = "attribution" => Handle(q, w) = registerAttribution(q, w)
         /\ q.route = "experiments" => Handle(q, w) = registerAbTesting(q, w)
         /\ q.route = "analytics" => Handle(q, w) = registerAnalytics(q, w)
         /\ q.route = "audiences" => Handle(q, w) = registerAudiences(q, w)
         /\ q.route = "funnels" => Handle(q, w) = registerFunnels(q, w)
         /\ q.route = "cohorts" => Handle(q, w) = registerCohorts(q, w)
         /\ q.route = "lead-scoring" => Handle(q, w) = registerLeadScoring(q, w)
         /\ q.route = "data-quality" => Handle(q, w) = registerDataQuality(q, w)
         /\ q.route = "intel" => Handle(q, w) = registerIntel(q, w)
         /\ q.route = "deliverability" => Handle(q, w) = registerDeliverability(q, w)
         /\ q.route = "audit-log" => Handle(q, w) = registerAuditLog(q, w)
         /\ q.route = "enrichment" => Handle(q, w) = registerEnrichment(q, w)
         /\ q.route = "destinations" => Handle(q, w) = registerDestinations(q, w)
         /\ q.route = "warehouse-sync" => Handle(q, w) = registerWarehouseSync(q, w)
         /\ q.route = "notifications" => Handle(q, w) = registerNotifications(q, w)
         /\ q.route = "journeys" => Handle(q, w) = registerJourneys(q, w)
         /\ q.route = "automations" => Handle(q, w) = registerAutomations(q, w)
         /\ q.route = "data-export" => Handle(q, w) = registerDataExport(q, w)
         /\ q.route = "email" => Handle(q, w) = registerEmail(q, w)
         /\ q.route = "modules" => Handle(q, w) = registerModules(q, w)
         /\ q.route = "data" => Handle(q, w) = registerData(q, w)
         /\ q.route = "forms" => Handle(q, w) = registerForms(q, w)
         /\ q.route = "consent" => Handle(q, w) = registerConsent(q, w)
         /\ q.route = "ingest" => Handle(q, w) = registerIngest(q, w)
         /\ q.route = "webhooks" => Handle(q, w) = registerWebhooksInbound(q, w)
BY DEF Handle

LEMMA AnalystsAnswer ==
  ASSUME NEW q \in Queries, NEW w \in Worlds, q.route \in Analysts
  PROVE  Outcome(q, w, Handle(q, w))
<1> DEFINE a == Admitted(q, w, "analyst")
           p == a \o Parsed(w)
           e == a \o Disabled(w)
<1>1. Behind(q, w, a)
  <2>1. "analyst" \in DOMAIN ROLE_RANK BY DEF ROLE_RANK
  <2> QED BY <2>1, AdmittedBehind DEF RoleFor
<1>2. /\ registerAttribution(q, w) = Reply(p, 200) /\ registerAbTesting(q, w) = Reply(p, 200)
      /\ registerAnalytics(q, w) = Reply(p \o Broken(w), 200)
      /\ registerAudiences(q, w) = Reply(p \o Broken(w), 200)
      /\ registerFunnels(q, w) = Reply(p \o Failed(w), 200)
      /\ registerCohorts(q, w) = Reply(p \o Failed(w), 200)
      /\ registerLeadScoring(q, w) = Reply(p \o Failed(w), 200)
      /\ registerDataQuality(q, w) = Reply(p \o Unprofiled(w), 200)
      /\ registerIntel(q, w) = Reply((e \o Parsed(w)) \o Uncollected(w), 200)
  BY DEF registerAttribution, registerAbTesting, registerAnalytics,
    registerAudiences, registerFunnels, registerCohorts, registerLeadScoring, registerDataQuality,
    registerIntel, Disabled, Broken, Failed, Unprofiled, Uncollected
<1> HIDE DEF a
<1>3. Behind(q, w, p) /\ Behind(q, w, e) BY <1>1, FineGuards, BehindMore
<1> HIDE DEF p, e
<1>4. /\ Behind(q, w, p \o Broken(w)) /\ Behind(q, w, p \o Failed(w))
      /\ Behind(q, w, p \o Unprofiled(w)) /\ Behind(q, w, e \o Parsed(w))
  BY <1>3, FineGuards, BehindMore
<1>5. Behind(q, w, (e \o Parsed(w)) \o Uncollected(w)) BY <1>4, FineGuards, BehindMore
<1> QED BY <1>2, <1>3, <1>4, <1>5, BehindReplies, Dispatch DEF Analysts

LEMMA AdminsAnswer ==
  ASSUME NEW q \in Queries, NEW w \in Worlds, q.route \in Admins, q.route # "modules"
  PROVE  Outcome(q, w, Handle(q, w))
<1> DEFINE a == Admitted(q, w, "admin")
           door == Authenticated(q) \o OwnTenant(q) \o <<<<~roleSatisfies(q.caller.role, "admin"), 403>>>>
           p == a \o Parsed(w)
           e == a \o Disabled(w)
<1>1. Behind(q, w, a) /\ Behind(q, w, door)
  <2>1. "admin" \in DOMAIN ROLE_RANK BY DEF ROLE_RANK
  <2>2. RoleFor(q.route) = "admin" BY DEF RoleFor, Admins, Analysts
  <2> QED BY <2>1, <2>2, AdmittedBehind, DoorBehind
<1>2. /\ registerNotifications(q, w) = Reply(p, 200) /\ registerJourneys(q, w) = Reply(p, 200)
      /\ registerDeliverability(q, w) = Reply(p \o Failed(w), 200)
      /\ registerAuditLog(q, w) = Reply(p \o Failed(w), 200)
      /\ registerEnrichment(q, w) = Reply(p \o Failed(w), 200)
      /\ registerDataExport(q, w) = Reply(p \o Failed(w), 200)
      /\ registerDestinations(q, w) = Reply(p \o Broken(w), 200)
      /\ registerWarehouseSync(q, w) = Reply(p \o Broken(w), 200)
      /\ registerAutomations(q, w) = Reply((e \o Parsed(w)) \o Broken(w), 200)
      /\ registerEmail(q, w) = Reply((((door \o Parsed(w)) \o Known(q, w)) \o Paid(w)) \o Broken(w), 200)
  BY DEF registerNotifications, registerJourneys, registerDeliverability,
    registerAuditLog, registerEnrichment, registerDataExport, registerDestinations,
    registerWarehouseSync, registerAutomations, registerEmail, Disabled, Broken, Failed
<1> HIDE DEF a, door
<1>3. Behind(q, w, p) /\ Behind(q, w, e) BY <1>1, FineGuards, BehindMore
<1> HIDE DEF p, e
<1>4. /\ Behind(q, w, p \o Broken(w)) /\ Behind(q, w, p \o Failed(w)) /\ Behind(q, w, e \o Parsed(w))
  BY <1>3, FineGuards, BehindMore
<1>5. Behind(q, w, (e \o Parsed(w)) \o Broken(w)) BY <1>4, FineGuards, BehindMore
<1>6. Behind(q, w, (((door \o Parsed(w)) \o Known(q, w)) \o Paid(w)) \o Broken(w))
  <2>1. Behind(q, w, door \o Parsed(w)) BY <1>1, FineGuards, BehindMore
  <2>2. Behind(q, w, (door \o Parsed(w)) \o Known(q, w)) BY <2>1, FineGuards, BehindMore
  <2>3. Behind(q, w, ((door \o Parsed(w)) \o Known(q, w)) \o Paid(w)) BY <2>2, FineGuards, BehindMore
  <2> QED BY <2>3, FineGuards, BehindMore
<1> QED BY <1>2, <1>3, <1>4, <1>5, <1>6, BehindReplies, Dispatch DEF Admins

\* An unknown module is told to everybody; the rest is as elsewhere.
LEMMA ModulesAnswer ==
  ASSUME NEW q \in Queries, NEW w \in Worlds, q.route = "modules"
  PROVE  \E n : Outcome(q, w, n) /\ Handle(q, w) = IF ~w.provided THEN 400 ELSE n
<1> DEFINE a == Admitted(q, w, "admin")
           g == ~w.provided
           m == <<<<g, 400>>>>
           c == Paid(w) \o Broken(w)
           d == Reply(c, 200)
<1>1. Behind(q, w, a)
  <2>1. "admin" \in DOMAIN ROLE_RANK BY DEF ROLE_RANK
  <2>2. RoleFor(q.route) = "admin" BY DEF RoleFor, Admins, Analysts
  <2> QED BY <2>1, <2>2, AdmittedBehind
<1>2. Handle(q, w) = Reply(((m \o a) \o Paid(w)) \o Broken(w), 200) BY Dispatch DEF registerModules, Broken
<1>3. g \in BOOLEAN OBVIOUS
<1> HIDE DEF a, g
<1>4. m \in Guards /\ \A x : Reply(m, x) = IF g THEN 400 ELSE x BY <1>3, ReplyOne
<1>5. a \in Guards /\ Paid(w) \in Guards /\ Broken(w) \in Guards /\ Fine(c, Good(w))
  <2>1. Fine(Paid(w), Good(w)) /\ Fine(Broken(w), Good(w)) BY FineGuards
  <2>2. Good(w) \in BOOLEAN BY DEF Good
  <2> QED BY <1>1, <2>1, <2>2, BothFine DEF Behind, Fine
<1> HIDE DEF m, d
<1>6. Reply(((m \o a) \o Paid(w)) \o Broken(w), 200) = Reply(m, Reply(a, d))
  <2>1. m \o a \in Guards /\ Reply(m \o a, d) = Reply(m, Reply(a, d)) BY <1>4, <1>5, ReplyConcat
  <2>2. d = Reply(Paid(w), Reply(Broken(w), 200)) BY <1>5, ReplyConcat DEF d
  <2> DEFINE e == Reply(Broken(w), 200)
             door == m \o a
  <2>3. door \in Guards /\ d = Reply(Paid(w), e) BY <2>1, <2>2
  <2> HIDE DEF e, door
  <2>4. door \o Paid(w) \in Guards /\ Reply(door \o Paid(w), e) = Reply(door, Reply(Paid(w), e))
    BY <1>5, <2>3, ReplyConcat
  <2>5. Reply((door \o Paid(w)) \o Broken(w), 200) = Reply(door \o Paid(w), e)
    BY <1>5, <2>4, ReplyConcat DEF e
  <2> QED BY <2>1, <2>3, <2>4, <2>5 DEF door
<1>7. Reply(a \o c, 200) = Reply(a, d) BY <1>5, ReplyConcat DEF d, Fine
<1>8. Outcome(q, w, Reply(a \o c, 200))
  <2> HIDE DEF c
  <2>1. Behind(q, w, a \o c) BY <1>1, <1>5, BehindMore
  <2> QED BY <2>1, BehindReplies
<1>9. Handle(q, w) = IF ~w.provided THEN 400 ELSE Reply(a, d) BY <1>2, <1>4, <1>6 DEF g
<1> QED BY Zenon, <1>7, <1>8, <1>9

LEMMA DataAnswers ==
  ASSUME NEW q \in Queries, NEW w \in Worlds, q.route = "data"
  PROVE  Outcome(q, w, Handle(q, w))
<1> DEFINE g == q.caller = Stranger
           h == q.caller.tenant # q.tenant
           a == <<<<g, 401>>>>
           b == <<<<h, 403>>>>
<1>1. g \in BOOLEAN /\ h \in BOOLEAN OBVIOUS
<1>2. May(q) <=> ~h
  <2>1. RoleFor(q.route) = "viewer" BY DEF RoleFor, Admins, Analysts
  <2>2. q.caller.role \in DOMAIN ROLE_RANK
    BY DEF Queries, Principals, Stranger, ROLE_RANK
  <2>3. roleSatisfies(q.caller.role, "viewer") BY <2>2 DEF roleSatisfies, ROLE_RANK
  <2> QED BY <2>1, <2>3 DEF May
<1>3. Handle(q, w) = Reply((a \o b) \o Broken(w), 200)
  BY Dispatch DEF registerData, Authenticated, OwnTenant, Broken
<1> HIDE DEF g, h
<1>4. a \in Guards /\ b \in Guards
      /\ (\A x : Reply(a, x) = IF g THEN 401 ELSE x) /\ (\A x : Reply(b, x) = IF h THEN 403 ELSE x)
  BY <1>1, ReplyOne
<1> HIDE DEF a, b
<1>5. a \o b \in Guards /\ \A x : Reply(a \o b, x) = IF g THEN 401 ELSE IF h THEN 403 ELSE x
  <2>1. \A x : Reply(a \o b, x) = Reply(a, Reply(b, x)) BY <1>4, ReplyConcat
  <2> QED BY <1>4, <2>1, ReplyConcat
<1> DEFINE door == a \o b
<1> HIDE DEF door
<1>6. door \in Guards /\ \A x : Reply(door, x) = IF q.caller = Stranger THEN 401
                                                 ELSE IF ~May(q) THEN 403 ELSE x
  BY <1>2, <1>5 DEF door, g
<1>7. Behind(q, w, door) BY <1>6 DEF Behind
<1>8. Behind(q, w, door \o Broken(w)) BY <1>7, FineGuards, BehindMore
<1> QED BY <1>3, <1>8, BehindReplies DEF door

-----------------------------------------------------------------------------
\* A guard by itself, before others.
LEMMA GuardFirst ==
  ASSUME NEW g \in BOOLEAN, NEW n \in Nat, NEW rest \in Guards
  PROVE  /\ <<<<g, n>>>> \o rest \in Guards
         /\ \A done : Reply(<<<<g, n>>>> \o rest, done) = IF g THEN n ELSE Reply(rest, done)
<1> DEFINE one == <<<<g, n>>>>
<1>1. one \in Guards /\ \A x : Reply(one, x) = IF g THEN n ELSE x BY ReplyOne
<1> HIDE DEF one
<1>2. one \o rest \in Guards /\ \A done : Reply(one \o rest, done) = Reply(one, Reply(rest, done))
  BY <1>1, ReplyConcat
<1>3. \A done : Reply(one \o rest, done) = IF g THEN n ELSE Reply(rest, done) BY <1>1, <1>2
<1> QED BY <1>2, <1>3 DEF one

Pair(g, n, h, m) == <<<<g, n>>, <<h, m>>>>

LEMMA TwoGuards ==
  ASSUME NEW g \in BOOLEAN, NEW n \in Nat, NEW h \in BOOLEAN, NEW m \in Nat
  PROVE  /\ Pair(g, n, h, m) \in Guards
         /\ \A done : Reply(Pair(g, n, h, m), done) = IF g THEN n ELSE IF h THEN m ELSE done
<1> DEFINE a == <<<<g, n>>>>
           b == <<<<h, m>>>>
<1>1. Pair(g, n, h, m) = a \o b BY DEF Pair
<1>2. b \in Guards /\ \A x : Reply(b, x) = IF h THEN m ELSE x BY ReplyOne
<1> HIDE DEF b
<1>3. a \o b \in Guards /\ \A x : Reply(a \o b, x) = IF g THEN n ELSE Reply(b, x) BY <1>2, GuardFirst
<1> HIDE DEF a
<1>4. \A x : Reply(a \o b, x) = IF g THEN n ELSE IF h THEN m ELSE x BY <1>2, <1>3
<1> QED BY Zenon, <1>1, <1>3, <1>4

\* What the routes of a write key answer, and the webhooks.
LEMMA KeysAnswer ==
  ASSUME NEW q \in Queries, NEW w \in Worlds
  PROVE  /\ q.route = "forms" =>
              Handle(q, w) = IF ~w.body THEN 400
                             ELSE IF q.caller.tenant # q.tenant \/ ~w.known THEN 401
                             ELSE IF ~w.provided THEN 404 ELSE IF ~w.enabled THEN 400
                             ELSE IF ~w.stored THEN 500 ELSE 200
         /\ q.route \in {"consent", "ingest"} =>
              Handle(q, w) = IF ~w.body THEN 400
                             ELSE IF q.caller = Stranger \/ ~w.known THEN 401
                             ELSE IF ~w.stored THEN 500 ELSE 200
         /\ q.route = "webhooks" =>
              Handle(q, w) = IF ~w.known THEN 404 ELSE IF ~w.provided THEN 404
                             ELSE IF ~w.body THEN 400
                             ELSE IF q.caller.tenant # q.tenant THEN 401
                             ELSE IF ~w.stored THEN 502 ELSE 200
<1> DEFINE u == q.caller.tenant # q.tenant
           kn == ~w.known
           en == ~w.enabled
           bo == ~w.body
           pr == ~w.provided
           st == ~w.stored
           uk == u \/ kn
           sk == q.caller = Stranger \/ kn
<1>1. /\ u \in BOOLEAN /\ kn \in BOOLEAN /\ en \in BOOLEAN /\ bo \in BOOLEAN /\ pr \in BOOLEAN
      /\ st \in BOOLEAN /\ uk \in BOOLEAN /\ sk \in BOOLEAN
  BY DEF Worlds
<1>2. /\ q.route = "forms" =>
           Handle(q, w) = Reply(<<<<bo, 400>>>> \o <<<<uk, 401>>, <<pr, 404>>, <<en, 400>>, <<st, 500>>>>, 200)
      /\ q.route \in {"consent", "ingest"} =>
           Handle(q, w) = Reply(<<<<bo, 400>>>> \o <<<<sk, 401>>, <<st, 500>>>>, 200)
      /\ q.route = "webhooks" =>
           Handle(q, w) = Reply(((<<<<kn, 404>>>> \o <<<<pr, 404>>>>) \o <<<<bo, 400>>>>)
                                  \o <<<<u, 401>>, <<st, 502>>>>, 200)
  <2>1. q.route = "forms" => Handle(q, w) = registerForms(q, w) BY Dispatch
  <2>2. q.route = "consent" => Handle(q, w) = registerConsent(q, w) BY Dispatch
  <2>3. q.route = "ingest" => Handle(q, w) = registerIngest(q, w) BY Dispatch
  <2>4. q.route = "webhooks" => Handle(q, w) = registerWebhooksInbound(q, w) BY Dispatch
  <2>5. /\ registerForms(q, w) =
             Reply(<<<<bo, 400>>>> \o <<<<uk, 401>>, <<pr, 404>>, <<en, 400>>, <<st, 500>>>>, 200)
        /\ registerConsent(q, w) = Reply(<<<<bo, 400>>>> \o <<<<sk, 401>>, <<st, 500>>>>, 200)
        /\ registerIngest(q, w) = Reply(<<<<bo, 400>>>> \o <<<<sk, 401>>, <<st, 500>>>>, 200)
        /\ registerWebhooksInbound(q, w) =
             Reply(((<<<<kn, 404>>>> \o <<<<pr, 404>>>>) \o <<<<bo, 400>>>>) \o <<<<u, 401>>, <<st, 502>>>>, 200)
    BY Zenon DEF registerForms, registerConsent, registerIngest, registerWebhooksInbound, Parsed, Known
  <2>6. CASE q.route = "forms" BY <2>1, <2>5, <2>6
  <2>7. CASE q.route = "consent" BY <2>2, <2>5, <2>7
  <2>8. CASE q.route = "ingest" BY <2>3, <2>5, <2>8
  <2>9. CASE q.route = "webhooks" BY <2>4, <2>5, <2>9
  <2> QED BY <2>6, <2>7, <2>8, <2>9
<1> HIDE DEF u, kn, en, bo, pr, st, uk, sk
<1> DEFINE B == <<<<bo, 400>>>>
           N == <<<<kn, 404>>>>
           P == <<<<pr, 404>>>>
           X == Pair(uk, 401, pr, 404)
           Y == Pair(en, 400, st, 500)
           K == Pair(sk, 401, st, 500)
           U == Pair(u, 401, st, 502)
           F == <<<<uk, 401>>, <<pr, 404>>, <<en, 400>>, <<st, 500>>>>
<1>3. F = X \o Y BY DEF Pair
<1>4. /\ B \in Guards /\ \A x : Reply(B, x) = IF bo THEN 400 ELSE x
      /\ N \in Guards /\ \A x : Reply(N, x) = IF kn THEN 404 ELSE x
      /\ P \in Guards /\ \A x : Reply(P, x) = IF pr THEN 404 ELSE x
  BY <1>1, ReplyOne
<1>5. /\ X \in Guards /\ \A x : Reply(X, x) = IF uk THEN 401 ELSE IF pr THEN 404 ELSE x
      /\ Y \in Guards /\ \A x : Reply(Y, x) = IF en THEN 400 ELSE IF st THEN 500 ELSE x
      /\ K \in Guards /\ \A x : Reply(K, x) = IF sk THEN 401 ELSE IF st THEN 500 ELSE x
      /\ U \in Guards /\ \A x : Reply(U, x) = IF u THEN 401 ELSE IF st THEN 502 ELSE x
  <2>2. X \in Guards /\ \A x : Reply(X, x) = IF uk THEN 401 ELSE IF pr THEN 404 ELSE x
    BY <1>1, TwoGuards
  <2>3. Y \in Guards /\ \A x : Reply(Y, x) = IF en THEN 400 ELSE IF st THEN 500 ELSE x
    BY <1>1, TwoGuards
  <2>4. K \in Guards /\ \A x : Reply(K, x) = IF sk THEN 401 ELSE IF st THEN 500 ELSE x
    BY <1>1, TwoGuards
  <2>5. U \in Guards /\ \A x : Reply(U, x) = IF u THEN 401 ELSE IF st THEN 502 ELSE x
    BY <1>1, TwoGuards
  <2> HIDE DEF X, Y, K, U
  <2> QED BY <2>2, <2>3, <2>4, <2>5
<1>10. /\ q.route = "forms" => Handle(q, w) = Reply(B \o (X \o Y), 200)
       /\ q.route \in {"consent", "ingest"} => Handle(q, w) = Reply(B \o K, 200)
       /\ q.route = "webhooks" => Handle(q, w) = Reply(((N \o P) \o B) \o U, 200)
  <2>1. q.route = "forms" => Handle(q, w) = Reply(B \o F, 200) BY Zenon, <1>2
  <2>2. q.route \in {"consent", "ingest"} => Handle(q, w) = Reply(B \o K, 200) BY Zenon, <1>2 DEF Pair
  <2>3. q.route = "webhooks" => Handle(q, w) = Reply(((N \o P) \o B) \o U, 200) BY Zenon, <1>2 DEF Pair
  <2> HIDE DEF F, X, Y, B, K, N, P, U
  <2> QED BY <1>3, <2>1, <2>2, <2>3
<1> HIDE DEF B, N, P, X, Y, K, U
<1>6. /\ X \o Y \in Guards /\ Reply(X \o Y, 200) = Reply(X, Reply(Y, 200))
      /\ N \o P \in Guards /\ \A x : Reply(N \o P, x) = Reply(N, Reply(P, x))
      /\ Reply(B \o K, 200) = Reply(B, Reply(K, 200))
  BY <1>4, <1>5, ReplyConcat
<1> DEFINE XY == X \o Y
           NP == N \o P
<1> HIDE DEF XY, NP
<1>7. /\ Reply(B \o XY, 200) = Reply(B, Reply(XY, 200))
      /\ NP \o B \in Guards /\ \A x : Reply(NP \o B, x) = Reply(NP, Reply(B, x))
  BY <1>4, <1>6, ReplyConcat DEF XY, NP
<1> DEFINE NPB == NP \o B
<1> HIDE DEF NPB
<1>8. Reply(NPB \o U, 200) = Reply(NPB, Reply(U, 200)) BY <1>5, <1>7, ReplyConcat DEF NPB
<1>9. /\ q.route = "forms" =>
           Handle(q, w) = IF bo THEN 400 ELSE IF uk THEN 401 ELSE IF pr THEN 404
                          ELSE IF en THEN 400 ELSE IF st THEN 500 ELSE 200
      /\ q.route \in {"consent", "ingest"} =>
           Handle(q, w) = IF bo THEN 400 ELSE IF sk THEN 401 ELSE IF st THEN 500 ELSE 200
      /\ q.route = "webhooks" =>
           Handle(q, w) = IF kn THEN 404 ELSE IF pr THEN 404 ELSE IF bo THEN 400
                          ELSE IF u THEN 401 ELSE IF st THEN 502 ELSE 200
  <2>1. CASE q.route = "forms"
    <3>1. Handle(q, w) = Reply(B, Reply(X, Reply(Y, 200))) BY Zenon, <1>6, <1>7, <1>10, <2>1 DEF XY
    <3> QED BY <1>4, <1>5, <2>1, <3>1
  <2>2. CASE q.route \in {"consent", "ingest"}
    <3>1. Handle(q, w) = Reply(B, Reply(K, 200)) BY Zenon, <1>6, <1>10, <2>2
    <3> QED BY <1>4, <1>5, <2>2, <3>1
  <2>3. CASE q.route = "webhooks"
    <3>1. Handle(q, w) = Reply(N, Reply(P, Reply(B, Reply(U, 200))))
      <4>1. Handle(q, w) = Reply(NPB, Reply(U, 200)) BY Zenon, <1>8, <1>10, <2>3 DEF NP, NPB
      <4>2. \A x : Reply(NPB, x) = Reply(NP, Reply(B, x)) BY Zenon, <1>7 DEF NPB
      <4>3. \A x : Reply(NP, x) = Reply(N, Reply(P, x)) BY Zenon, <1>6 DEF NP
      <4> QED BY <4>1, <4>2, <4>3
    <3> QED BY <1>4, <1>5, <2>3, <3>1
  <2> QED BY <2>1, <2>2, <2>3
<1> QED BY Zenon, <1>9 DEF u, kn, en, bo, pr, st, uk, sk

-----------------------------------------------------------------------------
Answered ==
  /\ world \in Worlds
  /\ answered # 0 => asked \in Queries /\ answered = Handle(asked, world)

\* The routes of a write key, and the webhooks.
LEMMA KeyedSays ==
  ASSUME Answered, answered # 0, asked.route \in Keyed
  PROVE  OutsidersLearnOnlyWhatIsPublic
<1>1. world \in Worlds /\ asked \in Queries /\ answered = Handle(asked, world) BY DEF Answered
<1>2. /\ world.known \in BOOLEAN /\ world.provided \in BOOLEAN /\ world.body \in BOOLEAN
      /\ asked.tenant \in RouteTenants /\ asked.caller \in Principals \cup {Stranger}
  BY <1>1 DEF Worlds, Queries
<1>3. Good(world) => world.known /\ world.provided /\ world.body /\ world.enabled /\ world.stored
  BY DEF Good
<1>4. world = [world EXCEPT !.known = TRUE, !.enabled = TRUE, !.account = "good", !.body = TRUE,
                            !.provided = TRUE, !.stored = TRUE] => Good(world)
  BY <1>1 DEF Worlds, Good
<1>5. asked.route \in {"forms", "webhooks"} => (MayAsk <=> asked.caller.tenant = asked.tenant)
  <2>1. asked.caller.role \in DOMAIN ROLE_RANK BY <1>2 DEF Principals, Stranger, ROLE_RANK
  <2>2. roleSatisfies(asked.caller.role, "viewer") BY <2>1 DEF roleSatisfies, ROLE_RANK
  <2> QED BY <2>2 DEF MayAsk, MinRole, Analysts, Admins
<1>6. asked.route \in {"consent", "ingest"} => (MayAsk <=> asked.caller # Stranger) BY DEF MayAsk
<1>7. CASE asked.route = "forms"
  <2>1. \A w \in Worlds :
          Handle(asked, w) = IF ~w.body THEN 400
                             ELSE IF asked.caller.tenant # asked.tenant \/ ~w.known THEN 401
                             ELSE IF ~w.provided THEN 404 ELSE IF ~w.enabled THEN 400
                             ELSE IF ~w.stored THEN 500 ELSE 200
    BY <1>1, <1>7, KeysAnswer
  <2>2. Public(asked.route) = {"body"} BY <1>7 DEF Public
  <2> QED BY <1>1, <1>2, <1>3, <1>4, <1>5, <1>7, <2>1, <2>2 DEF OutsidersLearnOnlyWhatIsPublic, Keyed
<1>8. CASE asked.route \in {"consent", "ingest"}
  <2>1. \A w \in Worlds :
          Handle(asked, w) = IF ~w.body THEN 400
                             ELSE IF asked.caller = Stranger \/ ~w.known THEN 401
                             ELSE IF ~w.stored THEN 500 ELSE 200
    BY <1>1, <1>8, KeysAnswer
  <2>2. Public(asked.route) = {"body"} BY <1>8 DEF Public
  <2> QED BY <1>1, <1>2, <1>3, <1>4, <1>6, <1>8, <2>1, <2>2 DEF OutsidersLearnOnlyWhatIsPublic, Keyed
<1>9. CASE asked.route = "webhooks"
  <2>1. \A w \in Worlds :
          Handle(asked, w) = IF ~w.known THEN 404 ELSE IF ~w.provided THEN 404
                             ELSE IF ~w.body THEN 400
                             ELSE IF asked.caller.tenant # asked.tenant THEN 401
                             ELSE IF ~w.stored THEN 502 ELSE 200
    BY <1>1, <1>9, KeysAnswer
  <2>2. Public(asked.route) = {"known", "provided", "body"} BY <1>9 DEF Public
  <2> QED BY <1>1, <1>2, <1>3, <1>4, <1>5, <1>9, <2>1, <2>2 DEF OutsidersLearnOnlyWhatIsPublic, Keyed
<1> QED BY <1>7, <1>8, <1>9 DEF Keyed

LEMMA AnsweredSays == Answered => OutsidersLearnOnlyWhatIsPublic
<1> SUFFICES ASSUME Answered, answered # 0 PROVE OutsidersLearnOnlyWhatIsPublic
  BY DEF OutsidersLearnOnlyWhatIsPublic
<1>1. world \in Worlds /\ asked \in Queries /\ answered = Handle(asked, world) BY DEF Answered
<1>2. asked.route \in RouteNames /\ asked.tenant \in RouteTenants BY <1>1 DEF Queries
<1>5. CASE asked.route \in Keyed
  BY <1>5, KeyedSays
<1>6. CASE asked.route \notin Keyed
  <2>0. asked.route \notin {"consent", "ingest", "forms", "webhooks"} BY <1>6 DEF Keyed
  <2>6. MayAsk = May(asked) BY <2>0 DEF MayAsk, May, MinRole, RoleFor
  <2>7. asked.caller = Stranger => ~May(asked)
    BY <1>2, RoutesAssumption DEF May, Stranger
  <2>1. asked.route # "modules" => \A w \in Worlds : Outcome(asked, w, Handle(asked, w))
    <3>1. asked.route \in Analysts \cup Admins \cup {"data"} BY <1>2, <1>6 DEF RouteNames
    <3> QED BY <1>1, <3>1, AnalystsAnswer, AdminsAnswer, DataAnswers
  <2>2. asked.route = "modules" =>
          \A w \in Worlds : \E n : Outcome(asked, w, n)
                                   /\ Handle(asked, w) = IF ~w.provided THEN 400 ELSE n
    BY <1>1, ModulesAnswer
  <2>3. CASE ~MayAsk
    <3>1. \A w \in Worlds : \A n : Outcome(asked, w, n)
                                     => n = IF asked.caller = Stranger THEN 401 ELSE 403
      BY <2>3, <2>6 DEF Outcome
    <3>2. CASE asked.route # "modules"
      <4>1. \A w \in Worlds : Handle(asked, w) = IF asked.caller = Stranger THEN 401 ELSE 403
        BY <2>1, <3>1, <3>2
      <4> QED BY <1>1, <2>3, <4>1 DEF OutsidersLearnOnlyWhatIsPublic
    <3>3. CASE asked.route = "modules"
      <4>1. \A w \in Worlds : Handle(asked, w) = IF ~w.provided THEN 400
                                                 ELSE IF asked.caller = Stranger THEN 401 ELSE 403
        BY <2>2, <3>1, <3>3
      <4>2. Public(asked.route) = {"provided"} BY <3>3 DEF Public
      <4>3. \A w \in Worlds : (\A fact \in Public(asked.route) : w[fact] = world[fact])
                               => w.provided = world.provided
        BY <4>2
      <4> QED BY <1>1, <2>3, <4>1, <4>3 DEF OutsidersLearnOnlyWhatIsPublic
    <3> QED BY <3>2, <3>3
  <2>4. CASE MayAsk
    <3>1. \A n : Outcome(asked, world, n) => n # 401 /\ (Good(world) => n = 200)
      <4>1. May(asked) /\ asked.caller # Stranger BY <2>4, <2>6, <2>7
      <4> SUFFICES ASSUME NEW n, Outcome(asked, world, n)
                   PROVE  n # 401 /\ (Good(world) => n = 200)
        OBVIOUS
      <4>2. PICK rest \in Refusals \cup {200} : (Good(world) => rest = 200) /\ n = rest
        BY <4>1 DEF Outcome
      <4> QED BY <4>2 DEF Refusals
    <3>2. world = [world EXCEPT !.known = TRUE, !.enabled = TRUE, !.account = "good", !.body = TRUE,
                                !.provided = TRUE, !.stored = TRUE] => Good(world)
      BY <1>1 DEF Worlds, Good
    <3>3. answered # 401 /\ (Good(world) => answered = 200)
      <4>1. CASE asked.route # "modules" BY <1>1, <2>1, <3>1, <4>1
      <4>2. CASE asked.route = "modules" BY <1>1, <2>2, <3>1, <4>2 DEF Good
      <4> QED BY <4>1, <4>2
    <3> QED BY <1>6, <2>4, <3>2, <3>3 DEF OutsidersLearnOnlyWhatIsPublic
  <2> QED BY <2>3, <2>4
<1> QED BY <1>5, <1>6

\* buildServer and the handlers' chains of early returns, for any tenants: whoever has no
\* token or key, or one of another tenant, or too low a role, is always refused, and
\* learns no more than `Public` says of the kind of route: on the tenants' routes nothing,
\* with a write key whether the body parses, of an unsigned webhook also whether tenant
\* and provider are there.  Whoever may ask is refused only for what it asked or the
\* tenant lacks.
THEOREM OutsidersAreToldWhatIsPublic == RoutesSpec => []OutsidersLearnOnlyWhatIsPublic
<1>1. RoutesInit => Answered BY DEF RoutesInit, Answered
<1>2. Answered /\ [RoutesNext]_routeVars => Answered'
  <2> SUFFICES ASSUME Answered, [RoutesNext]_routeVars PROVE Answered'
    OBVIOUS
  <2>1. CASE UNCHANGED routeVars BY <2>1 DEF routeVars, Answered
  <2>2. ASSUME NEW route \in RouteNames, NEW caller \in Principals \cup {Stranger},
               NEW t \in RouteTenants, Ask(route, caller, t)
        PROVE  Answered'
    <3>1. asked' \in Queries BY <2>2 DEF Ask, Queries
    <3>2. world' = world /\ answered' = Handle(asked', world) BY <2>2 DEF Ask
    <3> QED BY <3>1, <3>2 DEF Answered
  <2> QED BY <2>1, <2>2 DEF RoutesNext
<1> QED BY <1>1, <1>2, AnsweredSays, PTL DEF RoutesSpec

-----------------------------------------------------------------------------
(* Schedules.                                                              *)

\* A field of the clock lies in the range of its field.
LEMMA ClockInRange ==
  ASSUME NEW t \in Nat, NEW i \in 1..5
  PROVE  Clock(t)[i] \in Low[i]..High[i]
<1>1. \A n \in Nat, m \in Nat \ {0} : n % m \in 0..(m - 1) /\ n \div m \in Nat OBVIOUS
<1>2. /\ Minutes \in Nat \ {0} /\ Hours \in Nat \ {0} /\ Days \in Nat \ {0}
      /\ Months \in Nat \ {0} /\ Weekdays \in Nat \ {0}
  BY CronAssumption
<1>3. Minutes * Hours \in Nat \ {0} BY <1>2
<1>4. Day(t) \in Nat BY <1>1, <1>3 DEF Day
<1>5. t \div Minutes \in Nat /\ Day(t) \div Days \in Nat BY <1>1, <1>2, <1>4
<1>6. /\ t % Minutes \in 0..(Minutes - 1)
      /\ (t \div Minutes) % Hours \in 0..(Hours - 1)
      /\ Day(t) % Days \in 0..(Days - 1)
      /\ (Day(t) \div Days) % Months \in 0..(Months - 1)
      /\ Day(t) % Weekdays \in 0..(Weekdays - 1)
  BY <1>1, <1>2, <1>4, <1>5
<1> DEFINE a == t % Minutes
           b == (t \div Minutes) % Hours
           c == Day(t) % Days
           d == (Day(t) \div Days) % Months
           e == Day(t) % Weekdays
<1>7. Clock(t) = <<a, b, 1 + c, 1 + d, e>> BY DEF Clock
<1> HIDE DEF a, b, c, d, e
<1>8. /\ a \in 0..(Minutes - 1) /\ b \in 0..(Hours - 1) /\ 1 + c \in 1..Days /\ 1 + d \in 1..Months
      /\ e \in 0..(Weekdays - 1)
  BY <1>2, <1>6 DEF a, b, c, d, e
<1>9. /\ Clock(t)[1] = a /\ Clock(t)[2] = b /\ Clock(t)[3] = 1 + c /\ Clock(t)[4] = 1 + d /\ Clock(t)[5] = e
  BY <1>7
<1>10. /\ Low[1] = 0 /\ Low[2] = 0 /\ Low[3] = 1 /\ Low[4] = 1 /\ Low[5] = 0
       /\ High[1] = Minutes - 1 /\ High[2] = Hours - 1 /\ High[3] = Days /\ High[4] = Months
       /\ High[5] = Weekdays - 1
  BY DEF Low, High
<1> HIDE DEF Clock
<1>11. i = 1 \/ i = 2 \/ i = 3 \/ i = 4 \/ i = 5 OBVIOUS
<1> QED BY <1>8, <1>9, <1>10, <1>11

\* A part holds a value: what it means, without the set it is parsed into.
Holds(part, i, v) ==
  IF part.star THEN (v - Low[i]) % part.step = 0
  ELSE part.from <= v /\ v <= part.to /\ (v - part.from) % part.step = 0

LEMMA PartMeaning ==
  ASSUME NEW part \in Parts, NEW i \in 1..5, NEW v \in Low[i]..High[i]
  PROVE  v \in addPart(part, i) <=> Holds(part, i, v)
<1>1. Low[i] \in Int /\ High[i] \in Int
  <2>1. Minutes \in Nat /\ Hours \in Nat /\ Days \in Nat /\ Months \in Nat /\ Weekdays \in Nat
    BY CronAssumption
  <2> QED BY <2>1 DEF Low, High
<1>2. CASE part.star
  <2>1. FieldBounds(part, i)[1] = Low[i] /\ FieldBounds(part, i)[2] = High[i]
    BY <1>2 DEF FieldBounds
  <2> QED BY <1>1, <1>2, <2>1 DEF addPart, Holds
<1>3. CASE ~part.star
  <2>1. FieldBounds(part, i)[1] = part.from /\ FieldBounds(part, i)[2] = part.to
    BY <1>3 DEF FieldBounds
  <2>2. part.from \in Int /\ part.to \in Int /\ v \in Int BY <1>1 DEF Parts
  <2> QED BY <1>3, <2>1, <2>2 DEF addPart, Holds
<1> QED BY <1>2, <1>3 DEF Parts

\* parseCron and matchesMinute do what the expression says.
LEMMA MatchIsDue ==
  ASSUME NEW e \in Exprs, NEW t \in Nat
  PROVE  matchesMinute(e, t) <=> Due(e, t)
<1>1. ASSUME NEW i \in 1..5, \A k \in DOMAIN e[i] : GoodPart(e[i][k], i)
      PROVE  Clock(t)[i] \in parseField(e[i], i) <=> \E k \in DOMAIN e[i] : Holds(e[i][k], i, Clock(t)[i])
  <2>1. Clock(t)[i] \in Low[i]..High[i] BY ClockInRange
  <2>2. \A k \in DOMAIN e[i] : e[i][k] \in Parts BY CronAssumption
  <2>3. \A k \in DOMAIN e[i] : Clock(t)[i] \in addPart(e[i][k], i) <=> Holds(e[i][k], i, Clock(t)[i])
    BY <2>1, <2>2, PartMeaning
  <2>4. Clock(t)[i] \in parseField(e[i], i) <=> \E k \in DOMAIN e[i] : Clock(t)[i] \in addPart(e[i][k], i)
    BY <1>1 DEF parseField
  <2> QED BY <2>3, <2>4
<1>2. Due(e, t) <=> \A i \in 1..5 : /\ \A k \in DOMAIN e[i] : GoodPart(e[i][k], i)
                                    /\ \E k \in DOMAIN e[i] : Holds(e[i][k], i, Clock(t)[i])
  BY Zenon DEF Due, Holds
<1> QED BY <1>1, <1>2 DEF matchesMinute, Valid

-----------------------------------------------------------------------------
\* The runs so far are the minutes due among those tried.
DueIn(from, to) == {t \in (from + 1)..to : Due(expr, t)}

CronTypes ==
  /\ expr \in Exprs \cup {<<>>} /\ start \in Nat /\ cursor \in Nat /\ tried \in Nat
  /\ runs \in Seq(Nat) /\ gaveUp \in BOOLEAN

RunsSoFar ==
  /\ expr = <<>> => runs = <<>> /\ cursor = start /\ tried = 0 /\ ~gaveUp
  /\ start <= cursor
  /\ {runs[k] : k \in DOMAIN runs} = DueIn(start, cursor + tried)
  /\ \A k \in DOMAIN runs : runs[k] <= cursor
  /\ \A k \in 2..Len(runs) : runs[k - 1] < runs[k]

CronInv == CronTypes /\ RunsSoFar

LEMMA CronStart == CronInit => CronInv
<1> SUFFICES ASSUME CronInit PROVE CronInv
  OBVIOUS
<1>1. /\ expr = <<>> /\ start = 0 /\ cursor = 0 /\ tried = 0 /\ runs = <<>> /\ gaveUp = FALSE
  BY DEF CronInit
<1>2. CronTypes
  <2>1. runs = <<>> /\ <<>> \in Seq(Nat) BY DEF CronInit
  <2>3. gaveUp \in BOOLEAN BY <1>1
  <2>2. expr \in Exprs \cup {<<>>} BY Zenon, <1>1
  <2> QED BY <1>1, <2>1, <2>2, <2>3 DEF CronTypes
<1>3. DueIn(start, cursor + tried) = {} BY <1>1 DEF DueIn
<1>4. DOMAIN runs = {} /\ Len(runs) = 0 BY <1>1
<1> QED BY <1>1, <1>2, <1>3, <1>4 DEF CronInv, RunsSoFar

LEMMA ScheduleStep ==
  ASSUME CronInv, NEW e \in Exprs, NEW at \in Nat, Schedule(e, at)
  PROVE  CronInv'
<1>1. e # <<>> BY CronAssumption
<1>2. runs = <<>> /\ tried = 0 /\ ~gaveUp BY DEF Schedule, CronInv, RunsSoFar
<1> QED BY <1>1, <1>2 DEF Schedule, CronInv, CronTypes, RunsSoFar, DueIn

LEMMA FoundStep ==
  ASSUME CronInv, Found
  PROVE  CronInv'
<1>1. /\ expr \in Exprs /\ start \in Nat /\ cursor \in Nat /\ tried \in Nat /\ runs \in Seq(Nat)
      /\ start <= cursor /\ gaveUp \in BOOLEAN
  BY DEF CronInv, CronTypes, RunsSoFar, Found, Searching
<1> DEFINE c == cursor + tried + 1
<1>2. /\ c \in Nat /\ c > cursor + tried /\ c >= cursor /\ Due(expr, c)
  BY <1>1, MatchIsDue DEF Found, Candidate
<1>3. /\ runs' = Append(runs, c) /\ cursor' = c /\ tried' = 0 /\ UNCHANGED <<expr, start, gaveUp>>
  BY DEF Found, Candidate
<1>4. expr # <<>> BY DEF Found, Searching
<1>5. DueIn(start, cursor + tried)' = DueIn(start, c)
  BY <1>1, <1>3 DEF DueIn
<1>6. DueIn(start, c) = DueIn(start, cursor + tried) \cup {c} BY <1>1, <1>2 DEF DueIn
<1>7. /\ Len(runs) \in Nat /\ DOMAIN runs = 1..Len(runs) /\ \A k \in 1..Len(runs) : runs[k] \in Nat
  BY <1>1
<1> HIDE DEF c
<1>8. /\ runs' \in Seq(Nat) /\ Len(runs') = Len(runs) + 1 /\ DOMAIN runs' = 1..(Len(runs) + 1)
      /\ \A k \in 1..Len(runs) : runs'[k] = runs[k]
      /\ runs'[Len(runs) + 1] = c
  BY <1>1, <1>2, <1>3
<1>9. {runs'[k] : k \in DOMAIN runs'} = {runs[k] : k \in DOMAIN runs} \cup {c} BY <1>7, <1>8
<1>10. \A k \in DOMAIN runs : runs[k] <= cursor /\ runs[k] < c
  BY <1>1, <1>2, <1>7 DEF CronInv, RunsSoFar
<1>11. \A k \in DOMAIN runs' : runs'[k] <= c BY <1>2, <1>7, <1>8, <1>10
<1>12. \A k \in 2..Len(runs') : runs'[k - 1] < runs'[k]
  <2> SUFFICES ASSUME NEW k \in 2..Len(runs') PROVE runs'[k - 1] < runs'[k]
    OBVIOUS
  <2>1. k - 1 \in 1..Len(runs) /\ runs'[k - 1] = runs[k - 1] BY <1>7, <1>8
  <2>2. CASE k = Len(runs) + 1 BY <1>7, <1>8, <1>10, <2>1, <2>2
  <2>3. CASE k # Len(runs) + 1
    <3>1. k \in 2..Len(runs) /\ runs'[k] = runs[k] BY <1>7, <1>8, <2>3
    <3> QED BY <2>1, <3>1 DEF CronInv, RunsSoFar
  <2> QED BY <2>2, <2>3
<1>13. CronTypes' BY <1>1, <1>2, <1>3, <1>8 DEF CronTypes
<1>14. {runs'[k] : k \in DOMAIN runs'} = DueIn(start, cursor + tried)'
  BY <1>5, <1>6, <1>9 DEF CronInv, RunsSoFar
<1>15. start' <= cursor' BY <1>1, <1>2, <1>3
<1> QED BY <1>3, <1>4, <1>11, <1>12, <1>13, <1>14, <1>15 DEF CronInv, RunsSoFar

LEMMA TryStep ==
  ASSUME CronInv, TryNext
  PROVE  CronInv'
<1>1. /\ expr \in Exprs /\ start \in Nat /\ cursor \in Nat /\ tried \in Nat /\ start <= cursor
  BY DEF CronInv, CronTypes, RunsSoFar, TryNext, Searching
<1>2. ~Due(expr, cursor + tried + 1) BY <1>1, MatchIsDue DEF TryNext, Candidate
<1>3. tried' = tried + 1 /\ UNCHANGED <<expr, start, cursor, runs, gaveUp>> /\ expr # <<>>
  BY DEF TryNext, Searching
<1>4. DueIn(start, cursor + tried)' = DueIn(start, cursor + tried + 1) BY <1>1, <1>3 DEF DueIn
<1>5. DueIn(start, cursor + tried + 1) = DueIn(start, cursor + tried) BY <1>1, <1>2 DEF DueIn
<1>6. CronTypes' BY <1>1, <1>3 DEF CronInv, CronTypes
<1> QED BY <1>3, <1>4, <1>5, <1>6 DEF CronInv, RunsSoFar

LEMMA CronStep ==
  ASSUME CronInv, [CronNext]_cronVars
  PROVE  CronInv'
<1>1. ASSUME NEW e \in Exprs, NEW at \in 0..(Minutes * Hours), Schedule(e, at) PROVE CronInv'
  <2>1. at \in Nat OBVIOUS
  <2> QED BY <1>1, <2>1, ScheduleStep
<1>2. CASE Found BY <1>2, FoundStep
<1>3. CASE TryNext BY <1>3, TryStep
<1>4. CASE GiveUp
  <2>1. expr # <<>> /\ gaveUp' = TRUE /\ UNCHANGED <<expr, start, cursor, tried, runs>>
    BY <1>4 DEF GiveUp, Searching
  <2> QED BY <2>1 DEF CronInv, CronTypes, RunsSoFar, DueIn
<1>5. CASE UNCHANGED cronVars BY <1>5 DEF cronVars, CronInv, CronTypes, RunsSoFar, DueIn
<1> QED BY <1>1, <1>2, <1>3, <1>4, <1>5 DEF CronNext

LEMMA CronSays == CronInv => RunsAreTheDueMinutes
<1> SUFFICES ASSUME CronInv PROVE RunsAreTheDueMinutes
  OBVIOUS
<1>1. start \in Nat /\ cursor \in Nat /\ tried \in Nat /\ start <= cursor /\ gaveUp \in BOOLEAN
  BY DEF CronInv, CronTypes, RunsSoFar
<1>2. DueIn(start, cursor + tried) = DueIn(start, cursor)
  <2>1. \A t \in DueIn(start, cursor + tried) : t <= cursor
    BY <1>1 DEF CronInv, RunsSoFar
  <2> QED BY <1>1, <2>1 DEF DueIn
<1>3. Candidate - 1 = cursor + tried BY <1>1 DEF Candidate
<1> DEFINE done == IF gaveUp THEN Candidate - 1 ELSE cursor
<1>4. DueIn(start, done) = DueIn(start, cursor + tried) BY <1>2, <1>3
<1> HIDE DEF done
<1>5. /\ {runs[k] : k \in DOMAIN runs} = DueIn(start, done)
      /\ \A k \in 2..Len(runs) : runs[k - 1] < runs[k]
  BY <1>4 DEF CronInv, RunsSoFar
<1> QED BY Zenon, <1>5 DEF RunsAreTheDueMinutes, DueIn, done

\* parseCron, matchesMinute and nextRun, for every calendar, horizon and expression:
\* a chain of searches finds the due minutes, all of them, in order and each once,
\* and a search gives up only where none is due within the horizon.
THEOREM SearchesFindTheDueMinutes == CronSpec => []RunsAreTheDueMinutes
BY CronStart, CronStep, CronSays, PTL DEF CronSpec

-----------------------------------------------------------------------------
(* The stores in memory and the tables.                                    *)

Rows == [id : People, tenant : Holders, cookie : Cookies, login : Logins \cup {NoLogin}, createdAt : Nat]
Fields == {"tenants", "tokens", "profiles", "suppressed", "usage"}
Told == {"ok", "throws", "undefined"}

\* Memory has the tenants of the tables, and the demo tenant.
SameTenants ==
  /\ DOMAIN memory.tenants = DOMAIN database.tenants \cup {Demo} /\ DOMAIN database.tenants \subseteq Holders
  /\ memory.tenants[Demo].writeKey = Demo
  /\ \A t \in DOMAIN database.tenants : memory.tenants[t] = database.tenants[t]

\* The profiles in memory, each id once, are the rows of the table.
SameProfiles ==
  /\ memory.profiles \in Seq(Rows)
  /\ \A j, k \in DOMAIN memory.profiles : memory.profiles[j].id = memory.profiles[k].id => j = k
  /\ DOMAIN database.profiles = {memory.profiles[k].id : k \in DOMAIN memory.profiles}
  /\ \A k \in DOMAIN memory.profiles : database.profiles[memory.profiles[k].id] = memory.profiles[k]

\* What the table does not count is counted as nothing.
SameUsage ==
  /\ DOMAIN database.usage \subseteq DOMAIN memory.usage
  /\ \A k \in DOMAIN memory.usage :
       memory.usage[k] = IF k \in DOMAIN database.usage THEN database.usage[k] ELSE 0
  /\ \A k \in DOMAIN memory.usage : memory.usage[k] \in Int

StoreTypes ==
  /\ DOMAIN memory = Fields /\ DOMAIN database = Fields
  /\ month \in Nat /\ calls \in Nat /\ told.memory = told.database

StoresInv ==
  /\ StoreTypes /\ SameTenants /\ memory.tokens = database.tokens /\ SameProfiles
  /\ memory.suppressed = database.suppressed /\ SameUsage

LEMMA BackendsStart == BackendsInit => StoresInv
<1> SUFFICES ASSUME BackendsInit PROVE StoresInv
  OBVIOUS
<1>1. DOMAIN Empty = Fields /\ Empty.tenants = <<>> /\ Empty.tokens = <<>> /\ Empty.profiles = <<>>
      /\ Empty.suppressed = <<>> /\ Empty.usage = <<>>
  BY DEF Empty, Void, Fields
<1>2. /\ database = Empty /\ month = 1 /\ calls = 0 /\ told = [memory |-> "ok", database |-> "ok"]
      /\ memory = [Empty EXCEPT !.tenants = [t \in {Demo} |-> DemoAccount]]
  BY DEF BackendsInit
<1>3. /\ DOMAIN memory = Fields /\ memory.tenants = [t \in {Demo} |-> DemoAccount]
      /\ memory.tokens = <<>> /\ memory.profiles = <<>> /\ memory.suppressed = <<>> /\ memory.usage = <<>>
  BY <1>1, <1>2 DEF Fields
<1>4. /\ DOMAIN database = Fields /\ database.tenants = <<>> /\ database.tokens = <<>>
      /\ database.profiles = <<>> /\ database.suppressed = <<>> /\ database.usage = <<>>
  BY <1>1, <1>2
<1>5. StoreTypes BY <1>2, <1>3, <1>4 DEF StoreTypes
<1>6. SameTenants BY <1>3, <1>4 DEF SameTenants, DemoAccount
<1>7. SameProfiles BY <1>3, <1>4 DEF SameProfiles
<1>8. SameUsage BY <1>3, <1>4 DEF SameUsage
<1> QED BY <1>3, <1>4, <1>5, <1>6, <1>7, <1>8 DEF StoresInv

\* A call that changes only the tenants of both sides.
LEMMA OnlyTenants ==
  ASSUME StoresInv, NEW x, NEW y,
         DOMAIN memory' = Fields, DOMAIN database' = Fields,
         memory'.tenants = x, database'.tenants = y,
         told'.memory = told'.database, calls' = calls + 1, UNCHANGED month,
         \A f \in Fields \ {"tenants"} : memory'[f] = memory[f] /\ database'[f] = database[f],
         DOMAIN x = DOMAIN y \cup {Demo}, DOMAIN y \subseteq Holders, x[Demo].writeKey = Demo,
         \A t \in DOMAIN y : x[t] = y[t]
  PROVE  StoresInv'
<1>1. /\ memory'.tokens = memory.tokens /\ database'.tokens = database.tokens
      /\ memory'.profiles = memory.profiles /\ database'.profiles = database.profiles
      /\ memory'.suppressed = memory.suppressed /\ database'.suppressed = database.suppressed
      /\ memory'.usage = memory.usage /\ database'.usage = database.usage
  BY DEF Fields
<1>2. StoreTypes' BY DEF StoresInv, StoreTypes
<1>3. SameTenants' BY DEF SameTenants
<1>4. SameProfiles' BY <1>1 DEF StoresInv, SameProfiles
<1>5. SameUsage' BY <1>1 DEF StoresInv, SameUsage
<1> QED BY <1>1, <1>2, <1>3, <1>4, <1>5 DEF StoresInv

LEMMA CreateStep ==
  ASSUME StoresInv, NEW t \in Holders, NEW k \in WriteKeys, CreateTenantAccount(t, k)
  PROVE  StoresInv'
<1> DEFINE mt == memory.tenants
           dt == database.tenants
           a == buildTenantAccount(k)
           mTaken == t \in DOMAIN mt \/ KeyTaken(mt, k)
           dTaken == t \in DOMAIN dt \/ KeyTaken(dt, k)
           mt2 == Put(mt, t, a)
           dt2 == Put(dt, t, a)
<1>1. Call(IF mTaken THEN memory ELSE [memory EXCEPT !.tenants = mt2],
           IF dTaken THEN database ELSE [database EXCEPT !.tenants = dt2],
           IF mTaken THEN "throws" ELSE "ok", IF dTaken THEN "throws" ELSE "ok")
  BY DEF CreateTenantAccount
<1>2. /\ DOMAIN mt = DOMAIN dt \cup {Demo} /\ DOMAIN dt \subseteq Holders /\ mt[Demo].writeKey = Demo
      /\ \A u \in DOMAIN dt : mt[u] = dt[u]
  BY DEF StoresInv, SameTenants
<1>3. t # Demo /\ k # Demo /\ Demo \notin DOMAIN dt BY <1>2, DemoAssumption
<1>4. mTaken <=> dTaken BY <1>2, <1>3 DEF KeyTaken
<1>5. DOMAIN memory = Fields /\ DOMAIN database = Fields BY DEF StoresInv, StoreTypes
<1> HIDE DEF a, mTaken, dTaken
<1>6. told'.memory = told'.database /\ calls' = calls + 1 /\ UNCHANGED month BY <1>1, <1>4 DEF Call
<1>7. CASE mTaken
  <2>1. memory' = memory /\ database' = database BY <1>1, <1>4, <1>7 DEF Call
  <2>2. \A f \in Fields \ {"tenants"} : memory'[f] = memory[f] /\ database'[f] = database[f] BY <2>1
  <2>3. memory'.tenants = mt /\ database'.tenants = dt BY <2>1
  <2> HIDE DEF mt, dt
  <2> QED BY <1>2, <1>5, <1>6, <2>1, <2>2, <2>3, OnlyTenants
<1>8. CASE ~mTaken
  <2>1. memory' = [memory EXCEPT !.tenants = mt2] /\ database' = [database EXCEPT !.tenants = dt2]
    BY <1>1, <1>4, <1>8 DEF Call
  <2> HIDE DEF mt, dt
  <2>2. /\ DOMAIN mt2 = {t} \cup DOMAIN mt /\ DOMAIN dt2 = {t} \cup DOMAIN dt
        /\ mt2[t] = a /\ dt2[t] = a
        /\ \A u \in DOMAIN mt : u # t => mt2[u] = mt[u]
        /\ \A u \in DOMAIN dt : u # t => dt2[u] = dt[u]
    BY DEF Put
  <2> HIDE DEF mt2, dt2
  <2>3. /\ DOMAIN memory' = Fields /\ DOMAIN database' = Fields
        /\ memory'.tenants = mt2 /\ database'.tenants = dt2
        /\ \A f \in Fields \ {"tenants"} : memory'[f] = memory[f] /\ database'[f] = database[f]
    BY <1>5, <2>1 DEF Fields
  <2>4. /\ DOMAIN mt2 = DOMAIN dt2 \cup {Demo} /\ DOMAIN dt2 \subseteq Holders /\ mt2[Demo].writeKey = Demo
        /\ \A u \in DOMAIN dt2 : mt2[u] = dt2[u]
    BY <1>2, <1>3, <2>2
  <2> QED BY <1>6, <2>3, <2>4, OnlyTenants
<1> QED BY <1>7, <1>8

LEMMA EnableStep ==
  ASSUME StoresInv, NEW t \in Holders, NEW module, EnableTenantModule(t, module)
  PROVE  StoresInv'
<1> DEFINE mt == memory.tenants
           dt == database.tenants
           mt2 == [mt EXCEPT ![t].modules = @ \cup {module}]
           dt2 == [dt EXCEPT ![t].modules = @ \cup {module}]
<1>1. Call(IF t \in DOMAIN mt THEN [memory EXCEPT !.tenants = mt2] ELSE memory,
           IF t \in DOMAIN dt THEN [database EXCEPT !.tenants = dt2] ELSE database,
           IF t \in DOMAIN mt THEN "ok" ELSE "undefined", IF t \in DOMAIN dt THEN "ok" ELSE "undefined")
  BY DEF EnableTenantModule
<1>2. /\ DOMAIN mt = DOMAIN dt \cup {Demo} /\ DOMAIN dt \subseteq Holders /\ mt[Demo].writeKey = Demo
      /\ \A u \in DOMAIN dt : mt[u] = dt[u]
  BY DEF StoresInv, SameTenants
<1>3. t # Demo /\ Demo \notin DOMAIN dt BY <1>2, DemoAssumption
<1>4. t \in DOMAIN mt <=> t \in DOMAIN dt BY <1>2, <1>3
<1>5. DOMAIN memory = Fields /\ DOMAIN database = Fields BY DEF StoresInv, StoreTypes
<1>6. told'.memory = told'.database /\ calls' = calls + 1 /\ UNCHANGED month BY <1>1, <1>4 DEF Call
<1>7. CASE t \notin DOMAIN mt
  <2>1. memory' = memory /\ database' = database BY <1>1, <1>4, <1>7 DEF Call
  <2>2. \A f \in Fields \ {"tenants"} : memory'[f] = memory[f] /\ database'[f] = database[f] BY <2>1
  <2>3. memory'.tenants = mt /\ database'.tenants = dt BY <2>1
  <2> HIDE DEF mt, dt
  <2> QED BY <1>2, <1>5, <1>6, <2>1, <2>2, <2>3, OnlyTenants
<1>8. CASE t \in DOMAIN mt
  <2>1. memory' = [memory EXCEPT !.tenants = mt2] /\ database' = [database EXCEPT !.tenants = dt2]
    BY <1>1, <1>4, <1>8 DEF Call
  <2> HIDE DEF mt, dt
  <2>2. /\ DOMAIN mt2 = DOMAIN dt2 \cup {Demo} /\ DOMAIN dt2 \subseteq Holders /\ mt2[Demo].writeKey = Demo
        /\ \A u \in DOMAIN dt2 : mt2[u] = dt2[u]
    BY <1>2, <1>3, <1>4, <1>8
  <2> HIDE DEF mt2, dt2
  <2>3. /\ DOMAIN memory' = Fields /\ DOMAIN database' = Fields
        /\ memory'.tenants = mt2 /\ database'.tenants = dt2
        /\ \A f \in Fields \ {"tenants"} : memory'[f] = memory[f] /\ database'[f] = database[f]
    BY <1>5, <2>1 DEF Fields
  <2> QED BY <1>6, <2>2, <2>3, OnlyTenants
<1> QED BY <1>7, <1>8

\* A call that leaves the tenants alone.
LEMMA OtherCalls ==
  ASSUME StoresInv, DOMAIN memory' = Fields, DOMAIN database' = Fields,
         told'.memory = told'.database, calls' = calls + 1, UNCHANGED month,
         memory'.tenants = memory.tenants, database'.tenants = database.tenants,
         memory'.tokens = database'.tokens, memory'.suppressed = database'.suppressed,
         SameProfiles', SameUsage'
  PROVE  StoresInv'
<1>1. StoreTypes' BY DEF StoresInv, StoreTypes
<1>2. SameTenants' BY DEF StoresInv, SameTenants
<1> QED BY <1>1, <1>2 DEF StoresInv

LEMMA IssueStep ==
  ASSUME StoresInv, NEW token, NEW t \in Holders, NEW role, Issue(token, t, role)
  PROVE  StoresInv'
<1> DEFINE principal == [tenant |-> t, role |-> role]
           p == Put(memory.tokens, token, principal)
<1>1. DOMAIN memory = Fields /\ DOMAIN database = Fields BY DEF StoresInv, StoreTypes
<1>2. t \in DOMAIN database.tenants /\ memory.tokens = database.tokens
      /\ token \notin DOMAIN database.tokens
  BY DemoAssumption DEF StoresInv, SameTenants, Issue
<1>3. Call([memory EXCEPT !.tokens = p], [database EXCEPT !.tokens = p], "ok", "ok")
  BY <1>2 DEF Issue
<1> HIDE DEF p
<1>4. /\ memory' = [memory EXCEPT !.tokens = p] /\ database' = [database EXCEPT !.tokens = p]
      /\ told'.memory = told'.database /\ calls' = calls + 1 /\ UNCHANGED month
  BY <1>3 DEF Call
<1>5. /\ DOMAIN memory' = Fields /\ DOMAIN database' = Fields
      /\ memory'.tenants = memory.tenants /\ database'.tenants = database.tenants
      /\ memory'.tokens = p /\ database'.tokens = p
      /\ memory'.suppressed = memory.suppressed /\ database'.suppressed = database.suppressed
      /\ memory'.profiles = memory.profiles /\ database'.profiles = database.profiles
      /\ memory'.usage = memory.usage /\ database'.usage = database.usage
  BY <1>1, <1>4 DEF Fields
<1>6. SameProfiles' BY <1>5 DEF StoresInv, SameProfiles
<1>7. SameUsage' BY <1>5 DEF StoresInv, SameUsage
<1>8. memory'.suppressed = database'.suppressed BY <1>5 DEF StoresInv
<1> QED BY <1>4, <1>5, <1>6, <1>7, <1>8, OtherCalls

LEMMA SuppressStep ==
  ASSUME StoresInv, NEW spelling, NEW reason, AddSuppression(spelling, reason)
  PROVE  StoresInv'
<1> DEFINE p == Put(memory.suppressed, Spellings[spelling], reason)
<1>1. DOMAIN memory = Fields /\ DOMAIN database = Fields BY DEF StoresInv, StoreTypes
<1>2. memory.suppressed = database.suppressed BY DEF StoresInv
<1>3. Call([memory EXCEPT !.suppressed = p], [database EXCEPT !.suppressed = p], "ok", "ok")
  BY <1>2 DEF AddSuppression
<1> HIDE DEF p
<1>4. /\ memory' = [memory EXCEPT !.suppressed = p] /\ database' = [database EXCEPT !.suppressed = p]
      /\ told'.memory = told'.database /\ calls' = calls + 1 /\ UNCHANGED month
  BY <1>3 DEF Call
<1>5. /\ DOMAIN memory' = Fields /\ DOMAIN database' = Fields
      /\ memory'.tenants = memory.tenants /\ database'.tenants = database.tenants
      /\ memory'.tokens = memory.tokens /\ database'.tokens = database.tokens
      /\ memory'.suppressed = p /\ database'.suppressed = p
      /\ memory'.profiles = memory.profiles /\ database'.profiles = database.profiles
      /\ memory'.usage = memory.usage /\ database'.usage = database.usage
  BY <1>1, <1>4 DEF Fields
<1>6. SameProfiles' BY <1>5 DEF StoresInv, SameProfiles
<1>7. SameUsage' BY <1>5 DEF StoresInv, SameUsage
<1>8. memory'.tokens = database'.tokens BY <1>5 DEF StoresInv
<1> QED BY <1>4, <1>5, <1>6, <1>7, <1>8, OtherCalls

LEMMA UsageStep ==
  ASSUME StoresInv, NEW t \in Holders, NEW n \in Int, RecordUsage(t, n)
  PROVE  StoresInv'
<1> DEFINE place == <<t, month>>
           mu == memory.usage
           du == database.usage
           mCount == IF place \in DOMAIN mu THEN mu[place] ELSE 0
           dCount == IF place \in DOMAIN du THEN du[place] ELSE 0
           delta == Max({n, 0})
           mu2 == Put(mu, place, mCount + delta)
           du2 == IF n <= 0 THEN du ELSE Put(du, place, dCount + n)
<1>1. DOMAIN memory = Fields /\ DOMAIN database = Fields BY DEF StoresInv, StoreTypes
<1>2. delta = IF n <= 0 THEN 0 ELSE n BY DEF Max
<1>3. Call([memory EXCEPT !.usage = mu2],
           IF n <= 0 THEN database ELSE [database EXCEPT !.usage = Put(du, place, dCount + n)], "ok", "ok")
  BY DEF RecordUsage
<1>4. /\ memory' = [memory EXCEPT !.usage = mu2]
      /\ database' = IF n <= 0 THEN database ELSE [database EXCEPT !.usage = Put(du, place, dCount + n)]
      /\ told'.memory = told'.database /\ calls' = calls + 1 /\ UNCHANGED month
  BY <1>3 DEF Call
<1>5. /\ DOMAIN du \subseteq DOMAIN mu
      /\ \A k \in DOMAIN mu : mu[k] = IF k \in DOMAIN du THEN du[k] ELSE 0
      /\ \A k \in DOMAIN mu : mu[k] \in Int
  BY DEF StoresInv, SameUsage
<1>6. mCount \in Int /\ mCount = dCount BY <1>5
<1>7. (place \notin DOMAIN du => dCount = 0) /\ (place \in DOMAIN du => dCount = du[place]) OBVIOUS
<1> HIDE DEF delta, mCount, dCount, place
<1>8. /\ DOMAIN memory' = Fields /\ DOMAIN database' = Fields
      /\ memory'.tenants = memory.tenants /\ database'.tenants = database.tenants
      /\ memory'.tokens = memory.tokens /\ database'.tokens = database.tokens
      /\ memory'.suppressed = memory.suppressed /\ database'.suppressed = database.suppressed
      /\ memory'.profiles = memory.profiles /\ database'.profiles = database.profiles
      /\ memory'.usage = mu2 /\ database'.usage = du2
  <2>1. /\ DOMAIN memory' = Fields /\ memory'.tenants = memory.tenants /\ memory'.tokens = memory.tokens
        /\ memory'.suppressed = memory.suppressed /\ memory'.profiles = memory.profiles
        /\ memory'.usage = mu2
    <3> HIDE DEF mu2
    <3> QED BY <1>1, <1>4 DEF Fields
  <2>2. CASE n <= 0
    <3>1. database' = database BY <1>4, <2>2
    <3> QED BY <1>1, <2>1, <2>2, <3>1
  <2>3. CASE n > 0
    <3> DEFINE p == Put(du, place, dCount + n)
    <3>1. du2 = p BY <2>3
    <3>2. database' = [database EXCEPT !.usage = p] BY <1>4, <2>3
    <3> HIDE DEF p, du2, mu2
    <3> QED BY <1>1, <2>1, <3>1, <3>2 DEF Fields
  <2> QED BY <2>2, <2>3
<1> HIDE DEF mu, du
<1>9. /\ DOMAIN mu2 = {place} \cup DOMAIN mu /\ mu2[place] = mCount + delta
      /\ \A k \in DOMAIN mu : k # place => mu2[k] = mu[k]
  BY DEF Put
<1>10. ASSUME n > 0
       PROVE  /\ DOMAIN du2 = {place} \cup DOMAIN du /\ du2[place] = dCount + n
              /\ \A k \in DOMAIN du : k # place => du2[k] = du[k]
  <2>1. du2 = Put(du, place, dCount + n) BY <1>10
  <2> HIDE DEF du2
  <2> QED BY <2>1 DEF Put
<1>11. n <= 0 => du2 = du OBVIOUS
<1> HIDE DEF mu2, du2
<1>12. /\ DOMAIN du2 \subseteq DOMAIN mu2
       /\ \A k \in DOMAIN mu2 : mu2[k] = IF k \in DOMAIN du2 THEN du2[k] ELSE 0
       /\ \A k \in DOMAIN mu2 : mu2[k] \in Int
  <2>1. CASE n <= 0
    <3>1. mu2[place] = mCount BY <1>2, <1>6, <1>9, <2>1
    <3> QED BY <1>5, <1>6, <1>7, <1>9, <1>11, <2>1, <3>1
  <2>2. CASE n > 0
    <3>1. mu2[place] = dCount + n /\ dCount + n \in Int BY <1>2, <1>6, <1>9, <2>2
    <3> QED BY <1>5, <1>9, <1>10, <2>2, <3>1
  <2> QED BY <2>1, <2>2
<1>13. SameUsage' BY <1>8, <1>12 DEF SameUsage
<1>14. SameProfiles' BY <1>8 DEF StoresInv, SameProfiles
<1>15. memory'.tokens = database'.tokens /\ memory'.suppressed = database'.suppressed
  BY <1>8 DEF StoresInv
<1> QED BY <1>4, <1>8, <1>13, <1>14, <1>15, OtherCalls

\* A call that changes only the profiles of both sides.
LEMMA OnlyProfiles ==
  ASSUME StoresInv, NEW p, NEW r,
         Call([memory EXCEPT !.profiles = p], [database EXCEPT !.profiles = r], "ok", "ok"),
         p \in Seq(Rows), \A j, k \in DOMAIN p : p[j].id = p[k].id => j = k,
         DOMAIN r = {p[k].id : k \in DOMAIN p}, \A k \in DOMAIN p : r[p[k].id] = p[k]
  PROVE  StoresInv'
<1>1. DOMAIN memory = Fields /\ DOMAIN database = Fields BY DEF StoresInv, StoreTypes
<1>2. /\ memory' = [memory EXCEPT !.profiles = p] /\ database' = [database EXCEPT !.profiles = r]
      /\ told'.memory = told'.database /\ calls' = calls + 1 /\ UNCHANGED month
  BY DEF Call
<1>3. /\ DOMAIN memory' = Fields /\ DOMAIN database' = Fields
      /\ memory'.tenants = memory.tenants /\ database'.tenants = database.tenants
      /\ memory'.tokens = memory.tokens /\ database'.tokens = database.tokens
      /\ memory'.suppressed = memory.suppressed /\ database'.suppressed = database.suppressed
      /\ memory'.profiles = p /\ database'.profiles = r
      /\ memory'.usage = memory.usage /\ database'.usage = database.usage
  BY <1>1, <1>2 DEF Fields
<1>4. SameProfiles' BY <1>3 DEF SameProfiles
<1>5. SameUsage' BY <1>3 DEF StoresInv, SameUsage
<1>6. memory'.tokens = database'.tokens /\ memory'.suppressed = database'.suppressed
  BY <1>3 DEF StoresInv
<1> QED BY <1>2, <1>3, <1>4, <1>5, <1>6, OtherCalls

LEMMA InsertStep ==
  ASSUME StoresInv, NEW t \in Holders, NEW id \in People, NEW c \in Cookies,
         NEW l \in Logins \cup {NoLogin}, InsertProfile(t, id, c, l)
  PROVE  StoresInv'
<1> DEFINE row == toRow(t, id, c, l)
           mp == memory.profiles
           dp == database.profiles
           p == Append(mp, row)
           r == Put(dp, id, row)
<1>1. row \in Rows /\ row.id = id /\ row.tenant = t
  BY DEF toRow, Rows, StoresInv, StoreTypes
<1>2. /\ mp \in Seq(Rows) /\ DOMAIN dp = {mp[k].id : k \in DOMAIN mp}
      /\ \A j, k \in DOMAIN mp : mp[j].id = mp[k].id => j = k
      /\ \A k \in DOMAIN mp : dp[mp[k].id] = mp[k]
  BY DEF StoresInv, SameProfiles
<1>3. id \notin DOMAIN dp /\ \A k \in DOMAIN mp : mp[k].id # id BY <1>2 DEF InsertProfile
<1>4. Call([memory EXCEPT !.profiles = SaveInMemory(mp, row)],
           [database EXCEPT !.profiles = Upsert(dp, row)], "ok", "ok")
  BY DEF InsertProfile
<1> HIDE DEF row, mp, dp
<1>5. SaveInMemory(mp, row) = p BY <1>1, <1>3 DEF SaveInMemory
<1>6. Upsert(dp, row) = r BY <1>1, <1>3 DEF Upsert
<1>7. Len(mp) \in Nat /\ DOMAIN mp = 1..Len(mp) BY <1>2
<1>8. /\ p \in Seq(Rows) /\ DOMAIN p = 1..(Len(mp) + 1) /\ p[Len(mp) + 1] = row
      /\ \A k \in 1..Len(mp) : p[k] = mp[k]
  BY <1>1, <1>2
<1>9. DOMAIN r = {id} \cup DOMAIN dp /\ r[id] = row /\ \A x \in DOMAIN dp : x # id => r[x] = dp[x]
  BY DEF Put
<1> HIDE DEF p, r
<1>10. \A k \in 1..(Len(mp) + 1) : k \in DOMAIN mp \/ k = Len(mp) + 1 BY <1>7
<1>11. \A j, k \in DOMAIN p : p[j].id = p[k].id => j = k
  BY <1>1, <1>2, <1>3, <1>7, <1>8, <1>10
<1>12. {p[k].id : k \in DOMAIN p} = {mp[k].id : k \in DOMAIN mp} \cup {id}
  <2>1. ASSUME NEW k \in DOMAIN p PROVE p[k].id \in {mp[j].id : j \in DOMAIN mp} \cup {id}
    BY <1>1, <1>7, <1>8, <1>10
  <2>2. ASSUME NEW k \in DOMAIN mp PROVE k \in DOMAIN p /\ p[k].id = mp[k].id BY <1>7, <1>8
  <2>3. Len(mp) + 1 \in DOMAIN p /\ p[Len(mp) + 1].id = id BY <1>1, <1>7, <1>8
  <2> QED BY <2>1, <2>2, <2>3
<1>13. DOMAIN r = {p[k].id : k \in DOMAIN p} BY <1>2, <1>9, <1>12
<1>14. \A k \in DOMAIN p : r[p[k].id] = p[k]
  <2> SUFFICES ASSUME NEW k \in DOMAIN p PROVE r[p[k].id] = p[k]
    OBVIOUS
  <2>1. CASE k \in DOMAIN mp
    <3>1. p[k] = mp[k] /\ mp[k].id # id /\ mp[k].id \in DOMAIN dp BY <1>2, <1>3, <1>7, <1>8, <2>1
    <3> QED BY <1>2, <1>9, <2>1, <3>1
  <2>2. CASE k = Len(mp) + 1 BY <1>1, <1>8, <1>9, <2>2
  <2> QED BY <1>8, <1>10, <2>1, <2>2
<1>15. Call([memory EXCEPT !.profiles = p], [database EXCEPT !.profiles = r], "ok", "ok")
  BY <1>4, <1>5, <1>6
<1> QED BY <1>8, <1>11, <1>13, <1>14, <1>15, OnlyProfiles

LEMMA SaveStep ==
  ASSUME StoresInv, NEW k \in DOMAIN memory.profiles, NEW l \in Logins, SaveProfile(k, l)
  PROVE  StoresInv'
<1> DEFINE mp == memory.profiles
           dp == database.profiles
           old == mp[k]
           row == [old EXCEPT !.login = l]
           p == [mp EXCEPT ![k] = row]
           r == [dp EXCEPT ![old.id].cookie = row.cookie, ![old.id].login = row.login]
<1>1. /\ mp \in Seq(Rows) /\ DOMAIN dp = {mp[j].id : j \in DOMAIN mp}
      /\ \A i, j \in DOMAIN mp : mp[i].id = mp[j].id => i = j
      /\ \A j \in DOMAIN mp : dp[mp[j].id] = mp[j]
  BY DEF StoresInv, SameProfiles
<1>2. Call([memory EXCEPT !.profiles = SaveInMemory(mp, row)],
           [database EXCEPT !.profiles = Upsert(dp, row)], "ok", "ok")
  BY DEF SaveProfile
<1> HIDE DEF mp, dp
<1>3. old \in Rows /\ k \in DOMAIN mp BY <1>1 DEF mp
<1>4. /\ row \in Rows /\ row.id = old.id /\ row.tenant = old.tenant /\ row.cookie = old.cookie /\ row.login = l
  BY <1>3 DEF Rows
<1>5. old.id \in DOMAIN dp /\ dp[old.id] = old BY <1>1, <1>3
<1>6. SaveInMemory(mp, row) = p
  <2> DEFINE same == {j \in DOMAIN mp : mp[j].id = row.id /\ mp[j].tenant = row.tenant}
  <2> HIDE DEF row, old
  <2>1. same = {k} BY <1>1, <1>3, <1>4 DEF old
  <2>2. (CHOOSE j \in same : TRUE) = k BY <2>1
  <2>3. same # {} BY <2>1
  <2> QED BY <2>2, <2>3 DEF SaveInMemory
<1>7. Upsert(dp, row) = r BY <1>4, <1>5 DEF Upsert
<1>8. r = [dp EXCEPT ![old.id] = row]
  <2> DEFINE half == [dp EXCEPT ![old.id].cookie = row.cookie]
  <2>1. half = [dp EXCEPT ![old.id] = [old EXCEPT !.cookie = row.cookie]] BY <1>5
  <2>2. [old EXCEPT !.cookie = row.cookie] = old BY <1>3, <1>4 DEF Rows
  <2>3. half[old.id] = old /\ DOMAIN half = DOMAIN dp /\ \A x \in DOMAIN dp : x # old.id => half[x] = dp[x]
    BY <1>5, <2>1, <2>2
  <2>4. r = [half EXCEPT ![old.id].login = row.login] OBVIOUS
  <2> HIDE DEF half
  <2>5. r = [half EXCEPT ![old.id] = [old EXCEPT !.login = row.login]] BY <1>5, <2>3, <2>4
  <2>6. [old EXCEPT !.login = row.login] = row BY <1>4
  <2> HIDE DEF r, row, old
  <2> QED BY <2>3, <2>5, <2>6
<1>9. /\ p \in Seq(Rows) /\ DOMAIN p = DOMAIN mp /\ p[k] = row /\ \A j \in DOMAIN mp : j # k => p[j] = mp[j]
  BY <1>1, <1>3, <1>4
<1>10. DOMAIN r = DOMAIN dp /\ r[old.id] = row /\ \A x \in DOMAIN dp : x # old.id => r[x] = dp[x]
  BY <1>5, <1>8
<1> HIDE DEF p, r, row
<1>11. \A j \in DOMAIN mp : p[j].id = mp[j].id BY <1>4, <1>9
<1>12. \A i, j \in DOMAIN p : p[i].id = p[j].id => i = j BY <1>1, <1>9, <1>11
<1>13. DOMAIN r = {p[j].id : j \in DOMAIN p} BY <1>1, <1>9, <1>10, <1>11
<1>14. \A j \in DOMAIN p : r[p[j].id] = p[j]
  <2> SUFFICES ASSUME NEW j \in DOMAIN p PROVE r[p[j].id] = p[j]
    OBVIOUS
  <2>1. CASE j = k BY <1>4, <1>9, <1>10, <2>1
  <2>2. CASE j # k
    <3>1. p[j] = mp[j] /\ mp[j].id # old.id /\ mp[j].id \in DOMAIN dp BY <1>1, <1>3, <1>9, <2>2
    <3> QED BY <1>1, <1>9, <1>10, <3>1
  <2> QED BY <2>1, <2>2
<1>15. Call([memory EXCEPT !.profiles = p], [database EXCEPT !.profiles = r], "ok", "ok")
  BY <1>2, <1>6, <1>7
<1> QED BY <1>9, <1>12, <1>13, <1>14, <1>15, OnlyProfiles

LEMMA BackendsStep ==
  ASSUME StoresInv, [BackendsNext]_storeVars
  PROVE  StoresInv'
<1>1. ASSUME NEW t \in Holders, NEW k \in WriteKeys, CreateTenantAccount(t, k) PROVE StoresInv'
  BY <1>1, CreateStep
<1>2. ASSUME NEW t \in Holders, EnableTenantModule(t, "email") PROVE StoresInv'
  BY <1>2, EnableStep
<1>3. ASSUME NEW token \in Tokens, NEW t \in Holders, NEW role, Issue(token, t, role) PROVE StoresInv'
  BY <1>3, IssueStep
<1>4. ASSUME NEW t \in Holders, NEW id \in People, NEW c \in Cookies, NEW l \in Logins \cup {NoLogin},
             InsertProfile(t, id, c, l)
      PROVE  StoresInv'
  BY <1>4, InsertStep
<1>5. ASSUME NEW k \in DOMAIN memory.profiles, NEW l \in Logins, SaveProfile(k, l) PROVE StoresInv'
  BY <1>5, SaveStep
<1>6. ASSUME NEW s, NEW reason, AddSuppression(s, reason) PROVE StoresInv'
  BY <1>6, SuppressStep
<1>7. ASSUME NEW t \in Holders, NEW n \in {-1, 0, 2}, RecordUsage(t, n) PROVE StoresInv'
  <2>1. n \in Int OBVIOUS
  <2> QED BY <1>7, <2>1, UsageStep
<1>8. CASE NextMonth
  <2>1. UNCHANGED <<memory, database, told, calls>> /\ month' = 2 BY <1>8 DEF NextMonth
  <2> QED BY <2>1 DEF StoresInv, StoreTypes, SameTenants, SameProfiles, SameUsage
<1>9. CASE UNCHANGED storeVars
  BY <1>9 DEF storeVars, StoresInv, StoreTypes, SameTenants, SameProfiles, SameUsage
<1> QED BY <1>1, <1>2, <1>3, <1>4, <1>5, <1>6, <1>7, <1>8, <1>9 DEF BackendsNext

-----------------------------------------------------------------------------
LEMMA LookupsAgree ==
  ASSUME StoresInv, NEW t \in Holders
  PROVE  listByTenant(t) = rowsOf(t)
<1>1. /\ DOMAIN database.profiles = {memory.profiles[k].id : k \in DOMAIN memory.profiles}
      /\ \A k \in DOMAIN memory.profiles : database.profiles[memory.profiles[k].id] = memory.profiles[k]
  BY DEF StoresInv, SameProfiles
<1>2. \A x \in listByTenant(t) : x \in rowsOf(t)
  <2> SUFFICES ASSUME NEW k \in DOMAIN memory.profiles, memory.profiles[k].tenant = t
               PROVE  memory.profiles[k] \in rowsOf(t)
    BY DEF listByTenant
  <2>1. memory.profiles[k].id \in DOMAIN database.profiles BY <1>1
  <2> QED BY <1>1, <2>1 DEF rowsOf
<1>3. \A x \in rowsOf(t) : x \in listByTenant(t)
  <2> SUFFICES ASSUME NEW id \in DOMAIN database.profiles, database.profiles[id].tenant = t
               PROVE  database.profiles[id] \in listByTenant(t)
    BY DEF rowsOf
  <2>1. PICK k \in DOMAIN memory.profiles : id = memory.profiles[k].id BY <1>1
  <2>2. database.profiles[id] = memory.profiles[k] BY <1>1, <2>1
  <2> QED BY <2>2 DEF listByTenant
<1> QED BY <1>2, <1>3

\* The first that memory finds is one the query may return.
LEMMA FirstIsARow ==
  ASSUME StoresInv, NEW t \in Holders, NEW field, NEW value
  PROVE  LET found == {r \in rowsOf(t) : r[field] = value}
         IN  /\ findFirst(t, field, value) \subseteq found
             /\ findFirst(t, field, value) = {} <=> found = {}
<1> DEFINE mine == {k \in DOMAIN memory.profiles :
                      memory.profiles[k].tenant = t /\ memory.profiles[k][field] = value}
           found == {r \in listByTenant(t) : r[field] = value}
<1>1. found = {memory.profiles[k] : k \in mine} BY DEF listByTenant
<1>2. findFirst(t, field, value) = IF mine = {} THEN {} ELSE {memory.profiles[Min(mine)]}
  BY DEF findFirst
<1>3. mine \in SUBSET Nat
  <2>1. DOMAIN memory.profiles \subseteq Nat
    <3>1. memory.profiles \in Seq(Rows) BY DEF StoresInv, SameProfiles
    <3>2. DOMAIN memory.profiles = 1..Len(memory.profiles) /\ Len(memory.profiles) \in Nat BY <3>1
    <3> QED BY <3>2
  <2> QED BY <2>1
<1> HIDE DEF mine, found
<1>4. mine # {} => Min(mine) \in mine
  <2> SUFFICES ASSUME mine # {} PROVE Min(mine) \in mine
    OBVIOUS
  <2>1. \E x \in mine : \A y \in mine : x <= y BY <1>3, Least
  <2> QED BY <2>1 DEF Min
<1>5. findFirst(t, field, value) \subseteq found /\ (findFirst(t, field, value) = {} <=> found = {})
  BY <1>1, <1>2, <1>4
<1>6. found = {r \in rowsOf(t) : r[field] = value} BY LookupsAgree DEF found
<1> QED BY Zenon, <1>5, <1>6

LEMMA StoresSay == StoresInv => BackendsAgree
<1> SUFFICES ASSUME StoresInv PROVE BackendsAgree
  OBVIOUS
<1>1. told.memory = told.database BY DEF StoresInv, StoreTypes
<1>2. /\ DOMAIN memory.tenants = DOMAIN database.tenants \cup {Demo} /\ Demo \notin DOMAIN database.tenants
      /\ memory.tenants[Demo].writeKey = Demo
      /\ \A t \in DOMAIN database.tenants : memory.tenants[t] = database.tenants[t]
  BY DemoAssumption DEF StoresInv, SameTenants
<1>3. ASSUME NEW t \in Holders
      PROVE  /\ At(memory.tenants, t) = At(database.tenants, t)
             /\ listByTenant(t) = rowsOf(t)
             /\ currentUsage(memory, t) = currentUsage(database, t)
  <2>1. t \in DOMAIN memory.tenants <=> t \in DOMAIN database.tenants BY <1>2, DemoAssumption
  <2>2. At(memory.tenants, t) = At(database.tenants, t) BY <1>2, <2>1 DEF At
  <2>3. currentUsage(memory, t) = currentUsage(database, t)
    BY DEF StoresInv, SameUsage, currentUsage
  <2> QED BY <2>2, <2>3, LookupsAgree
<1>4. ASSUME NEW t \in Holders, NEW l \in Logins, NEW c \in Cookies
      PROVE  LET byLogin == findFirst(t, "login", l)
                 byCookie == findFirst(t, "cookie", c)
                 rowsByLogin == {r \in rowsOf(t) : r.login = l}
                 rowsByCookie == {r \in rowsOf(t) : r.cookie = c}
             IN /\ byLogin \subseteq rowsByLogin /\ (byLogin = {} <=> rowsByLogin = {})
                /\ byCookie \subseteq rowsByCookie /\ (byCookie = {} <=> rowsByCookie = {})
  <2>1. LET found == {r \in rowsOf(t) : r["login"] = l}
        IN  findFirst(t, "login", l) \subseteq found /\ (findFirst(t, "login", l) = {} <=> found = {})
    BY FirstIsARow
  <2>2. LET found == {r \in rowsOf(t) : r["cookie"] = c}
        IN  findFirst(t, "cookie", c) \subseteq found /\ (findFirst(t, "cookie", c) = {} <=> found = {})
    BY FirstIsARow
  <2> QED BY <2>1, <2>2
<1>5. ASSUME NEW k \in WriteKeys PROVE resolveTenant(memory, k) = resolveTenant(database, k)
  <2>1. {u \in DOMAIN memory.tenants : memory.tenants[u].writeKey = k}
          = {u \in DOMAIN database.tenants : database.tenants[u].writeKey = k}
    BY <1>2, DemoAssumption
  <2> QED BY <1>2, <2>1 DEF resolveTenant
<1>6. ASSUME NEW token \in Tokens PROVE At(memory.tokens, token) = At(database.tokens, token)
  BY DEF StoresInv
<1>7. ASSUME NEW s PROVE shouldSuppress(memory, s) = shouldSuppress(database, s)
  BY DEF StoresInv, shouldSuppress
<1> QED BY <1>1, <1>2, <1>3, <1>4, <1>5, <1>6, <1>7 DEF BackendsAgree

\* The pairs of stores behind the API, for any tenants, profiles and addresses and any
\* number of calls: what the tests see of those in memory is what production answers,
\* the demo tenant apart and the choice among several profiles that match.
THEOREM StoresAnswerAlike == BackendsSpec => []BackendsAgree
BY BackendsStart, BackendsStep, StoresSay, PTL DEF BackendsSpec

-----------------------------------------------------------------------------
(* The limiters: counting the admitted calls.                              *)

Instants == 0..MaxTime
Counts == [Limiters -> [Instants -> Nat]]

LEMMA CallOf ==
  ASSUME NEW l, NEW from, NEW to, NEW t, NEW k
  PROVE  <<t, k>> \in AdmittedCalls(l, from, to) <=> t \in from..to /\ k \in 1..admitted[l][t]
BY DEF AdmittedCalls

Countable(l) == IsFiniteSet(AdmittedCalls(l, 0, MaxTime))

LEMMA WithinNat ==
  ASSUME NEW l, Countable(l), NEW from \in Instants, NEW to \in Instants
  PROVE  /\ IsFiniteSet(AdmittedCalls(l, from, to)) /\ Within(l, from, to) \in Nat
         /\ Within(l, from, to) <= Within(l, from, MaxTime) /\ Within(l, from, MaxTime) <= Total(l)
         /\ Within(l, from, MaxTime) \in Nat /\ Total(l) \in Nat
<1>1. MaxTime \in Nat BY LimiterAssumption
<1>2. from..to \subseteq from..MaxTime /\ from..MaxTime \subseteq 0..MaxTime BY <1>1 DEF Instants
<1>3. /\ AdmittedCalls(l, from, to) \subseteq AdmittedCalls(l, from, MaxTime)
      /\ AdmittedCalls(l, from, MaxTime) \subseteq AdmittedCalls(l, 0, MaxTime)
  BY <1>2 DEF AdmittedCalls
<1> DEFINE a == AdmittedCalls(l, from, to)
           b == AdmittedCalls(l, from, MaxTime)
           c == AdmittedCalls(l, 0, MaxTime)
<1>4. IsFiniteSet(c) BY DEF Countable
<1> HIDE DEF a, b, c
<1>5. a \subseteq b /\ b \subseteq c BY <1>3 DEF a, b, c
<1>6. IsFiniteSet(b) /\ Cardinality(b) <= Cardinality(c) BY <1>4, <1>5, FS_Subset
<1>7. IsFiniteSet(a) /\ Cardinality(a) <= Cardinality(b) BY <1>5, <1>6, FS_Subset
<1>8. Cardinality(a) \in Nat /\ Cardinality(b) \in Nat /\ Cardinality(c) \in Nat
  BY <1>4, <1>6, <1>7, FS_CardinalityType
<1> QED BY <1>6, <1>7, <1>8 DEF a, b, c, Within, Total

LEMMA NothingAdmitted ==
  ASSUME NEW l \in Limiters, admitted = [m \in Limiters |-> [t \in 0..MaxTime |-> 0]]
  PROVE  /\ Countable(l)
         /\ \A from, to \in Instants : Within(l, from, to) = 0
<1>1. \A from, to \in Instants : AdmittedCalls(l, from, to) = {}
  <2> SUFFICES ASSUME NEW from \in Instants, NEW to \in Instants, NEW u \in AdmittedCalls(l, from, to)
               PROVE  FALSE
    OBVIOUS
  <2>1. u[1] \in from..to /\ u[2] \in 1..admitted[l][u[1]]
    <3>1. PICK t \in from..to : u \in {t} \X (1..admitted[l][t]) BY DEF AdmittedCalls
    <3> QED BY <3>1
  <2>2. u[1] \in 0..MaxTime BY <2>1, LimiterAssumption DEF Instants
  <2>3. admitted[l][u[1]] = 0 BY <2>2
  <2> QED BY <2>1, <2>3
<1>2. 0 \in Instants /\ MaxTime \in Instants BY LimiterAssumption DEF Instants
<1> QED BY <1>1, <1>2, FS_EmptySet DEF Countable, Within

\* Granting a call at an instant counts it, or not, there and nowhere else.
LEMMA GrantCounts ==
  ASSUME admitted \in Counts, NEW l \in Limiters, Countable(l), NEW n \in Instants, NEW allowed \in BOOLEAN,
         admitted' = [admitted EXCEPT ![l][n] = @ + IF allowed THEN 1 ELSE 0]
  PROVE  /\ admitted' \in Counts /\ Countable(l)'
         /\ \A from, to \in Instants :
              Within(l, from, to)' = Within(l, from, to) + IF allowed /\ from <= n /\ n <= to THEN 1 ELSE 0
<1> DEFINE old == admitted[l][n]
           new == <<n, old + 1>>
<1>1. old \in Nat /\ \A t \in Instants : admitted[l][t] \in Nat BY DEF Counts
<1>2. /\ admitted' \in Counts
      /\ \A t \in Instants : admitted'[l][t] = IF t = n /\ allowed THEN old + 1 ELSE admitted[l][t]
  <2>1. admitted' = [admitted EXCEPT ![l] = [admitted[l] EXCEPT ![n] = old + IF allowed THEN 1 ELSE 0]]
    OBVIOUS
  <2> DEFINE row == [admitted[l] EXCEPT ![n] = old + IF allowed THEN 1 ELSE 0]
  <2>2. row \in [Instants -> Nat] BY <1>1 DEF Counts
  <2>3. \A t \in Instants : row[t] = IF t = n /\ allowed THEN old + 1 ELSE admitted[l][t]
    BY <1>1 DEF Counts
  <2>4. admitted' = [admitted EXCEPT ![l] = row] BY <2>1
  <2> HIDE DEF row, old
  <2>5. admitted' \in Counts /\ admitted'[l] = row BY <2>2, <2>4 DEF Counts
  <2> QED BY <2>3, <2>5
<1> HIDE DEF old
<1>3. ASSUME NEW from \in Instants, NEW to \in Instants
      PROVE  AdmittedCalls(l, from, to)' = AdmittedCalls(l, from, to)
                                             \cup IF allowed /\ from <= n /\ n <= to THEN {new} ELSE {}
  <2>1. \A t \in from..to : t \in Instants BY LimiterAssumption DEF Instants
  <2>2. \A t \in from..to : 1..admitted'[l][t] = (1..admitted[l][t])
                                                   \cup IF t = n /\ allowed THEN {old + 1} ELSE {}
    BY <1>1, <1>2, <2>1 DEF old
  <2>3. n \in from..to <=> from <= n /\ n <= to BY DEF Instants
  <2>4. AdmittedCalls(l, from, to)' = UNION {{t} \X (1..admitted'[l][t]) : t \in from..to}
    BY DEF AdmittedCalls
  <2>5. ASSUME NEW u \in AdmittedCalls(l, from, to)'
        PROVE  u \in AdmittedCalls(l, from, to) \cup IF allowed /\ from <= n /\ n <= to THEN {new} ELSE {}
    <3>1. PICK t \in from..to : u \in {t} \X (1..admitted'[l][t]) BY <2>4, <2>5
    <3>2. CASE u[2] \in 1..admitted[l][t]
      <4>1. u \in {t} \X (1..admitted[l][t]) BY <3>1, <3>2
      <4> QED BY <4>1 DEF AdmittedCalls
    <3>3. CASE u[2] \notin 1..admitted[l][t]
      <4>1. t = n /\ allowed /\ u[2] = old + 1 /\ u[1] = t /\ u = <<u[1], u[2]>> BY <2>2, <3>1, <3>3
      <4> QED BY <2>3, <4>1
    <3> QED BY <3>2, <3>3
  <2>6. ASSUME NEW u \in AdmittedCalls(l, from, to) PROVE u \in AdmittedCalls(l, from, to)'
    <3>1. PICK t \in from..to : u \in {t} \X (1..admitted[l][t]) BY <2>6 DEF AdmittedCalls
    <3>2. u \in {t} \X (1..admitted'[l][t]) BY <2>2, <3>1
    <3> QED BY <2>4, <3>2
  <2>7. ASSUME allowed, from <= n, n <= to PROVE new \in AdmittedCalls(l, from, to)'
    <3>1. n \in from..to BY <2>3, <2>7
    <3>2. new \in {n} \X (1..admitted'[l][n]) BY <2>2, <2>7, <3>1
    <3> QED BY <2>4, <3>1, <3>2
  <2> QED BY <2>5, <2>6, <2>7
<1>4. \A from, to : new \notin AdmittedCalls(l, from, to)
  <2>1. ~(old + 1 \in 1..old) BY <1>1
  <2> QED BY <2>1, CallOf DEF old
<1>5. 0 \in Instants /\ MaxTime \in Instants BY LimiterAssumption DEF Instants
<1>6. ASSUME NEW from \in Instants, NEW to \in Instants
      PROVE  /\ IsFiniteSet(AdmittedCalls(l, from, to)')
             /\ Within(l, from, to)' = Within(l, from, to) + IF allowed /\ from <= n /\ n <= to THEN 1 ELSE 0
  <2> DEFINE a == AdmittedCalls(l, from, to)
             b == AdmittedCalls(l, from, to)'
  <2>1. IsFiniteSet(a) /\ Cardinality(a) \in Nat BY WithinNat, FS_CardinalityType
  <2>2. b = a \cup IF allowed /\ from <= n /\ n <= to THEN {new} ELSE {} BY <1>3
  <2>3. new \notin a BY <1>4
  <2>4. Within(l, from, to) = Cardinality(a) /\ Within(l, from, to)' = Cardinality(b) BY DEF Within
  <2> HIDE DEF a, b, new
  <2>5. CASE allowed /\ from <= n /\ n <= to
    <3>1. b = a \cup {new} BY <2>2, <2>5
    <3>2. IsFiniteSet(b) /\ Cardinality(b) = Cardinality(a) + 1 BY <2>1, <2>3, <3>1, FS_AddElement
    <3> QED BY <2>4, <2>5, <3>2 DEF b
  <2>6. CASE ~(allowed /\ from <= n /\ n <= to)
    <3>1. b = a BY <2>2, <2>6
    <3> QED BY <2>1, <2>4, <2>6, <3>1 DEF b
  <2> QED BY <2>5, <2>6
<1>7. Countable(l)' BY <1>5, <1>6 DEF Countable
<1> QED BY <1>2, <1>6, <1>7

\* Nor does it change what the other limiter counts.
LEMMA OtherCounts ==
  ASSUME NEW l, Countable(l), admitted'[l] = admitted[l]
  PROVE  Countable(l)' /\ \A from, to : Within(l, from, to)' = Within(l, from, to)
<1>1. \A from, to : AdmittedCalls(l, from, to)' = AdmittedCalls(l, from, to) BY DEF AdmittedCalls
<1> QED BY <1>1 DEF Countable, Within

-----------------------------------------------------------------------------
(* The limiters: what a counter has accounted for.                         *)

\* How many calls were admitted from each instant on.
Since(l) == [from \in Instants |-> Within(l, from, MaxTime)]
Sums == [Instants -> Nat]
Less(n) == IF n = 0 THEN 0 ELSE n - 1

\* What a bucket, written at t or before, leaves to be admitted: with the calls of any
\* span up to its last update it holds no more than it ever held and gained; later
\* calls, and no others, are among the z that were not accounted for.
BucketFits(v, z, a, t) ==
  /\ v.tokens \in 0..Capacity /\ v.at \in -1..t
  /\ \A from \in Instants :
       /\ from <= v.at => a[from] + v.tokens <= Capacity + Refill * (v.at - from) + z
       /\ from > v.at => a[from] <= z

\* A window counts the calls since it began; the one that began it was admitted then;
\* and with the calls of the spans that reach back before it, those of one window.
WindowFits(v, z, a, t) ==
  /\ v.count \in 0..WindowLimit /\ v.start \in -1..t
  /\ v.start = -1 => v.count = 0
  /\ v.start # -1 /\ WindowLimit > 0 => v.count > 0
  /\ \A from \in Instants :
       /\ v.start = -1 \/ from >= v.start + Window => a[from] <= z
       /\ v.start # -1 /\ from > v.start => a[from] <= Less(v.count) + z
       /\ v.start # -1 /\ from = v.start => a[from] <= v.count + z
       /\ v.start # -1 /\ from > v.start - Window => a[from] <= Less(WindowLimit) + v.count + z

Buckets == [tokens : Nat, at : Int]
Windows == [count : Nat, start : Int]

LEMMA BucketSlack ==
  ASSUME NEW v \in Buckets, NEW z \in Nat, NEW y \in Nat, NEW a \in Sums, NEW b \in Sums,
         NEW t \in Int, NEW u \in Int, t <= u, BucketFits(v, z, a, t),
         \A from \in Instants : b[from] <= a[from] + (y - z)
  PROVE  BucketFits(v, y, b, u)
<1>1. v.tokens \in Nat /\ v.at \in Int BY DEF Buckets
<1>2. v.tokens \in 0..Capacity /\ v.at \in -1..u BY <1>1 DEF BucketFits
<1>3. ASSUME NEW from \in Instants
      PROVE  /\ from <= v.at => b[from] + v.tokens <= Capacity + Refill * (v.at - from) + y
             /\ from > v.at => b[from] <= y
  <2>1. /\ from \in Int /\ a[from] \in Nat /\ b[from] \in Nat /\ Capacity \in Nat
        /\ Refill * (v.at - from) \in Int
    BY <1>1, LimiterAssumption DEF Sums, Instants
  <2>2. /\ from <= v.at => a[from] + v.tokens <= Capacity + Refill * (v.at - from) + z
        /\ from > v.at => a[from] <= z
    BY DEF BucketFits
  <2> DEFINE gained == Refill * (v.at - from)
  <2> HIDE DEF gained
  <2>3. from <= v.at => b[from] + v.tokens <= Capacity + gained + y
    BY <1>1, <2>1, <2>2 DEF gained
  <2> QED BY <2>1, <2>2, <2>3 DEF gained
<1> QED BY <1>2, <1>3 DEF BucketFits

LEMMA WindowSlack ==
  ASSUME NEW v \in Windows, NEW z \in Nat, NEW y \in Nat, NEW a \in Sums, NEW b \in Sums,
         NEW t \in Int, NEW u \in Int, t <= u, WindowFits(v, z, a, t),
         \A from \in Instants : b[from] <= a[from] + (y - z)
  PROVE  WindowFits(v, y, b, u)
<1>1. v.count \in Nat /\ v.start \in Int /\ Window \in Nat /\ WindowLimit \in Nat
  BY LimiterAssumption DEF Windows
<1>2. Less(v.count) \in Nat /\ Less(WindowLimit) \in Nat BY <1>1 DEF Less
<1>3. ASSUME NEW from \in Instants
      PROVE  /\ v.start = -1 \/ from >= v.start + Window => b[from] <= y
             /\ v.start # -1 /\ from > v.start => b[from] <= Less(v.count) + y
             /\ v.start # -1 /\ from = v.start => b[from] <= v.count + y
             /\ v.start # -1 /\ from > v.start - Window => b[from] <= Less(WindowLimit) + v.count + y
  <2>1. from \in Int /\ a[from] \in Nat /\ b[from] \in Nat BY LimiterAssumption DEF Sums, Instants
  <2> QED BY <1>1, <1>2, <2>1 DEF WindowFits
<1>4. v.start \in -1..u BY <1>1 DEF WindowFits
<1> QED BY <1>3, <1>4 DEF WindowFits

-----------------------------------------------------------------------------
LEMMA MinOfTwo ==
  ASSUME NEW i \in Int, NEW j \in Int
  PROVE  Min({i, j}) = IF i <= j THEN i ELSE j
BY DEF Min

LEMMA MaxOfTwo ==
  ASSUME NEW i \in Int, NEW j \in Int
  PROVE  Max({i, j}) = IF i >= j THEN i ELSE j
BY DEF Max

LEMMA Gains ==
  ASSUME NEW i \in Nat, NEW j \in Nat
  PROVE  Refill * i \in Nat /\ i * Refill = Refill * i /\ Refill * (i + j) = Refill * i + Refill * j
BY LimiterAssumption

\* What a bucket is refilled to, in a call that read it no later than it asks.
LEMMA RefillOf ==
  ASSUME NEW v \in Buckets, v.tokens \in 0..Capacity, v.at >= -1, NEW n \in Nat, v.at <= n
  PROVE  /\ refill(v, n) \in 0..Capacity
         /\ v.at # -1 => refill(v, n) <= v.tokens + Refill * (n - v.at)
<1>1. v.tokens \in Nat /\ v.at \in Int /\ Capacity \in Nat BY LimiterAssumption DEF Buckets
<1>2. CASE v.at = -1 BY <1>1, <1>2 DEF refill
<1>3. CASE v.at # -1
  <2>1. n - v.at \in Nat /\ Max({0, n - v.at}) = n - v.at BY <1>1, MaxOfTwo
  <2>2. Refill * (n - v.at) \in Nat /\ (n - v.at) * Refill = Refill * (n - v.at)
    BY <2>1, Gains
  <2> DEFINE gained == Refill * (n - v.at)
  <2>3. refill(v, n) = Min({Capacity, v.tokens + gained}) BY <1>3, <2>1, <2>2 DEF refill
  <2>4. gained \in Nat BY <2>2
  <2> HIDE DEF gained
  <2>5. refill(v, n) = IF Capacity <= v.tokens + gained THEN Capacity ELSE v.tokens + gained
    BY <1>1, <2>3, <2>4, MinOfTwo
  <2>6. refill(v, n) \in 0..Capacity /\ refill(v, n) <= v.tokens + gained BY <1>1, <2>4, <2>5
  <2> QED BY <1>3, <2>6 DEF gained
<1> QED BY <1>2, <1>3

\* The rest of consumeBucket leaves a bucket that fits, once what it wiped out is told.
LEMMA BucketWrite ==
  ASSUME NEW v \in Buckets, NEW z \in Nat, NEW a \in Sums, NEW b \in Sums, NEW n \in Instants, NEW t \in Nat,
         BucketFits(v, z, a, n), n <= t, \A from \in Instants : from > n => a[from] <= z,
         NEW allowed \in BOOLEAN, allowed <=> refill(v, n) >= 1,
         \A from \in Instants : b[from] = a[from] + IF allowed /\ from <= n THEN 1 ELSE 0
  PROVE  LET w == [tokens |-> IF allowed THEN refill(v, n) - 1 ELSE refill(v, n), at |-> n]
         IN  w \in Buckets /\ BucketFits(w, z, b, t)
<1> DEFINE full == refill(v, n)
           left == IF allowed THEN full - 1 ELSE full
           w == [tokens |-> left, at |-> n]
<1>1. v.tokens \in Nat /\ v.at \in Int /\ Capacity \in Nat /\ n \in Nat /\ v.tokens \in 0..Capacity
      /\ v.at >= -1 /\ v.at <= n
  BY LimiterAssumption DEF Buckets, BucketFits, Instants
<1>2. full \in 0..Capacity /\ (v.at # -1 => full <= v.tokens + Refill * (n - v.at)) BY <1>1, RefillOf
<1> HIDE DEF full
<1>3. left \in 0..Capacity /\ left = full - IF allowed THEN 1 ELSE 0 BY <1>1, <1>2 DEF full
<1> HIDE DEF left
<1>4. w.tokens = left /\ w.at = n /\ w \in Buckets BY <1>1, <1>3 DEF Buckets
<1> HIDE DEF w
<1>5. ASSUME NEW from \in Instants, from <= n
      PROVE  b[from] + left <= Capacity + Refill * (n - from) + z
  <2>1. from \in Nat /\ a[from] \in Nat /\ b[from] \in Nat BY LimiterAssumption DEF Sums, Instants
  <2>2. b[from] + left = a[from] + full BY <1>1, <1>2, <1>3, <1>5, <2>1
  <2>3. Refill * (n - from) \in Nat
    <3>1. n - from \in Nat BY <1>1, <1>5, <2>1
    <3> QED BY <3>1, Gains
  <2> DEFINE gained == Refill * (n - from)
  <2>4. gained \in Nat BY <2>3
  <2>5. CASE from > v.at
    <3>1. a[from] <= z BY <2>5 DEF BucketFits
    <3> HIDE DEF gained
    <3>2. b[from] + left <= Capacity + gained + z BY <1>1, <1>2, <1>3, <2>1, <2>2, <2>4, <3>1
    <3> QED BY <3>2 DEF gained
  <2>6. CASE from <= v.at
    <3>1. v.at # -1 BY <2>1, <2>6
    <3>2. a[from] + v.tokens <= Capacity + Refill * (v.at - from) + z BY <2>6 DEF BucketFits
    <3>3. v.at - from \in Nat /\ n - v.at \in Nat /\ n - from = (v.at - from) + (n - v.at)
      BY <1>1, <2>1, <2>6
    <3> DEFINE early == Refill * (v.at - from)
               late == Refill * (n - v.at)
    <3>4. early \in Nat /\ late \in Nat /\ gained = early + late
      <4>1. early \in Nat /\ late \in Nat BY <3>3, Gains
      <4>2. gained = Refill * ((v.at - from) + (n - v.at)) BY <3>3
      <4>3. Refill * ((v.at - from) + (n - v.at)) = Refill * (v.at - from) + Refill * (n - v.at)
        BY <3>3, Gains
      <4> QED BY <4>1, <4>2, <4>3
    <3>5. full <= v.tokens + late BY <1>2, <3>1
    <3>6. a[from] + v.tokens <= Capacity + early + z BY <3>2
    <3> HIDE DEF gained, early, late
    <3>7. b[from] + left <= Capacity + gained + z BY <1>1, <1>2, <1>3, <2>1, <2>2, <3>4, <3>5, <3>6
    <3> QED BY <3>7 DEF gained
  <2> QED BY <1>1, <2>1, <2>5, <2>6
<1>6. ASSUME NEW from \in Instants, from > n PROVE b[from] <= z
  <2>1. from \in Nat /\ a[from] \in Nat BY LimiterAssumption DEF Sums, Instants
  <2> QED BY <1>1, <1>6, <2>1
<1>7. w.at \in -1..t BY <1>1, <1>4
<1> HIDE DEF BucketFits
<1>8. BucketFits(w, z, b, t) BY <1>3, <1>4, <1>5, <1>6, <1>7 DEF BucketFits
<1> QED BY Zenon, <1>4, <1>8 DEF w, left, full

\* The window a call reads is over, and what it counts then.
Over(v, n) == v.start = -1 \/ n - v.start >= Window
Counted(v, n) == IF Over(v, n) THEN 0 ELSE v.count

\* The rest of hitWindow leaves a window that fits in the same way.
LEMMA WindowWrite ==
  ASSUME NEW v \in Windows, NEW z \in Nat, NEW a \in Sums, NEW b \in Sums, NEW n \in Instants, NEW t \in Nat,
         WindowFits(v, z, a, n), n <= t, \A from \in Instants : from > n => a[from] <= z,
         WindowLimit = 0 => \A from \in Instants : a[from] = 0,
         NEW allowed \in BOOLEAN, allowed <=> Counted(v, n) < WindowLimit,
         \A from \in Instants : b[from] = a[from] + IF allowed /\ from <= n THEN 1 ELSE 0
  PROVE  LET w == [count |-> IF allowed THEN Counted(v, n) + 1 ELSE Counted(v, n),
                   start |-> IF Over(v, n) THEN n ELSE v.start]
         IN  w \in Windows /\ WindowFits(w, z, b, t)
<1> DEFINE expired == Over(v, n)
           count == Counted(v, n)
           left == IF allowed THEN count + 1 ELSE count
           begun == IF expired THEN n ELSE v.start
           w == [count |-> left, start |-> begun]
<1>0. /\ expired \in BOOLEAN
      /\ expired <=> v.start = -1 \/ n - v.start >= Window
      /\ count = IF expired THEN 0 ELSE v.count
      /\ allowed <=> count < WindowLimit
  BY DEF Over, Counted
<1> HIDE DEF expired, count
<1>1. /\ v.count \in Nat /\ v.start \in Int /\ Window \in Nat \ {0} /\ WindowLimit \in Nat /\ n \in Nat
      /\ v.count \in 0..WindowLimit /\ v.start >= -1 /\ v.start <= n
      /\ v.start = -1 => v.count = 0
      /\ v.start # -1 /\ WindowLimit > 0 => v.count > 0
  BY LimiterAssumption DEF Windows, WindowFits, Instants
<1>2. /\ count \in 0..WindowLimit /\ left \in 0..WindowLimit /\ begun \in 0..n
      /\ WindowLimit > 0 => left > 0
  BY <1>0, <1>1
<1>3. w.count = left /\ w.start = begun /\ w \in Windows BY <1>2 DEF Windows
<1>4. ASSUME NEW from \in Instants
      PROVE  /\ from >= begun + Window => b[from] <= z
             /\ from > begun => b[from] <= Less(left) + z
             /\ from = begun => b[from] <= left + z
             /\ from > begun - Window => b[from] <= Less(WindowLimit) + left + z
  <2>1. from \in Nat /\ a[from] \in Nat /\ b[from] \in Nat BY LimiterAssumption DEF Sums, Instants
  <2>2. /\ v.start = -1 \/ from >= v.start + Window => a[from] <= z
        /\ v.start # -1 /\ from > v.start => a[from] <= Less(v.count) + z
        /\ v.start # -1 /\ from = v.start => a[from] <= v.count + z
        /\ v.start # -1 /\ from > v.start - Window => a[from] <= Less(WindowLimit) + v.count + z
    BY DEF WindowFits
  <2>3. (from > n => a[from] <= z) /\ (WindowLimit = 0 => a[from] = 0) OBVIOUS
  <2>4. b[from] = a[from] + IF allowed /\ from <= n THEN 1 ELSE 0 OBVIOUS
  <2>5. CASE WindowLimit = 0
    <3>1. ~allowed /\ b[from] = 0 BY <1>0, <1>2, <2>1, <2>3, <2>4, <2>5
    <3>2. Less(left) \in Nat /\ Less(WindowLimit) \in Nat BY <1>1, <1>2 DEF Less
    <3> HIDE DEF left, begun
    <3> QED BY <1>1, <1>2, <2>1, <3>1, <3>2
  <2>6. CASE WindowLimit > 0 /\ expired
    <3>1. begun = n /\ count = 0 /\ allowed /\ left = 1 BY <1>0, <1>1, <2>6
    <3>2. Less(left) = 0 /\ Less(WindowLimit) = WindowLimit - 1 BY <1>1, <2>6, <3>1 DEF Less
    <3>3. v.start # -1 => n >= v.start + Window BY <1>0, <1>1, <2>6
    <3>4. from >= n => a[from] <= z BY <1>1, <2>1, <2>2, <3>3
    <3>5. from > n - Window => a[from] <= WindowLimit - 1 + z
      <4>1. CASE v.start = -1 BY <1>1, <2>1, <2>2, <2>6, <4>1
      <4>2. CASE v.start # -1
        <5>1. v.count > 0 /\ Less(v.count) = v.count - 1 BY <1>1, <2>6, <4>2 DEF Less
        <5> QED BY <1>1, <2>1, <2>2, <3>3, <4>2, <5>1
      <4> QED BY <4>1, <4>2
    <3> HIDE DEF left, begun
    <3> QED BY <1>1, <2>1, <2>3, <2>4, <3>1, <3>2, <3>4, <3>5
  <2>7. CASE WindowLimit > 0 /\ ~expired
    <3>1. begun = v.start /\ begun # -1 /\ count = v.count /\ v.count > 0 /\ n < begun + Window
      BY <1>0, <1>1, <2>7
    <3>2. Less(v.count) = v.count - 1 /\ Less(left) = left - 1 /\ Less(WindowLimit) = WindowLimit - 1
      BY <1>1, <1>2, <2>7, <3>1 DEF Less
    <3>3. left = v.count + IF allowed THEN 1 ELSE 0 BY <1>1, <3>1
    <3> HIDE DEF left, begun
    <3> QED BY <1>1, <1>2, <2>1, <2>2, <2>4, <3>1, <3>2, <3>3
  <2> QED BY <1>1, <2>5, <2>6, <2>7
<1> HIDE DEF left, begun, w
<1>5. w.start \in -1..t /\ w.start # -1 BY <1>1, <1>2, <1>3
<1>6. WindowFits(w, z, b, t) BY <1>2, <1>3, <1>4, <1>5 DEF WindowFits
<1> QED BY Zenon, <1>3, <1>6 DEF w, left, begun, expired, count

-----------------------------------------------------------------------------
\* A call that has read its counter: it will wipe out the calls admitted since, so
\* what it read fits if those are granted too; later than it none other was admitted.
Asked == [limiter : {"bucket"}, now : Instants, read : Buckets, before : Nat]
           \cup [limiter : {"window"}, now : Instants, read : Windows, before : Nat]
           \cup {NoRecord}
Missed(l, r) == lost[l] + (Total(l) - r.before)

LimiterTypes ==
  /\ now \in Instants /\ bucket \in Buckets /\ window \in Windows
  /\ asking \in [Clients -> Asked] /\ admitted \in Counts /\ lost \in [Limiters -> Nat]
  /\ \A l \in Limiters : Countable(l)

CountersFit ==
  /\ BucketFits(bucket, lost["bucket"], Since("bucket"), now)
  /\ WindowFits(window, lost["window"], Since("window"), now)

ReadsFit ==
  \A c \in Clients : \A l \in Limiters : asking[c].limiter = l =>
    /\ asking[c].now <= now /\ asking[c].before <= Total(l)
    /\ \A from \in Instants : from > asking[c].now => Since(l)[from] <= Missed(l, asking[c])
    /\ l = "bucket" => BucketFits(asking[c].read, Missed(l, asking[c]), Since(l), asking[c].now)
    /\ l = "window" => WindowFits(asking[c].read, Missed(l, asking[c]), Since(l), asking[c].now)

NothingAhead ==
  /\ \A l \in Limiters : \A from \in Instants : from > now => Since(l)[from] = 0
  /\ WindowLimit = 0 => \A from \in Instants : Since("window")[from] = 0

LimiterInv == LimiterTypes /\ CountersFit /\ ReadsFit /\ NothingAhead /\ LimitersBound

LEMMA SinceType ==
  ASSUME LimiterTypes, NEW l \in Limiters
  PROVE  /\ Since(l) \in Sums /\ Total(l) \in Nat
         /\ \A from \in Instants : Since(l)[from] = Within(l, from, MaxTime)
         /\ \A from, to \in Instants : Within(l, from, to) \in Nat /\ Within(l, from, to) <= Since(l)[from]
<1>1. MaxTime \in Instants BY LimiterAssumption DEF Instants
<1>2. \A from, to \in Instants :
        /\ Within(l, from, to) \in Nat /\ Within(l, from, to) <= Within(l, from, MaxTime)
        /\ Within(l, from, MaxTime) \in Nat /\ Total(l) \in Nat
  BY WithinNat DEF LimiterTypes
<1> QED BY <1>1, <1>2 DEF Since, Sums

LEMMA LimiterStart == LimiterInit => LimiterInv
<1> SUFFICES ASSUME LimiterInit PROVE LimiterInv
  OBVIOUS
<1>1. /\ now = 0 /\ bucket = Fresh /\ window = Unopened /\ asking = [c \in Clients |-> NoRecord]
      /\ admitted = [l \in Limiters |-> [t \in 0..MaxTime |-> 0]]
      /\ lost = [l \in Limiters |-> 0]
  BY DEF LimiterInit
<1>2. MaxTime \in Nat /\ Capacity \in Nat /\ Refill \in Nat /\ WindowLimit \in Nat /\ Window \in Nat
  BY LimiterAssumption
<1>3. \A l \in Limiters : Countable(l) /\ \A from, to \in Instants : Within(l, from, to) = 0
  BY <1>1, NothingAdmitted
<1>4. LimiterTypes
  <2>1. admitted \in Counts BY <1>1 DEF Counts, Instants
  <2>2. now \in Instants BY <1>1, <1>2 DEF Instants
  <2>3. bucket \in Buckets /\ window \in Windows BY <1>1, <1>2 DEF Fresh, Unopened, Buckets, Windows
  <2>4. asking \in [Clients -> Asked] BY <1>1 DEF Asked
  <2>5. lost \in [Limiters -> Nat] BY <1>1
  <2> QED BY <1>3, <2>1, <2>2, <2>3, <2>4, <2>5 DEF LimiterTypes
<1>5. MaxTime \in Instants /\ \A from \in Instants : from \in Nat BY <1>2 DEF Instants
<1>6. \A l \in Limiters : \A from \in Instants : Since(l)[from] = 0 BY <1>3, <1>5 DEF Since
<1>7. lost["bucket"] = 0 /\ lost["window"] = 0 BY <1>1 DEF Limiters
<1>8. BucketFits(bucket, lost["bucket"], Since("bucket"), now)
  BY <1>1, <1>2, <1>5, <1>6, <1>7 DEF BucketFits, Fresh, Limiters
<1>9. WindowFits(window, lost["window"], Since("window"), now)
  BY <1>1, <1>2, <1>5, <1>6, <1>7 DEF WindowFits, Unopened, Limiters
<1>10. ReadsFit BY <1>1 DEF ReadsFit, NoRecord, Limiters
<1>11. NothingAhead BY <1>6 DEF NothingAhead, Limiters
<1>12. LimitersBound
  <2> SUFFICES ASSUME NEW from \in 0..MaxTime, NEW to \in 0..MaxTime, from <= to
               PROVE  /\ Within("bucket", from, to) <= Capacity + Refill * (to - from) + lost["bucket"]
                      /\ to - from < Window =>
                           Within("window", from, to) <= Max({0, 2 * WindowLimit - 1}) + lost["window"]
    BY DEF LimitersBound
  <2>1. Within("bucket", from, to) = 0 /\ Within("window", from, to) = 0
    BY <1>3 DEF Limiters, Instants
  <2>2. to - from \in Nat OBVIOUS
  <2>3. Refill * (to - from) \in Nat BY <2>2, Gains
  <2>4. Max({0, 2 * WindowLimit - 1}) \in Nat BY <1>2, MaxOfTwo
  <2> QED BY <1>2, <1>7, <2>1, <2>3, <2>4
<1> QED BY <1>4, <1>8, <1>9, <1>10, <1>11, <1>12 DEF LimiterInv, CountersFit

LEMMA ElapseStep ==
  ASSUME LimiterInv, Elapse
  PROVE  LimiterInv'
<1>1. now < MaxTime /\ now' = now + 1 /\ UNCHANGED <<bucket, window, asking, admitted, lost>>
  BY DEF Elapse
<1>2. LimiterTypes BY DEF LimiterInv
<1>3. now \in Nat /\ now' \in Instants /\ now' \in Nat /\ now <= now'
  BY <1>1, <1>2, LimiterAssumption DEF LimiterTypes, Instants
<1>4. \A l, from, to : Within(l, from, to)' = Within(l, from, to)
  BY <1>1 DEF Within, AdmittedCalls
<1>5. \A l : Since(l)' = Since(l) /\ Total(l)' = Total(l) /\ Countable(l)' = Countable(l)
  BY <1>1, <1>4 DEF Since, Total, Countable, AdmittedCalls
<1>6. \A l, r : Missed(l, r)' = Missed(l, r) BY <1>1, <1>5 DEF Missed
<1>7. LimiterTypes' BY <1>1, <1>2, <1>3, <1>5 DEF LimiterTypes
<1>8. CountersFit'
  <2>1. /\ BucketFits(bucket, lost["bucket"], Since("bucket"), now)
        /\ WindowFits(window, lost["window"], Since("window"), now)
    BY DEF LimiterInv, CountersFit
  <2>2. now \in -1..now' /\ \A i \in -1..now : i \in -1..now' BY <1>3
  <2>3. BucketFits(bucket, lost["bucket"], Since("bucket"), now') BY <2>1, <2>2 DEF BucketFits
  <2>4. WindowFits(window, lost["window"], Since("window"), now') BY <2>1, <2>2 DEF WindowFits
  <2> QED BY <1>1, <1>5, <2>3, <2>4 DEF CountersFit
<1>9. ReadsFit'
  <2> SUFFICES ASSUME NEW c \in Clients, NEW l \in Limiters, asking[c].limiter = l
               PROVE  /\ asking[c].now <= now' /\ asking[c].before <= Total(l)
                      /\ \A from \in Instants : from > asking[c].now => Since(l)[from] <= Missed(l, asking[c])
                      /\ l = "bucket" => BucketFits(asking[c].read, Missed(l, asking[c]), Since(l), asking[c].now)
                      /\ l = "window" => WindowFits(asking[c].read, Missed(l, asking[c]), Since(l), asking[c].now)
    BY <1>1, <1>5, <1>6 DEF ReadsFit
  <2>1. asking[c].now \in Instants
    <3>1. asking[c] \in Asked BY <1>2 DEF LimiterTypes
    <3> QED BY <3>1 DEF Asked, NoRecord, Limiters
  <2>2. asking[c].now <= now /\ asking[c].now \in Nat BY <2>1, LimiterAssumption DEF LimiterInv, ReadsFit, Instants
  <2>3. asking[c].now <= now' BY <1>3, <2>2
  <2> QED BY <2>3 DEF LimiterInv, ReadsFit
<1>10. NothingAhead'
  <2>1. \A from \in Instants : from > now' => from > now
    BY <1>3, LimiterAssumption DEF Instants
  <2> QED BY <1>5, <2>1 DEF LimiterInv, NothingAhead
<1>11. LimitersBound' BY <1>1, <1>4 DEF LimiterInv, LimitersBound
<1> QED BY <1>7, <1>8, <1>9, <1>10, <1>11 DEF LimiterInv

LEMMA GetStep ==
  ASSUME LimiterInv, NEW c \in Clients, NEW l \in Limiters, Get(c, l)
  PROVE  LimiterInv'
<1> DEFINE r == [limiter |-> l, now |-> now, before |-> Total(l),
                 read |-> IF l = "bucket" THEN bucket ELSE window]
<1>1. asking' = [asking EXCEPT ![c] = r] /\ UNCHANGED <<now, bucket, window, admitted, lost>>
  BY DEF Get
<1>2. LimiterTypes BY DEF LimiterInv
<1>3. \A k, from, to : Within(k, from, to)' = Within(k, from, to)
  BY <1>1 DEF Within, AdmittedCalls
<1>4. \A k : Since(k)' = Since(k) /\ Total(k)' = Total(k) /\ Countable(k)' = Countable(k)
  BY <1>1, <1>3 DEF Since, Total, Countable, AdmittedCalls
<1>5. \A k, q : Missed(k, q)' = Missed(k, q) BY <1>1, <1>4 DEF Missed
<1>6. Total(l) \in Nat /\ Since(l) \in Sums /\ lost[l] \in Nat /\ now \in Instants /\ now \in Nat
  BY <1>2, SinceType, LimiterAssumption DEF LimiterTypes, Instants
<1>7. r \in Asked /\ r.limiter = l /\ r.now = now /\ r.before = Total(l)
      /\ (l = "bucket" => r.read = bucket) /\ (l = "window" => r.read = window)
  <2>1. CASE l = "bucket" BY <1>2, <1>6, <2>1 DEF Asked, LimiterTypes
  <2>2. CASE l = "window" BY <1>2, <1>6, <2>2 DEF Asked, LimiterTypes
  <2> QED BY <2>1, <2>2 DEF Limiters
<1> HIDE DEF r
<1>8. asking' \in [Clients -> Asked] /\ asking'[c] = r /\ \A d \in Clients : d # c => asking'[d] = asking[d]
  BY <1>1, <1>2, <1>7 DEF LimiterTypes
<1>9. LimiterTypes' BY <1>1, <1>2, <1>4, <1>8 DEF LimiterTypes
<1>10. CountersFit' BY <1>1, <1>4 DEF LimiterInv, CountersFit
<1>11. Missed(l, r) = lost[l] BY <1>6, <1>7 DEF Missed
<1>12. /\ r.now <= now /\ r.before <= Total(l)
       /\ \A from \in Instants : from > r.now => Since(l)[from] <= Missed(l, r)
       /\ l = "bucket" => BucketFits(r.read, Missed(l, r), Since(l), r.now)
       /\ l = "window" => WindowFits(r.read, Missed(l, r), Since(l), r.now)
  <2>1. \A from \in Instants : from > now => Since(l)[from] = 0 BY DEF LimiterInv, NothingAhead
  <2> QED BY <1>6, <1>7, <1>11, <2>1 DEF LimiterInv, CountersFit
<1>13. ReadsFit'
  <2> SUFFICES ASSUME NEW d \in Clients, NEW k \in Limiters, asking'[d].limiter = k
               PROVE  /\ asking'[d].now <= now /\ asking'[d].before <= Total(k)
                      /\ \A from \in Instants : from > asking'[d].now => Since(k)[from] <= Missed(k, asking'[d])
                      /\ k = "bucket" => BucketFits(asking'[d].read, Missed(k, asking'[d]), Since(k), asking'[d].now)
                      /\ k = "window" => WindowFits(asking'[d].read, Missed(k, asking'[d]), Since(k), asking'[d].now)
    BY <1>1, <1>4, <1>5 DEF ReadsFit, Missed
  <2>1. CASE d = c BY <1>7, <1>8, <1>12, <2>1
  <2>2. CASE d # c
    <3>1. asking'[d] = asking[d] BY <1>8, <2>2
    <3> QED BY <3>1 DEF LimiterInv, ReadsFit
  <2> QED BY <2>1, <2>2
<1>14. NothingAhead' BY <1>1, <1>4 DEF LimiterInv, NothingAhead
<1>15. LimitersBound' BY <1>1, <1>3 DEF LimiterInv, LimitersBound
<1> QED BY <1>9, <1>10, <1>13, <1>14, <1>15 DEF LimiterInv

-----------------------------------------------------------------------------
\* What granting a call, or refusing it, changes and leaves.
LEMMA GrantFacts ==
  ASSUME LimiterInv, NEW c \in Clients, NEW l \in Limiters, asking[c].limiter = l,
         NEW allowed \in BOOLEAN, Grant(c, allowed)
  PROVE  /\ asking[c] \in Asked /\ asking[c].now \in Instants /\ asking[c].now <= now
         /\ now' = now /\ admitted' \in Counts /\ lost' \in [Limiters -> Nat] /\ asking' \in [Clients -> Asked]
         /\ asking'[c] = NoRecord /\ \A d \in Clients : d # c => asking'[d] = asking[d]
         /\ lost'[l] = Missed(l, asking[c]) /\ lost[l] <= lost'[l]
         /\ \A k \in Limiters : Countable(k)' /\ Since(k)' \in Sums
         /\ Total(l)' = Total(l) + IF allowed THEN 1 ELSE 0
         /\ \A from \in Instants :
              Since(l)'[from] = Since(l)[from] + IF allowed /\ from <= asking[c].now THEN 1 ELSE 0
         /\ \A from, to \in Instants :
              Within(l, from, to)' = Within(l, from, to)
                + IF allowed /\ from <= asking[c].now /\ asking[c].now <= to THEN 1 ELSE 0
         /\ \A k \in Limiters : k # l =>
              /\ lost'[k] = lost[k] /\ Total(k)' = Total(k) /\ Since(k)' = Since(k)
              /\ \A from, to : Within(k, from, to)' = Within(k, from, to)
<1> DEFINE n == asking[c].now
           more == IF allowed THEN 1 ELSE 0
<1>1. LimiterTypes /\ ReadsFit BY DEF LimiterInv
<1>2. asking[c] \in Asked /\ asking[c] # NoRecord BY <1>1 DEF LimiterTypes, NoRecord, Limiters
<1>3. n \in Instants /\ asking[c].before \in Nat BY <1>2 DEF Asked, NoRecord
<1>4. n <= now /\ asking[c].before <= Total(l) BY <1>1 DEF ReadsFit
<1>5. Total(l) \in Nat /\ lost[l] \in Nat BY <1>1, SinceType DEF LimiterTypes
<1>6. Missed(l, asking[c]) \in Nat /\ lost[l] <= Missed(l, asking[c]) BY <1>3, <1>4, <1>5 DEF Missed
<1>7. /\ admitted' = [admitted EXCEPT ![l][n] = @ + IF allowed THEN 1 ELSE 0]
      /\ lost' = [lost EXCEPT ![l] = @ + Total(l) - asking[c].before]
      /\ asking' = [asking EXCEPT ![c] = NoRecord] /\ now' = now
  BY DEF Grant
<1>8. /\ lost' \in [Limiters -> Nat] /\ lost'[l] = Missed(l, asking[c])
      /\ \A k \in Limiters : k # l => lost'[k] = lost[k]
  <2>1. lost' = [lost EXCEPT ![l] = Missed(l, asking[c])] BY <1>3, <1>5, <1>7 DEF Missed
  <2> QED BY <1>1, <1>6, <2>1 DEF LimiterTypes
<1>9. /\ asking' \in [Clients -> Asked] /\ asking'[c] = NoRecord
      /\ \A d \in Clients : d # c => asking'[d] = asking[d]
  BY <1>1, <1>7 DEF LimiterTypes, Asked
<1>10. admitted \in Counts /\ \A k \in Limiters : Countable(k) BY <1>1 DEF LimiterTypes
<1> HIDE DEF n
<1>11. /\ admitted' \in Counts /\ Countable(l)'
       /\ \A from, to \in Instants :
            Within(l, from, to)' = Within(l, from, to) + IF allowed /\ from <= n /\ n <= to THEN 1 ELSE 0
  <2>1. n \in Instants /\ admitted \in Counts /\ Countable(l) BY <1>3, <1>10
  <2>2. admitted' = [admitted EXCEPT ![l][n] = @ + IF allowed THEN 1 ELSE 0] BY <1>7
  <2> QED BY ONLY <2>1, <2>2, l \in Limiters, allowed \in BOOLEAN, GrantCounts, Zenon
<1>12. 0 \in Instants /\ MaxTime \in Instants /\ 0 <= n /\ n <= MaxTime
  BY <1>3, LimiterAssumption DEF Instants
<1>13. Total(l)' = Total(l) + more BY <1>11, <1>12 DEF Total
<1>14. \A from \in Instants : Since(l)'[from] = Since(l)[from] + IF allowed /\ from <= n THEN 1 ELSE 0
  BY <1>11, <1>12 DEF Since
<1>15. ASSUME NEW k \in Limiters, k # l
       PROVE  /\ Countable(k)' /\ Total(k)' = Total(k) /\ Since(k)' = Since(k)
              /\ \A from, to : Within(k, from, to)' = Within(k, from, to)
  <2>1. admitted'[k] = admitted[k] BY <1>7, <1>10, <1>15 DEF Counts
  <2>2. Countable(k)' /\ \A from, to : Within(k, from, to)' = Within(k, from, to)
    BY <1>10, <2>1, OtherCounts
  <2> QED BY <2>2 DEF Total, Since
<1>16. Since(l)' \in Sums
  <2>1. \A from \in Instants : Since(l)[from] \in Nat BY <1>1, SinceType DEF Sums
  <2>2. \A from \in Instants : Since(l)'[from] \in Nat BY <1>14, <2>1
  <2>3. Since(l)' = [from \in Instants |-> Since(l)'[from]] BY DEF Since
  <2> QED BY <2>2, <2>3 DEF Sums
<1>17. \A k \in Limiters : Countable(k)' /\ Since(k)' \in Sums
  BY <1>1, <1>11, <1>15, <1>16, SinceType
<1> QED BY <1>2, <1>3, <1>4, <1>6, <1>7, <1>8, <1>9, <1>11, <1>13, <1>14, <1>15, <1>17 DEF n

\* The calls still under way: each will wipe out this one too.
LEMMA GrantReads ==
  ASSUME LimiterInv, NEW c \in Clients, NEW l \in Limiters, asking[c].limiter = l,
         NEW allowed \in BOOLEAN, Grant(c, allowed)
  PROVE  ReadsFit'
<1> DEFINE grown(from) == Since(l)[from] + IF allowed /\ from <= asking[c].now THEN 1 ELSE 0
<1>1. /\ asking[c] \in Asked /\ now' = now /\ lost' \in [Limiters -> Nat] /\ asking'[c] = NoRecord
      /\ \A d \in Clients : d # c => asking'[d] = asking[d]
      /\ lost'[l] = Missed(l, asking[c]) /\ lost[l] <= lost'[l]
      /\ \A k \in Limiters : Since(k)' \in Sums
      /\ Total(l)' = Total(l) + IF allowed THEN 1 ELSE 0
      /\ \A from \in Instants : Since(l)'[from] = grown(from)
      /\ \A k \in Limiters : k # l => lost'[k] = lost[k] /\ Total(k)' = Total(k) /\ Since(k)' = Since(k)
  BY GrantFacts
<1>2. LimiterTypes /\ ReadsFit BY DEF LimiterInv
<1>3. Total(l) \in Nat /\ lost[l] \in Nat /\ Since(l) \in Sums /\ lost'[l] \in Nat
  BY <1>1, <1>2, SinceType DEF LimiterTypes
<1> SUFFICES ASSUME NEW d \in Clients, NEW k \in Limiters, asking'[d].limiter = k
             PROVE  /\ asking'[d].now <= now' /\ asking'[d].before <= Total(k)'
                    /\ \A from \in Instants : from > asking'[d].now => Since(k)'[from] <= Missed(k, asking[d])'
                    /\ k = "bucket" => BucketFits(asking'[d].read, Missed(k, asking[d])', Since(k)', asking'[d].now)
                    /\ k = "window" => WindowFits(asking'[d].read, Missed(k, asking[d])', Since(k)', asking'[d].now)
  BY DEF ReadsFit
<1> DEFINE r == asking[d]
           z == Missed(k, r)
           y == lost'[k] + (Total(k)' - r.before)
<1>4. d # c BY <1>1 DEF NoRecord, Limiters
<1>5. asking'[d] = r /\ Missed(k, asking[d])' = y BY <1>1, <1>4 DEF Missed
<1>6. r.limiter = k /\ r \in Asked BY <1>2, <1>5 DEF LimiterTypes
<1>7. r # NoRecord BY <1>6 DEF NoRecord, Limiters
<1>8. /\ r.now \in Instants /\ r.before \in Nat
      /\ k = "bucket" => r.read \in Buckets
      /\ k = "window" => r.read \in Windows
  BY <1>6, <1>7 DEF Asked
<1>9. /\ r.now <= now /\ r.before <= Total(k)
      /\ \A from \in Instants : from > r.now => Since(k)[from] <= z
      /\ k = "bucket" => BucketFits(r.read, z, Since(k), r.now)
      /\ k = "window" => WindowFits(r.read, z, Since(k), r.now)
  BY <1>2, <1>6 DEF ReadsFit
<1>10. Total(k) \in Nat /\ lost[k] \in Nat /\ Since(k) \in Sums BY <1>2, SinceType DEF LimiterTypes
<1>11. z = lost[k] + (Total(k) - r.before) BY DEF Missed
<1> HIDE DEF z, y, r
<1>12. CASE k # l
  <2>1. y = z BY <1>1, <1>11, <1>12 DEF y
  <2>2. Total(k)' = Total(k) /\ Since(k)' = Since(k) BY <1>1, <1>12
  <2> QED BY <1>1, <1>5, <1>9, <2>1, <2>2
<1>13. CASE k = l
  <2>1. z \in Nat BY <1>8, <1>9, <1>10, <1>11
  <2>2. r.before <= Total(k)' /\ Total(k)' \in Nat BY <1>1, <1>8, <1>9, <1>10, <1>13
  <2>3. y \in Nat BY <1>3, <1>8, <1>13, <2>2 DEF y
  <2>4. y - z >= IF allowed THEN 1 ELSE 0 BY <1>1, <1>3, <1>8, <1>11, <1>13 DEF y
  <2>5. \A from \in Instants : Since(k)[from] \in Nat BY <1>10 DEF Sums
  <2>6. \A from \in Instants : Since(k)'[from] <= Since(k)[from] + (y - z)
    <3>1. \A from \in Instants : Since(k)'[from] = grown(from) BY <1>1, <1>13
    <3> QED BY <1>13, <2>1, <2>3, <2>4, <2>5, <3>1
  <2>7. Since(k)' \in Sums BY <1>1
  <2>8. r.now \in Int BY <1>8, LimiterAssumption DEF Instants
  <2>9. k = "bucket" => BucketFits(r.read, y, Since(k)', r.now)
    BY <1>8, <1>9, <1>10, <2>1, <2>3, <2>6, <2>7, <2>8, BucketSlack
  <2>10. k = "window" => WindowFits(r.read, y, Since(k)', r.now)
    BY <1>8, <1>9, <1>10, <2>1, <2>3, <2>6, <2>7, <2>8, WindowSlack
  <2>11. \A from \in Instants : Since(k)'[from] \in Nat BY <2>7 DEF Sums
  <2>12. \A from \in Instants : from > r.now => Since(k)'[from] <= y
    BY <1>9, <2>1, <2>3, <2>5, <2>6, <2>11
  <2> QED BY <1>1, <1>5, <1>9, <2>2, <2>9, <2>10, <2>12
<1> QED BY <1>12, <1>13

-----------------------------------------------------------------------------
LEMMA BucketBound ==
  ASSUME NEW v \in Buckets, NEW z \in Nat, NEW a \in Sums, BucketFits(v, z, a, now),
         NEW from \in Instants, NEW to \in Instants, from <= to, v.at <= to
  PROVE  a[from] <= Capacity + Refill * (to - from) + z
<1>1. /\ v.tokens \in Nat /\ v.at \in Int /\ Capacity \in Nat /\ from \in Nat /\ to \in Nat
      /\ a[from] \in Nat
  BY LimiterAssumption DEF Buckets, Sums, Instants
<1>2. to - from \in Nat /\ Refill * (to - from) \in Nat
  <2>1. to - from \in Nat BY <1>1
  <2> QED BY <2>1, Gains
<1>3. CASE from > v.at
  <2>1. a[from] <= z BY <1>3 DEF BucketFits
  <2> DEFINE gained == Refill * (to - from)
  <2>2. gained \in Nat BY <1>2
  <2> HIDE DEF gained
  <2>3. a[from] <= Capacity + gained + z BY <1>1, <2>1, <2>2
  <2> QED BY <2>3 DEF gained
<1>4. CASE from <= v.at
  <2>1. v.at - from \in Nat /\ to - v.at \in Nat /\ to - from = (v.at - from) + (to - v.at) BY <1>1, <1>4
  <2>2. Refill * (v.at - from) \in Nat /\ Refill * (to - v.at) \in Nat BY <2>1, Gains
  <2>3. Refill * (to - from) = Refill * (v.at - from) + Refill * (to - v.at)
    <3>1. Refill * ((v.at - from) + (to - v.at)) = Refill * (v.at - from) + Refill * (to - v.at)
      BY <2>1, Gains
    <3> QED BY <2>1, <3>1
  <2>4. a[from] + v.tokens <= Capacity + Refill * (v.at - from) + z BY <1>4 DEF BucketFits
  <2> DEFINE early == Refill * (v.at - from)
             late == Refill * (to - v.at)
             gained == Refill * (to - from)
  <2>5. early \in Nat /\ late \in Nat /\ gained = early + late BY <2>2, <2>3
  <2>6. a[from] + v.tokens <= Capacity + early + z BY <2>4
  <2> HIDE DEF early, late, gained
  <2>7. a[from] <= Capacity + gained + z BY <1>1, <2>5, <2>6
  <2> QED BY <2>7 DEF gained
<1> QED BY <1>1, <1>3, <1>4

LEMMA ConsumeStep ==
  ASSUME LimiterInv, NEW c \in Clients, ConsumeBucket(c)
  PROVE  LimiterInv'
<1> DEFINE full == refill(asking[c].read, asking[c].now)
           allowed == full >= 1
           n == asking[c].now
           z == Missed("bucket", asking[c])
           w == [tokens |-> IF allowed THEN full - 1 ELSE full, at |-> n]
<1>1. /\ asking[c].limiter = "bucket" /\ bucket' = w /\ Grant(c, allowed) /\ window' = window
      /\ "bucket" \in Limiters /\ "window" \in Limiters /\ allowed \in BOOLEAN
  BY DEF ConsumeBucket, Limiters
<1> HIDE DEF allowed
<1>2. /\ asking[c] \in Asked /\ n \in Instants /\ n <= now
      /\ now' = now /\ admitted' \in Counts /\ lost' \in [Limiters -> Nat] /\ asking' \in [Clients -> Asked]
      /\ lost'["bucket"] = z /\ lost["bucket"] <= lost'["bucket"]
      /\ \A k \in Limiters : Countable(k)' /\ Since(k)' \in Sums
      /\ \A from \in Instants :
           Since("bucket")'[from] = Since("bucket")[from] + IF allowed /\ from <= n THEN 1 ELSE 0
      /\ \A from, to \in Instants :
           Within("bucket", from, to)' = Within("bucket", from, to)
                                           + IF allowed /\ from <= n /\ n <= to THEN 1 ELSE 0
      /\ lost'["window"] = lost["window"] /\ Since("window")' = Since("window")
      /\ \A from, to : Within("window", from, to)' = Within("window", from, to)
  BY <1>1, GrantFacts
<1>3. LimiterTypes /\ ReadsFit /\ CountersFit /\ NothingAhead /\ LimitersBound BY DEF LimiterInv
<1>4. z \in Nat /\ Since("bucket") \in Sums /\ now \in Nat
  BY <1>1, <1>2, <1>3, SinceType, LimiterAssumption DEF LimiterTypes, Instants
<1>5. asking[c].read \in Buckets /\ BucketFits(asking[c].read, z, Since("bucket"), n)
      /\ \A from \in Instants : from > n => Since("bucket")[from] <= z
  <2>1. asking[c].read \in Buckets BY <1>1, <1>2 DEF Asked, NoRecord
  <2> QED BY <1>1, <1>3, <2>1 DEF ReadsFit
<1> DEFINE b == Since("bucket")'
<1> HIDE DEF z
<1>6. w \in Buckets /\ BucketFits(w, z, b, now)
  <2> DEFINE v == asking[c].read
             a == Since("bucket")
  <2>1. /\ allowed <=> refill(v, n) >= 1
        /\ w = [tokens |-> IF allowed THEN refill(v, n) - 1 ELSE refill(v, n), at |-> n]
    BY DEF allowed
  <2>2. /\ b \in Sums /\ a \in Sums /\ v \in Buckets /\ n \in Instants /\ BucketFits(v, z, a, n)
        /\ \A from \in Instants : from > n => a[from] <= z
        /\ \A from \in Instants : b[from] = a[from] + IF allowed /\ from <= n THEN 1 ELSE 0
    BY <1>1, <1>2, <1>4, <1>5
  <2> HIDE DEF b, n, v, a, w
  <2>3. /\ [tokens |-> IF allowed THEN refill(v, n) - 1 ELSE refill(v, n), at |-> n] \in Buckets
        /\ BucketFits([tokens |-> IF allowed THEN refill(v, n) - 1 ELSE refill(v, n), at |-> n], z, b, now)
    BY <1>1, <1>2, <1>4, <2>1, <2>2, BucketWrite
  <2> QED BY <2>1, <2>3
<1>7. bucket' \in Buckets /\ BucketFits(bucket', lost'["bucket"], Since("bucket")', now')
  BY <1>1, <1>2, <1>6
<1> HIDE DEF full, w, n, b
<1>8. LimiterTypes' BY <1>1, <1>2, <1>3, <1>7 DEF LimiterTypes
<1>9. CountersFit' BY <1>1, <1>2, <1>3, <1>7 DEF CountersFit
<1>10. ReadsFit' BY <1>1, GrantReads
<1>11. NothingAhead'
  <2>1. ASSUME NEW from \in Instants, from > now PROVE Since("bucket")'[from] = 0
    <3>1. ~(from <= n) BY <1>2, <1>4, <2>1, LimiterAssumption DEF Instants
    <3>2. Since("bucket")[from] = 0 BY <1>1, <1>3, <2>1 DEF NothingAhead
    <3> QED BY <1>2, <3>1, <3>2
  <2> QED BY <1>2, <1>3, <2>1 DEF NothingAhead, Limiters
<1>12. LimitersBound'
  <2> SUFFICES ASSUME NEW from \in 0..MaxTime, NEW to \in 0..MaxTime, from <= to
               PROVE  /\ Within("bucket", from, to)' <= Capacity + Refill * (to - from) + lost'["bucket"]
                      /\ to - from < Window =>
                           Within("window", from, to)' <= Max({0, 2 * WindowLimit - 1}) + lost'["window"]
    BY DEF LimitersBound
  <2>1. from \in Instants /\ to \in Instants BY DEF Instants
  <2>2. /\ Within("bucket", from, to) <= Capacity + Refill * (to - from) + lost["bucket"]
        /\ to - from < Window =>
             Within("window", from, to) <= Max({0, 2 * WindowLimit - 1}) + lost["window"]
    BY <1>3 DEF LimitersBound
  <2>3. Within("bucket", from, to)' <= Capacity + Refill * (to - from) + lost'["bucket"]
    <3>1. CASE from <= n /\ n <= to
      <4>1. bucket'.at = n BY <1>1 DEF w
      <4>2. lost'["bucket"] \in Nat /\ Since("bucket")' \in Sums BY <1>1, <1>2
      <4>3. BucketFits(bucket', lost'["bucket"], Since("bucket")', now) BY <1>2, <1>7
      <4>4. Since("bucket")'[from] <= Capacity + Refill * (to - from) + lost'["bucket"]
        BY <1>7, <2>1, <3>1, <4>1, <4>2, <4>3, BucketBound
      <4>5. Within("bucket", from, to)' <= Since("bucket")'[from]
        <5>1. Within("bucket", from, to) <= Since("bucket")[from] /\ Within("bucket", from, to) \in Nat
          BY <1>1, <1>3, <2>1, SinceType
        <5>2. Since("bucket")[from] \in Nat BY <1>4, <2>1 DEF Sums
        <5> QED BY <1>1, <1>2, <2>1, <3>1, <5>1, <5>2
      <4>6. Within("bucket", from, to)' \in Nat /\ Since("bucket")'[from] \in Nat
        <5>1. Within("bucket", from, to) \in Nat BY <1>1, <1>3, <2>1, SinceType
        <5> QED BY <1>1, <1>2, <2>1, <4>2, <5>1 DEF Sums
      <4> DEFINE bound == Capacity + Refill * (to - from) + lost'["bucket"]
      <4>7. bound \in Int
        <5>1. to - from \in Nat OBVIOUS
        <5>2. Refill * (to - from) \in Nat BY <5>1, Gains
        <5> QED BY <4>2, <5>2, LimiterAssumption
      <4>8. Since("bucket")'[from] <= bound BY <4>4
      <4> HIDE DEF bound
      <4>9. Within("bucket", from, to)' <= bound BY <4>5, <4>6, <4>7, <4>8
      <4> QED BY <4>9 DEF bound
    <3>2. CASE ~(from <= n /\ n <= to)
      <4>1. Within("bucket", from, to)' = Within("bucket", from, to)
        <5>1. Within("bucket", from, to) \in Nat BY <1>1, <1>3, <2>1, SinceType
        <5> QED BY <1>2, <2>1, <3>2, <5>1
      <4>2. Within("bucket", from, to) \in Nat BY <1>1, <1>3, <2>1, SinceType
      <4> DEFINE gained == Refill * (to - from)
      <4>3. gained \in Nat
        <5>1. to - from \in Nat OBVIOUS
        <5> QED BY <5>1, Gains
      <4>4. Within("bucket", from, to) <= Capacity + gained + lost["bucket"] BY <2>2
      <4>5. lost["bucket"] \in Nat /\ lost'["bucket"] \in Nat /\ Capacity \in Nat
        BY <1>1, <1>2, <1>3, LimiterAssumption DEF LimiterTypes
      <4> HIDE DEF gained
      <4>6. Within("bucket", from, to)' <= Capacity + gained + lost'["bucket"]
        BY <1>2, <4>1, <4>2, <4>3, <4>4, <4>5
      <4> QED BY <4>6 DEF gained
    <3> QED BY <3>1, <3>2
  <2> QED BY <1>2, <2>2, <2>3
<1> QED BY <1>8, <1>9, <1>10, <1>11, <1>12 DEF LimiterInv

-----------------------------------------------------------------------------
LEMMA WindowBound ==
  ASSUME NEW v \in Windows, NEW z \in Nat, NEW a \in Sums, WindowFits(v, z, a, now), v.start # -1,
         WindowLimit > 0, NEW from \in Instants, NEW to \in Instants, v.start <= to, to - from < Window
  PROVE  a[from] <= Max({0, 2 * WindowLimit - 1}) + z
<1>1. /\ v.count \in Nat /\ v.start \in Int /\ WindowLimit \in Nat /\ Window \in Nat
      /\ from \in Nat /\ to \in Nat /\ a[from] \in Nat /\ v.count <= WindowLimit
  BY LimiterAssumption DEF Windows, Sums, Instants, WindowFits
<1>2. Max({0, 2 * WindowLimit - 1}) = 2 * WindowLimit - 1 BY <1>1, MaxOfTwo
<1>3. Less(WindowLimit) = WindowLimit - 1 BY <1>1 DEF Less
<1>4. from > v.start - Window BY <1>1
<1>5. a[from] <= Less(WindowLimit) + v.count + z BY <1>4 DEF WindowFits
<1> QED BY <1>1, <1>2, <1>3, <1>5

LEMMA HitStep ==
  ASSUME LimiterInv, NEW c \in Clients, HitWindow(c)
  PROVE  LimiterInv'
<1> DEFINE v == asking[c].read
           n == asking[c].now
           expired == v.start = -1 \/ n - v.start >= Window
           count == IF expired THEN 0 ELSE v.count
           allowed == count < WindowLimit
           z == Missed("window", asking[c])
           w == [count |-> IF allowed THEN count + 1 ELSE count, start |-> IF expired THEN n ELSE v.start]
           a == Since("window")
           b == Since("window")'
<1>1. /\ asking[c].limiter = "window" /\ window' = w /\ Grant(c, allowed) /\ bucket' = bucket
      /\ "bucket" \in Limiters /\ "window" \in Limiters /\ allowed \in BOOLEAN /\ expired \in BOOLEAN
  BY DEF HitWindow, Limiters
<1>2. /\ expired <=> v.start = -1 \/ n - v.start >= Window
      /\ count = IF expired THEN 0 ELSE v.count
      /\ allowed <=> count < WindowLimit
  OBVIOUS
<1> HIDE DEF allowed, expired, count
<1>3. /\ asking[c] \in Asked /\ n \in Instants /\ n <= now
      /\ now' = now /\ admitted' \in Counts /\ lost' \in [Limiters -> Nat] /\ asking' \in [Clients -> Asked]
      /\ lost'["window"] = z /\ lost["window"] <= lost'["window"]
      /\ \A k \in Limiters : Countable(k)' /\ Since(k)' \in Sums
      /\ \A from \in Instants : b[from] = a[from] + IF allowed /\ from <= n THEN 1 ELSE 0
      /\ \A from, to \in Instants :
           Within("window", from, to)' = Within("window", from, to)
                                           + IF allowed /\ from <= n /\ n <= to THEN 1 ELSE 0
      /\ lost'["bucket"] = lost["bucket"] /\ Since("bucket")' = Since("bucket")
      /\ \A from, to : Within("bucket", from, to)' = Within("bucket", from, to)
  BY <1>1, GrantFacts
<1>4. LimiterTypes /\ ReadsFit /\ CountersFit /\ NothingAhead /\ LimitersBound BY DEF LimiterInv
<1>5. z \in Nat /\ a \in Sums /\ now \in Nat /\ n \in Nat /\ WindowLimit \in Nat
  BY <1>1, <1>3, <1>4, SinceType, LimiterAssumption DEF LimiterTypes, Instants
<1>6. v \in Windows /\ WindowFits(v, z, a, n) /\ \A from \in Instants : from > n => a[from] <= z
  <2>1. v \in Windows BY <1>1, <1>3 DEF Asked, NoRecord
  <2> QED BY <1>1, <1>4, <2>1 DEF ReadsFit
<1>7. allowed => WindowLimit > 0
  <2>1. count \in Nat BY <1>2, <1>6 DEF Windows
  <2> QED BY <1>2, <1>5, <2>1
<1>8. w.start # -1 /\ w.start <= n
  <2>1. v.start \in Int /\ v.start <= n BY <1>5, <1>6 DEF Windows, WindowFits
  <2> QED BY <1>2, <1>5, <2>1
<1> HIDE DEF z
<1>9. w \in Windows /\ WindowFits(w, z, b, now)
  <2>1. b \in Sums BY <1>1, <1>3
  <2>2. WindowLimit = 0 => \A from \in Instants : a[from] = 0 BY <1>4 DEF NothingAhead
  <2>3. w = [count |-> IF allowed THEN Counted(v, n) + 1 ELSE Counted(v, n),
             start |-> IF Over(v, n) THEN n ELSE v.start]
    BY DEF expired, count, Over, Counted
  <2>4. allowed <=> Counted(v, n) < WindowLimit BY DEF allowed, count, expired, Over, Counted
  <2> HIDE DEF a, b, n, v, w
  <2>5. LET u == [count |-> IF allowed THEN Counted(v, n) + 1 ELSE Counted(v, n),
                  start |-> IF Over(v, n) THEN n ELSE v.start]
        IN  u \in Windows /\ WindowFits(u, z, b, now)
    BY <1>1, <1>3, <1>5, <1>6, <2>1, <2>2, <2>4, WindowWrite
  <2> QED BY <2>3, <2>5
<1>10. window' \in Windows /\ WindowFits(window', lost'["window"], Since("window")', now')
       /\ window'.start # -1 /\ window'.start <= n
  BY <1>1, <1>3, <1>8, <1>9
<1> HIDE DEF w, n, a, b, v
<1>11. LimiterTypes' BY <1>1, <1>3, <1>4, <1>10 DEF LimiterTypes
<1>12. CountersFit' BY <1>1, <1>3, <1>4, <1>10 DEF CountersFit
<1>13. ReadsFit' BY <1>1, GrantReads
<1>14. NothingAhead'
  <2>1. ASSUME NEW from \in Instants, from > now PROVE Since("window")'[from] = 0
    <3>1. ~(from <= n) BY <1>3, <1>5, <2>1, LimiterAssumption DEF Instants
    <3>2. a[from] = 0 BY <1>1, <1>4, <2>1 DEF NothingAhead, a
    <3>3. b[from] = 0 BY <1>3, <3>1, <3>2
    <3> QED BY <3>3 DEF b
  <2>2. ASSUME WindowLimit = 0, NEW from \in Instants PROVE Since("window")'[from] = 0
    <3>1. a[from] = 0 BY <1>4, <2>2 DEF NothingAhead, a
    <3>2. b[from] = 0 BY <1>3, <1>7, <2>2, <3>1
    <3> QED BY <3>2 DEF b
  <2> QED BY <1>3, <1>4, <2>1, <2>2 DEF NothingAhead, Limiters
<1>15. LimitersBound'
  <2> SUFFICES ASSUME NEW from \in 0..MaxTime, NEW to \in 0..MaxTime, from <= to
               PROVE  /\ Within("bucket", from, to)' <= Capacity + Refill * (to - from) + lost'["bucket"]
                      /\ to - from < Window =>
                           Within("window", from, to)' <= Max({0, 2 * WindowLimit - 1}) + lost'["window"]
    BY DEF LimitersBound
  <2>1. from \in Instants /\ to \in Instants /\ from \in Nat /\ to \in Nat BY DEF Instants
  <2>2. /\ Within("bucket", from, to) <= Capacity + Refill * (to - from) + lost["bucket"]
        /\ to - from < Window =>
             Within("window", from, to) <= Max({0, 2 * WindowLimit - 1}) + lost["window"]
    BY <1>4 DEF LimitersBound
  <2>3. /\ Within("window", from, to) \in Nat /\ Within("window", from, to) <= a[from]
        /\ lost["window"] \in Nat /\ lost'["window"] \in Nat
    BY <1>1, <1>3, <1>4, <2>1, SinceType DEF LimiterTypes, a
  <2> DEFINE most == Max({0, 2 * WindowLimit - 1})
  <2>4. most \in Nat
    <3>1. 2 * WindowLimit - 1 \in Int BY <1>5
    <3> QED BY <1>5, <3>1, MaxOfTwo
  <2>5. ASSUME to - from < Window PROVE Within("window", from, to)' <= most + lost'["window"]
    <3>1. CASE allowed /\ from <= n /\ n <= to
      <4>1. window'.start <= to
        <5>1. window'.start \in Int BY <1>10 DEF Windows
        <5> QED BY <1>5, <1>10, <2>1, <3>1, <5>1
      <4>2. Since("window")' \in Sums /\ WindowFits(window', lost'["window"], Since("window")', now)
        BY <1>1, <1>3, <1>10
      <4>3. Since("window")'[from] <= most + lost'["window"]
        BY <1>7, <1>10, <2>1, <2>3, <2>5, <3>1, <4>1, <4>2, WindowBound
      <4>4. b[from] = a[from] + 1 /\ Within("window", from, to)' = Within("window", from, to) + 1
        BY <1>3, <2>1, <3>1
      <4>5. b[from] <= most + lost'["window"] /\ a[from] \in Nat BY <1>5, <2>1, <4>3 DEF b, Sums
      <4> HIDE DEF most
      <4> QED BY <2>3, <2>4, <4>4, <4>5
    <3>2. CASE ~(allowed /\ from <= n /\ n <= to)
      <4>1. Within("window", from, to)' = Within("window", from, to) BY <1>3, <2>1, <2>3, <3>2
      <4>2. Within("window", from, to) <= most + lost["window"] BY <2>2, <2>5
      <4> HIDE DEF most
      <4> QED BY <1>3, <2>3, <2>4, <4>1, <4>2
    <3> QED BY <3>1, <3>2
  <2> QED BY <1>3, <2>2, <2>5
<1> QED BY <1>11, <1>12, <1>13, <1>14, <1>15 DEF LimiterInv

\* LimitersBound, for any number of calls at once, any capacity, rate and window: a
\* write that wipes out others' admissions admits no more than it is charged with.
THEOREM LimitersKeepTheirBound == LimiterSpec => []LimitersBound
<1>1. LimiterInv /\ [LimiterNext]_limiterVars => LimiterInv'
  <2> SUFFICES ASSUME LimiterInv, [LimiterNext]_limiterVars PROVE LimiterInv'
    OBVIOUS
  <2>1. CASE Elapse BY <2>1, ElapseStep
  <2>2. ASSUME NEW c \in Clients, NEW l \in Limiters, Get(c, l) PROVE LimiterInv' BY <2>2, GetStep
  <2>3. ASSUME NEW c \in Clients, ConsumeBucket(c) PROVE LimiterInv' BY <2>3, ConsumeStep
  <2>4. ASSUME NEW c \in Clients, HitWindow(c) PROVE LimiterInv' BY <2>4, HitStep
  <2>5. CASE UNCHANGED limiterVars
    <3>1. /\ now' = now /\ bucket' = bucket /\ window' = window /\ asking' = asking
          /\ admitted' = admitted /\ lost' = lost
      BY <2>5 DEF limiterVars
    <3>2. \A l, from, to : Within(l, from, to)' = Within(l, from, to)
      BY <3>1 DEF Within, AdmittedCalls
    <3>3. \A l : Since(l)' = Since(l) /\ Total(l)' = Total(l) /\ Countable(l)' = Countable(l)
      BY <3>1, <3>2 DEF Since, Total, Countable, AdmittedCalls
    <3>4. \A l, r : Missed(l, r)' = Missed(l, r) BY <3>1, <3>3 DEF Missed
    <3>5. LimiterTypes' BY <3>1, <3>3 DEF LimiterInv, LimiterTypes
    <3>6. CountersFit' BY <3>1, <3>3 DEF LimiterInv, CountersFit
    <3>7. ReadsFit' BY <3>1, <3>3, <3>4 DEF LimiterInv, ReadsFit
    <3>8. NothingAhead' BY <3>1, <3>3 DEF LimiterInv, NothingAhead
    <3>9. LimitersBound' BY <3>1, <3>2 DEF LimiterInv, LimitersBound
    <3> QED BY <3>5, <3>6, <3>7, <3>8, <3>9 DEF LimiterInv
  <2> QED BY <2>1, <2>2, <2>3, <2>4, <2>5 DEF LimiterNext
<1>2. LimiterInv => LimitersBound BY DEF LimiterInv
<1> QED BY <1>1, <1>2, LimiterStart, PTL DEF LimiterSpec

-----------------------------------------------------------------------------
(* The audit trail.                                                        *)

Trail == [tenant : AuditTenants, actor : Actors, action : Actions, resource : Resources, ts : Stamps]
TrailTyped == entries \in Seq(Trail)

LEMMA TrailEntry ==
  ASSUME TrailTyped, NEW i \in DOMAIN entries
  PROVE  /\ i \in Nat /\ entries[i].action \in Nat /\ entries[i].resource \in Nat
         /\ entries[i].ts \in Stamps /\ entries[i].ts \in [sec : Int, ms : 0..1]
         /\ StringRank(entries[i].ts) \in Int
<1>1. i \in Nat /\ entries[i] \in Trail BY DEF TrailTyped
<1>2. entries[i].action \in Nat /\ entries[i].resource \in Nat /\ entries[i].ts \in Stamps
  BY <1>1, AuditAssumption DEF Trail
<1> DEFINE s == entries[i].ts
<1>3. s \in Stamps BY <1>2
<1> HIDE DEF s
<1>4. s \in [sec : Int, ms : 0..1] BY <1>3 DEF Stamps
<1>5. StringRank(s) \in Int BY <1>4 DEF StringRank
<1> QED BY <1>1, <1>2, <1>4, <1>5 DEF s

\* Stable sorting is by a strict order in which any two entries are.
LEMMA PrecedesOrders ==
  ASSUME TrailTyped, NEW i \in DOMAIN entries, NEW j \in DOMAIN entries
  PROVE  /\ ~Precedes(i, i)
         /\ i # j => Precedes(i, j) \/ Precedes(j, i)
         /\ Precedes(i, j) => StringRank(entries[i].ts) <= StringRank(entries[j].ts)
         /\ \A k \in DOMAIN entries : Precedes(i, j) /\ Precedes(j, k) => Precedes(i, k)
<1>1. \A m \in DOMAIN entries :
        /\ m \in Nat /\ entries[m].action \in Nat /\ entries[m].resource \in Nat
        /\ StringRank(entries[m].ts) \in Int
  BY TrailEntry
<1>2. \A m, n \in DOMAIN entries :
        StringRank(entries[m].ts) = StringRank(entries[n].ts) <=> entries[m].ts = entries[n].ts
  <2> SUFFICES ASSUME NEW m \in DOMAIN entries, NEW n \in DOMAIN entries,
                      StringRank(entries[m].ts) = StringRank(entries[n].ts)
               PROVE  entries[m].ts = entries[n].ts
    OBVIOUS
  <2>1. entries[m].ts \in Stamps /\ entries[n].ts \in Stamps BY TrailEntry
  <2> DEFINE s == entries[m].ts
             u == entries[n].ts
  <2>2. s \in Stamps /\ u \in Stamps /\ StringRank(s) = StringRank(u) BY <2>1
  <2> HIDE DEF s, u
  <2>3. s.sec \in Int /\ u.sec \in Int /\ s.ms \in 0..1 /\ u.ms \in 0..1 BY <2>2 DEF Stamps
  <2>4. 3 * s.sec + s.ms = 3 * u.sec + u.ms BY <2>2 DEF StringRank
  <2>5. s.sec = u.sec /\ s.ms = u.ms
    <3> DEFINE a == s.sec
               b == u.sec
               x == s.ms
               y == u.ms
    <3>1. a \in Int /\ b \in Int /\ x \in 0..1 /\ y \in 0..1 /\ 3 * a + x = 3 * b + y BY <2>3, <2>4
    <3> HIDE DEF a, b, x, y
    <3>2. ~(a < b) /\ ~(b < a) BY <3>1
    <3>3. a = b /\ x = y BY <3>1, <3>2
    <3> QED BY <3>3 DEF a, b, x, y
  <2>6. s = u BY <2>2, <2>5 DEF Stamps
  <2> QED BY <2>6 DEF s, u
<1> DEFINE t(m) == StringRank(entries[m].ts)
           a(m) == entries[m].action
           r(m) == entries[m].resource
           less(m, n) == \/ t(m) < t(n)
                         \/ t(m) = t(n) /\ a(m) < a(n)
                         \/ t(m) = t(n) /\ a(m) = a(n) /\ r(m) < r(n)
<1>3. \A m, n \in DOMAIN entries : Precedes(m, n) <=> less(m, n) \/ (~less(n, m) /\ m < n)
  BY <1>2 DEF Precedes, compareEntries
<1>4. \A m \in DOMAIN entries : m \in Nat /\ t(m) \in Int /\ a(m) \in Nat /\ r(m) \in Nat BY <1>1
<1> HIDE DEF t, a, r
<1>5. ~Precedes(i, i) BY <1>3, <1>4
<1>6. i # j => Precedes(i, j) \/ Precedes(j, i) BY <1>3, <1>4
<1>7. Precedes(i, j) => t(i) <= t(j) BY <1>3, <1>4
<1>8. \A k \in DOMAIN entries : Precedes(i, j) /\ Precedes(j, k) => Precedes(i, k)
  BY <1>3, <1>4
<1> QED BY <1>5, <1>6, <1>7, <1>8 DEF t

\* In the answer every matching entry has a place, and no two the same.
LEMMA PlacesAreTaken ==
  ASSUME TrailTyped, NEW found \in SUBSET DOMAIN entries
  PROVE  /\ IsFiniteSet(found) /\ Cardinality(found) \in Nat
         /\ \A i \in found : Place(i, found) \in 1..Cardinality(found)
         /\ \A i, j \in found : Place(i, found) < Place(j, found) => Precedes(i, j)
         /\ \A i, j \in found : Place(i, found) = Place(j, found) => i = j
         /\ \A k \in 1..Cardinality(found) : \E i \in found : Place(i, found) = k
<1> DEFINE n == Cardinality(found)
           ahead(i) == {j \in found : Precedes(j, i)}
<1>1. IsFiniteSet(found) /\ n \in Nat
  <2>1. DOMAIN entries = 1..Len(entries) /\ Len(entries) \in Nat BY DEF TrailTyped
  <2>2. IsFiniteSet(DOMAIN entries) BY <2>1, FS_Interval
  <2>3. IsFiniteSet(found) BY <2>2, FS_Subset
  <2> QED BY <2>3, FS_CardinalityType
<1>2. ASSUME NEW i \in found
      PROVE  /\ ahead(i) \in SUBSET found /\ IsFiniteSet(ahead(i))
             /\ Cardinality(ahead(i)) \in 0..(n - 1) /\ i \notin ahead(i)
  <2>1. i \notin ahead(i) BY PrecedesOrders
  <2>2. ahead(i) \in SUBSET (found \ {i}) BY <2>1
  <2>3. IsFiniteSet(found \ {i}) /\ Cardinality(found \ {i}) = n - 1
    BY <1>1, FS_RemoveElement
  <2> DEFINE rest == found \ {i}
             x == ahead(i)
  <2> HIDE DEF rest, x
  <2>4. IsFiniteSet(x) /\ Cardinality(x) <= Cardinality(rest) /\ Cardinality(x) \in Nat
    <3>1. IsFiniteSet(rest) /\ x \in SUBSET rest BY <2>2, <2>3 DEF rest, x
    <3>2. IsFiniteSet(x) /\ Cardinality(x) <= Cardinality(rest) BY <3>1, FS_Subset
    <3> QED BY <3>2, FS_CardinalityType
  <2>5. Cardinality(x) \in 0..(n - 1) BY <1>1, <2>3, <2>4 DEF rest
  <2> QED BY <2>1, <2>2, <2>4, <2>5 DEF x
<1>3. ASSUME NEW i \in found, NEW j \in found, Precedes(i, j)
      PROVE  Cardinality(ahead(i)) < Cardinality(ahead(j))
  <2>1. i \in ahead(j) /\ i \notin ahead(i) BY <1>2, <1>3
  <2>2. ahead(i) \subseteq ahead(j)
    <3> SUFFICES ASSUME NEW k \in found, Precedes(k, i) PROVE Precedes(k, j)
      OBVIOUS
    <3> QED BY <1>3, PrecedesOrders
  <2> DEFINE x == ahead(i)
             y == ahead(j)
  <2>3. IsFiniteSet(x) /\ IsFiniteSet(y) /\ Cardinality(x) \in Nat /\ Cardinality(y) \in Nat
    BY <1>1, <1>2
  <2>4. x \subseteq y /\ x # y BY <2>1, <2>2
  <2> HIDE DEF x, y
  <2>5. Cardinality(x) <= Cardinality(y) /\ Cardinality(x) # Cardinality(y) BY <2>3, <2>4, FS_Subset
  <2>6. Cardinality(x) < Cardinality(y) BY <2>3, <2>5
  <2> QED BY <2>6 DEF x, y
<1>4. \A i \in found : Place(i, found) = Cardinality(ahead(i)) + 1 BY DEF Place
<1>5. \A i \in found : Place(i, found) \in 1..n
  <2> SUFFICES ASSUME NEW i \in found PROVE Place(i, found) \in 1..n
    OBVIOUS
  <2>1. Cardinality(ahead(i)) \in 0..(n - 1) BY <1>2
  <2>2. Place(i, found) = Cardinality(ahead(i)) + 1 BY <1>4
  <2> HIDE DEF n, ahead
  <2> QED BY <1>1, <2>1, <2>2
<1>6. \A i, j \in found : Precedes(i, j) => Place(i, found) < Place(j, found)
  <2> SUFFICES ASSUME NEW i \in found, NEW j \in found, Precedes(i, j)
               PROVE  Place(i, found) < Place(j, found)
    OBVIOUS
  <2>1. Cardinality(ahead(i)) \in Nat /\ Cardinality(ahead(j)) \in Nat
    <3>1. Cardinality(ahead(i)) \in 0..(n - 1) /\ Cardinality(ahead(j)) \in 0..(n - 1) BY <1>2
    <3> HIDE DEF n, ahead
    <3> QED BY <3>1
  <2>2. Cardinality(ahead(i)) < Cardinality(ahead(j)) BY <1>3
  <2>3. Place(i, found) = Cardinality(ahead(i)) + 1 /\ Place(j, found) = Cardinality(ahead(j)) + 1 BY <1>4
  <2> HIDE DEF ahead
  <2> QED BY <2>1, <2>2, <2>3
<1>7. \A i, j \in found : i # j => Precedes(i, j) \/ Precedes(j, i) BY PrecedesOrders
<1> HIDE DEF n
<1>8. \A i, j \in found : Place(i, found) = Place(j, found) => i = j BY <1>1, <1>5, <1>6, <1>7
<1>9. \A i, j \in found : Place(i, found) < Place(j, found) => Precedes(i, j) BY <1>1, <1>5, <1>6, <1>7
<1>10. ASSUME NEW k \in 1..n PROVE \E i \in found : Place(i, found) = k
  <2> DEFINE f == [i \in found |-> Place(i, found)]
  <2>1. f \in Injection(found, 1..n) BY <1>5, <1>8 DEF Injection, IsInjective
  <2>2. IsFiniteSet(1..n) /\ Cardinality(1..n) = n
    <3>1. IsFiniteSet(1..n) /\ Cardinality(1..n) = IF 1 > n THEN 0 ELSE n - 1 + 1 BY <1>1, FS_Interval
    <3> QED BY <1>1, <3>1
  <2> HIDE DEF f
  <2>3. Cardinality(found) = Cardinality(1..n) BY <2>2 DEF n
  <2>4. f \in Surjection(found, 1..n) BY <2>1, <2>2, <2>3, FS_Injection
  <2>5. PICK i \in found : f[i] = k BY <2>4 DEF Surjection
  <2> QED BY <2>5 DEF f
<1> QED BY <1>1, <1>5, <1>8, <1>9, <1>10 DEF n

\* With milliseconds, strings and instants are ordered alike.
LEMMA OrderedAlike ==
  ASSUME NEW s \in [sec : Int, ms : 0..1], NEW u \in [sec : Int, ms : 0..1]
  PROVE  StringRank(s) <= StringRank(u) <=> Instant(s) <= Instant(u)
<1>1. s.sec \in Int /\ u.sec \in Int /\ s.ms \in 0..1 /\ u.ms \in 0..1 OBVIOUS
<1>2. s.ms # NoMillis /\ u.ms # NoMillis BY <1>1 DEF NoMillis
<1>3. /\ StringRank(s) = 3 * s.sec + s.ms /\ StringRank(u) = 3 * u.sec + u.ms
      /\ Instant(s) = 2 * s.sec + s.ms /\ Instant(u) = 2 * u.sec + u.ms
  BY <1>2 DEF StringRank, Instant
<1> QED BY <1>1, <1>3

LEMMA MatchesAlike ==
  ASSUME TrailTyped, NEW f \in Filters, Exact(f.from), Exact(f.to)
  PROVE  Matching(f) = DbRows(f)
<1>1. \A b \in Bounds : Exact(b) /\ b # Absent => b \in [sec : Int, ms : 0..1]
  BY DEF Bounds, Exact, NoMillis
<1>2. f.from \in Bounds /\ f.to \in Bounds BY DEF Filters
<1>3. \A i \in DOMAIN entries : entries[i].ts \in [sec : Int, ms : 0..1]
  BY TrailEntry
<1>4. ASSUME NEW i \in DOMAIN entries
      PROVE  /\ f.from # Absent => (StringRank(entries[i].ts) >= StringRank(f.from)
                                      <=> Instant(entries[i].ts) >= Instant(f.from))
             /\ f.to # Absent => (StringRank(entries[i].ts) <= StringRank(f.to)
                                    <=> Instant(entries[i].ts) <= Instant(f.to))
  <2> DEFINE s == entries[i].ts
  <2>1. s \in [sec : Int, ms : 0..1] BY <1>3
  <2> HIDE DEF s
  <2>2. ASSUME f.from # Absent PROVE StringRank(s) >= StringRank(f.from) <=> Instant(s) >= Instant(f.from)
    <3> DEFINE b == f.from
    <3>1. b \in [sec : Int, ms : 0..1] BY <1>1, <1>2, <2>2
    <3> HIDE DEF b
    <3>2. StringRank(b) <= StringRank(s) <=> Instant(b) <= Instant(s) BY <2>1, <3>1, OrderedAlike
    <3> QED BY <3>2 DEF b
  <2>3. ASSUME f.to # Absent PROVE StringRank(s) <= StringRank(f.to) <=> Instant(s) <= Instant(f.to)
    <3> DEFINE b == f.to
    <3>1. b \in [sec : Int, ms : 0..1] BY <1>1, <1>2, <2>3
    <3> HIDE DEF b
    <3>2. StringRank(s) <= StringRank(b) <=> Instant(s) <= Instant(b) BY <2>1, <3>1, OrderedAlike
    <3> QED BY <3>2 DEF b
  <2> QED BY <2>2, <2>3 DEF s
<1> QED BY <1>4 DEF Matching, DbRows, Matches, Selects

LEMMA AnswersAlike == TrailTyped => StoresAgree
<1> SUFFICES ASSUME TrailTyped, NEW f \in Filters, Exact(f.from), Exact(f.to)
             PROVE  DbMayAnswer(f, MemoryQuery(f))
  BY DEF StoresAgree
<1> DEFINE found == Matching(f)
           n == Cardinality(found)
           order == [k \in 1..n |-> CHOOSE i \in found : Place(i, found) = k]
           answer == MemoryQuery(f)
<1>1. found \in SUBSET DOMAIN entries BY DEF Matching
<1>2. found = DbRows(f) BY MatchesAlike
<1>3. answer = [k \in 1..n |-> entries[CHOOSE i \in found : Place(i, found) = k]] BY DEF MemoryQuery
<1> HIDE DEF found, answer
<1>4. /\ n \in Nat
      /\ \A i \in found : Place(i, found) \in 1..n
      /\ \A i, j \in found : Place(i, found) < Place(j, found) => Precedes(i, j)
      /\ \A k \in 1..n : \E i \in found : Place(i, found) = k
      /\ \A i, j \in found : Place(i, found) = Place(j, found) => i = j
  BY <1>1, PlacesAreTaken
<1>5. \A k \in 1..n : order[k] \in found /\ Place(order[k], found) = k BY <1>4
<1>6. DOMAIN order = 1..n /\ DOMAIN answer = 1..n /\ \A k \in 1..n : answer[k] = entries[order[k]]
  BY <1>3
<1>7. order \in [1..n -> found] BY <1>5
<1> HIDE DEF order
<1>8. order \in Bijection(1..n, found)
  <2>1. \A k, m \in 1..n : order[k] = order[m] => k = m BY <1>5
  <2>2. \A i \in found : \E k \in 1..n : order[k] = i BY <1>4, <1>5
  <2> QED BY <1>7, <2>1, <2>2 DEF Bijection, Injection, Surjection, IsInjective
<1>9. ASSUME NEW k \in 1..n, k > 1
      PROVE  Instant(answer[k - 1].ts) <= Instant(answer[k].ts)
  <2>1. k - 1 \in 1..n /\ k - 1 < k BY <1>4, <1>9
  <2> DEFINE i == order[k - 1]
             j == order[k]
  <2>2. i \in found /\ j \in found /\ i \in DOMAIN entries /\ j \in DOMAIN entries BY <1>1, <1>5, <2>1
  <2>3. Precedes(i, j) BY <1>4, <1>5, <2>1, <2>2
  <2> HIDE DEF i, j
  <2>4. StringRank(entries[i].ts) <= StringRank(entries[j].ts) BY <2>2, <2>3, PrecedesOrders
  <2>5. entries[i].ts \in [sec : Int, ms : 0..1] /\ entries[j].ts \in [sec : Int, ms : 0..1]
    BY <2>2, TrailEntry
  <2>6. Instant(entries[i].ts) <= Instant(entries[j].ts)
    <3> DEFINE s == entries[i].ts
               u == entries[j].ts
    <3>1. s \in [sec : Int, ms : 0..1] /\ u \in [sec : Int, ms : 0..1] /\ StringRank(s) <= StringRank(u)
      BY <2>4, <2>5
    <3> HIDE DEF s, u
    <3>2. Instant(s) <= Instant(u) BY <3>1, OrderedAlike
    <3> QED BY <3>2 DEF s, u
  <2> QED BY <1>6, <2>1, <2>6 DEF i, j
<1>10. \E o \in Bijection(DOMAIN answer, DbRows(f)) :
         \A k \in DOMAIN answer :
           /\ answer[k] = entries[o[k]]
           /\ k > 1 => Instant(answer[k - 1].ts) <= Instant(answer[k].ts)
  BY <1>2, <1>6, <1>8, <1>9
<1> QED BY <1>10 DEF DbMayAnswer, answer

\* Both audit stores answer every filter alike whose bounds have milliseconds, for any
\* tenants, actors and entries.
THEOREM AuditStoresAgree == AuditSpec => []StoresAgree
<1>1. AuditInit => TrailTyped BY DEF AuditInit, TrailTyped
<1>2. TrailTyped /\ [AuditNext]_entries => TrailTyped'
  <2> SUFFICES ASSUME TrailTyped, [AuditNext]_entries PROVE TrailTyped'
    OBVIOUS
  <2>1. CASE entries' = entries BY <2>1 DEF TrailTyped
  <2>2. CASE AuditNext
    <3>1. PICK t \in AuditTenants, a \in Actors, c \in Actions, r \in Resources, s \in Stamps :
            AppendEntry(t, a, c, r, s)
      BY <2>2 DEF AuditNext
    <3> DEFINE e == [tenant |-> t, actor |-> a, action |-> c, resource |-> r, ts |-> s]
    <3>2. e \in Trail BY DEF Trail
    <3>3. entries' = Append(entries, e) BY <3>1 DEF AppendEntry
    <3> HIDE DEF e
    <3> QED BY <3>2, <3>3, AppendProperties DEF TrailTyped
  <2> QED BY <2>1, <2>2
<1> QED BY <1>1, <1>2, AnswersAlike, PTL DEF AuditSpec
=============================================================================
