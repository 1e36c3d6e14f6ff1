----------------------------- MODULE ScanProofs -----------------------------
(***************************************************************************)
(* For every room in the array and all lease files, listings and answers   *)
(* of nft: the loops of rebuild() keep the array within its room with one  *)
(* entry per MAC, and end with the table that DeviceTable defines.         *)
(***************************************************************************)
EXTENDS LeaseScan, FiniteSetTheorems, TLAPS

Unique(l) == \A a, b \in DOMAIN l : l[a].mac = l[b].mac => a = b
Sorted(l) == \A a, b \in DOMAIN l : a < b => l[a].mac < l[b].mac

ArrayOK(l) == l \in Seq(Entry) /\ Len(l) <= MaxDevices /\ Unique(l)

\* rebuild() and the use of its result.
ScanInv ==
    /\ pc \in {"read", "merge", "mark", "sort", "done", "first", "diff", "publish"}
    /\ k \in Nat \ {0}
    /\ lines \in LeaseFiles
    /\ listed \in Listings
    /\ ArrayOK(list)
    /\ pc \in {"done", "first", "diff", "publish"} => Sorted(list)

----------------------------------------------------------------------------
(* rebuild().                                                              *)

\* add_or_merge keeps the array within its room and its entries apart.
LEMMA AddOrMerge ==
    ASSUME NEW l, ArrayOK(l), NEW d \in Entry
    PROVE  ArrayOK(add_or_merge(l, d))
<1> USE DEF ArrayOK, Unique
<1>1. CASE \E n \in DOMAIN l : l[n].mac = d.mac
  <2> DEFINE r == [n \in DOMAIN l |-> IF FindsAt(l, d.mac, n) THEN Merge(l[n], d) ELSE l[n]]
  <2>1. add_or_merge(l, d) = r
    BY <1>1 DEF add_or_merge
  <2>2. \A e \in Entry : Merge(e, d) \in Entry /\ Merge(e, d).mac = e.mac
    BY DEF Merge, Entry
  <2>3. \A n \in DOMAIN l : r[n] \in Entry /\ r[n].mac = l[n].mac
    BY <2>2
  <2>4. r \in Seq(Entry) /\ DOMAIN r = DOMAIN l /\ Len(r) = Len(l)
    BY <2>3
  <2> HIDE DEF r
  <2> QED BY <2>1, <2>3, <2>4
<1>2. CASE ~(\E n \in DOMAIN l : l[n].mac = d.mac) /\ Len(l) >= MaxDevices
  BY <1>2 DEF add_or_merge
<1>3. CASE ~(\E n \in DOMAIN l : l[n].mac = d.mac) /\ ~(Len(l) >= MaxDevices)
  <2>1. add_or_merge(l, d) = Append(l, d)
    BY <1>3 DEF add_or_merge
  <2>2. Append(l, d) \in Seq(Entry) /\ Len(Append(l, d)) = Len(l) + 1
    OBVIOUS
  <2>3. Len(Append(l, d)) <= MaxDevices
    BY <1>3, <2>2, DeviceAssumption
  <2>4. Unique(Append(l, d))
    BY <1>3, <2>2
  <2> QED BY <2>1, <2>2, <2>3, <2>4
<1> QED BY <1>1, <1>2, <1>3

\* qsort leaves the entries strictly sorted, since no two have one MAC.
LEMMA Sorting ==
    ASSUME ArrayOK(list), Sort
    PROVE  ArrayOK(list') /\ Sorted(list')
<1>1. PICK p \in Reorderings(Len(list)) :
          /\ \A a, b \in 1..Len(list) : a < b => list[p[a]].mac <= list[p[b]].mac
          /\ list' = [a \in 1..Len(list) |-> list[p[a]]]
  BY DEF Sort
<1>2. /\ p \in [1..Len(list) -> 1..Len(list)]
      /\ \A a, b \in 1..Len(list) : a # b => p[a] # p[b]
  BY DEF Reorderings
<1>3. list \in Seq(Entry) /\ DOMAIN list = 1..Len(list) /\ Len(list) \in Nat
  BY DEF ArrayOK
<1>4. list' \in Seq(Entry) /\ Len(list') = Len(list) /\ DOMAIN list' = 1..Len(list)
  <2>1. \A a \in 1..Len(list) : p[a] \in 1..Len(list)
    BY ONLY <1>2
  <2>2. \A a \in 1..Len(list) : list[p[a]] \in Entry
    BY ONLY <1>3, <2>1
  <2>3. list' = [a \in 1..Len(list) |-> list[p[a]]]
    BY <1>1
  <2> QED BY ONLY <1>3, <2>2, <2>3
<1>5. \A a \in 1..Len(list) : list[p[a]].mac \in Nat /\ list'[a].mac = list[p[a]].mac
  <2>1. \A e \in Entry : e.mac \in Nat
    BY ScanAssumption DEF Entry
  <2>2. \A a \in 1..Len(list) : p[a] \in 1..Len(list) /\ list[p[a]] \in Entry
    BY <1>2, <1>3
  <2> QED BY <1>1, <2>1, <2>2
<1>6. \A a, b \in 1..Len(list) : a # b => list[p[a]].mac # list[p[b]].mac
  BY <1>2, <1>3 DEF ArrayOK, Unique
<1>7. Sorted(list')
  BY <1>1, <1>3, <1>4, <1>5, <1>6 DEF Sorted
<1>8. Unique(list')
  BY <1>4, <1>5, <1>6 DEF Unique
<1> QED BY <1>4, <1>7, <1>8 DEF ArrayOK

LEMMA ScanStep == ScanInv /\ ScanNext => ScanInv'
<1> SUFFICES ASSUME ScanInv, ScanNext PROVE ScanInv'
  OBVIOUS
<1> USE DEF ScanInv, inputs
<1>1. CASE ReadLine
  <2>1. lines \in Seq(Line) /\ k \in DOMAIN lines
    BY <1>1, ScanAssumption DEF ReadLine
  <2>2. \A n \in Line : n.mac # NoMac => LineEntry(n) \in Entry
    BY DEF LineEntry, Entry, Line
  <2>3. ArrayOK(list')
    BY <1>1, <2>1, <2>2, AddOrMerge DEF ReadLine
  <2> QED BY <1>1, <2>3 DEF ReadLine
<1>2. CASE MergeBlocked
  <2>1. listed \in Seq(Macs) /\ k \in DOMAIN listed
    BY <1>2, ScanAssumption DEF MergeBlocked
  <2>2. BlockedEntry(listed[k]) \in Entry
    BY <2>1 DEF BlockedEntry, Entry
  <2>3. ArrayOK(list')
    BY <1>2, <2>2, AddOrMerge DEF MergeBlocked
  <2> QED BY <1>2, <2>3 DEF MergeBlocked
<1>3. CASE MarkDevice
  <2>1. list \in Seq(Entry) /\ k \in DOMAIN list
    BY <1>3 DEF MarkDevice, ArrayOK
  <2> DEFINE e == [list[k] EXCEPT !.blocked = list[k].blocked \/ list[k].mac \in marked]
  <2>2. e \in Entry /\ e.mac = list[k].mac
    <3>1. \A d \in Entry : \A b \in BOOLEAN :
              /\ [d EXCEPT !.blocked = b] \in Entry
              /\ [d EXCEPT !.blocked = b].mac = d.mac
      BY DEF Entry
    <3>2. list[k] \in Entry /\ (list[k].blocked \/ list[k].mac \in marked) \in BOOLEAN
      BY <2>1
    <3> QED BY <3>1, <3>2
  <2>3. list' = [list EXCEPT ![k] = e]
    BY <1>3 DEF MarkDevice
  <2> HIDE DEF e
  <2>4. /\ list' \in Seq(Entry) /\ Len(list') = Len(list) /\ DOMAIN list' = DOMAIN list
        /\ \A a \in DOMAIN list : list'[a].mac = list[a].mac
    BY <2>1, <2>2, <2>3
  <2>5. ArrayOK(list')
    BY <2>4 DEF ArrayOK, Unique
  <2> QED BY <1>3, <2>5 DEF MarkDevice
<1>4. CASE Sort
  BY <1>4, Sorting DEF Sort
<1>5. CASE Enter("read", "merge", Len(lines))
  BY <1>5 DEF Enter
<1>6. CASE Enter("merge", "mark", Len(listed))
  BY <1>6 DEF Enter
<1>7. CASE Enter("mark", "sort", Len(list))
  BY <1>7 DEF Enter
<1> QED BY <1>1, <1>2, <1>3, <1>4, <1>5, <1>6, <1>7 DEF ScanNext

----------------------------------------------------------------------------
(* Lease files, line by line.                                              *)

\* The first n lines.
Prefix(s, n) == [i \in 1..n |-> s[i]]

\* Line i is the first with the MAC m.
First(s, m, i) == i \in DOMAIN s /\ s[i].mac = m /\ \A j \in 1..i - 1 : s[j].mac # m

\* Every set of numbers that is not empty has a least one.
LEMMA Least ==
    ASSUME NEW I \in SUBSET Nat, I # {}
    PROVE  \E x \in I : \A y \in I : x <= y
<1>1. PICK x \in I : \A y \in I : ~(<<y, x>> \in OpToRel(<, Nat))
  BY WFMin, NatLessThanWellFounded
<1>2. OpToRel(<, Nat) = {ss \in Nat \X Nat : ss[1] < ss[2]}
  BY DEF OpToRel
<1>3. ASSUME NEW y \in I PROVE x <= y
  <2>1. ~(<<y, x>> \in {ss \in Nat \X Nat : ss[1] < ss[2]})
    BY <1>1, <1>2
  <2>2. ~(y < x) /\ x \in Nat /\ y \in Nat
    BY <2>1
  <2> QED BY <2>2
<1> QED BY <1>3

\* FirstLine is the first line.
LEMMA FirstLineIs ==
    ASSUME NEW s \in Seq(Line), NEW m \in Seen(s)
    PROVE  First(s, m, FirstLine(s, m))
<1> DEFINE I == {i \in DOMAIN s : s[i].mac = m}
<1>1. I \in SUBSET Nat /\ I # {} /\ DOMAIN s = 1..Len(s) /\ Len(s) \in Nat
  BY DEF Seen
<1>2. PICK i \in I : \A j \in I : i <= j
  BY <1>1, Least
<1>3. \A j \in 1..i - 1 : s[j].mac # m
  BY <1>1, <1>2
<1>4. \E j \in DOMAIN s : s[j].mac = m /\ \A h \in 1..j - 1 : s[h].mac # m
  BY <1>2, <1>3
<1> QED BY <1>4 DEF FirstLine, First

LEMMA OneFirstLine ==
    ASSUME NEW s \in Seq(Line), NEW m, NEW i, First(s, m, i), NEW j, First(s, m, j)
    PROVE  i = j
<1>1. i \in Nat \ {0} /\ j \in Nat \ {0} /\ s[i].mac = m /\ s[j].mac = m
  BY DEF First
<1>2. ~(i < j) /\ ~(j < i)
  BY <1>1 DEF First
<1> QED BY <1>1, <1>2

LEMMA FirstLineOf ==
    ASSUME NEW s \in Seq(Line), NEW m \in Macs, NEW i, First(s, m, i)
    PROVE  m \in Seen(s) /\ FirstLine(s, m) = i
<1>1. m \in Seen(s)
  BY MacAssumption DEF Seen, First
<1> QED BY <1>1, FirstLineIs, OneFirstLine

LEMMA SeenFinite ==
    ASSUME NEW s \in Seq(Line)
    PROVE  Seen(s) \subseteq Macs /\ IsFiniteSet(Seen(s)) /\ Kept(s) \subseteq Seen(s)
<1>1. Kept(s) \subseteq Seen(s)
  BY DEF Kept
<1>2. \A i \in DOMAIN s : s[i].mac \in Macs \cup {NoMac}
  <2>1. \A l \in Line : l.mac \in Macs \cup {NoMac}
    BY DEF Line
  <2> QED BY <2>1
<1>3. Seen(s) \subseteq Macs
  BY <1>2 DEF Seen
<1> QED BY <1>1, <1>3, FS_Subset, MacAssumption

\* The MACs seen before m.
Before(s, m) == {n \in Seen(s) : FirstLine(s, n) < FirstLine(s, m)}

\* A list that is not full has every MAC of the file.
LEMMA KeptAll ==
    ASSUME NEW s \in Seq(Line), Cardinality(Kept(s)) < MaxDevices
    PROVE  Kept(s) = Seen(s)
<1> SUFFICES ASSUME Seen(s) \ Kept(s) # {} PROVE FALSE
  BY SeenFinite
<1>1. \A m \in Seen(s) : /\ FirstLine(s, m) \in Nat
                         /\ s[FirstLine(s, m)].mac = m
  BY FirstLineIs DEF First
<1> DEFINE I == {FirstLine(s, m) : m \in Seen(s) \ Kept(s)}
<1>2. PICK i \in I : \A j \in I : i <= j
  <2>1. I \in SUBSET Nat /\ I # {}
    BY <1>1
  <2> QED BY <2>1, Least
<1>3. PICK m \in Seen(s) \ Kept(s) : i = FirstLine(s, m)
  BY <1>2
<1>4. Before(s, m) \subseteq Kept(s)
  <2>1. ASSUME NEW n \in Seen(s) \ Kept(s) PROVE ~(FirstLine(s, n) < FirstLine(s, m))
    <3>1. FirstLine(s, n) \in I /\ FirstLine(s, n) \in Nat /\ FirstLine(s, m) \in Nat
      BY <1>1, <1>3
    <3> HIDE DEF I
    <3> QED BY <1>2, <1>3, <3>1
  <2> QED BY <2>1 DEF Before
<1>5. IsFiniteSet(Kept(s)) /\ Cardinality(Kept(s)) \in Nat
  BY SeenFinite, FS_Subset, FS_CardinalityType
<1>6. Cardinality(Before(s, m)) \in Nat /\ Cardinality(Before(s, m)) <= Cardinality(Kept(s))
  BY <1>4, <1>5, FS_Subset, FS_CardinalityType
<1>7. Cardinality(Before(s, m)) < MaxDevices
  BY <1>5, <1>6, DeviceAssumption
<1> QED BY <1>3, <1>7 DEF Kept, Before

LEMMA PrefixIs ==
    ASSUME NEW s \in Seq(Line), NEW n \in 0..Len(s)
    PROVE  /\ Prefix(s, n) \in Seq(Line)
           /\ DOMAIN Prefix(s, n) = 1..n
           /\ \A i \in 1..n : i \in DOMAIN s /\ s[i] \in Line /\ Prefix(s, n)[i] = s[i]
  BY DEF Prefix

LEMMA WholePrefix ==
    ASSUME NEW s \in Seq(Line)
    PROVE  Prefix(s, Len(s)) = s
  BY DEF Prefix

\* The next line adds its MAC to those seen, and no other.
LEMMA SeenGrows ==
    ASSUME NEW s \in Seq(Line), NEW n \in 0..Len(s) - 1
    PROVE  Seen(Prefix(s, n + 1)) = Seen(Prefix(s, n)) \cup ({s[n + 1].mac} \ {NoMac})
<1> DEFINE P == Prefix(s, n)
           Q == Prefix(s, n + 1)
<1>1. /\ DOMAIN P = 1..n /\ DOMAIN Q = 1..n + 1
      /\ \A i \in 1..n : P[i] = s[i]
      /\ \A i \in 1..n + 1 : Q[i] = s[i]
  BY PrefixIs
<1> HIDE DEF P, Q
<1>2. \A i : i \in 1..n + 1 <=> i \in 1..n \/ i = n + 1
  OBVIOUS
<1>3. Seen(Q) = Seen(P) \cup ({s[n + 1].mac} \ {NoMac})
  BY <1>1, <1>2 DEF Seen
<1> QED BY <1>3 DEF P, Q

\* And it leaves the first lines of the others.
LEMMA FirstLineKeeps ==
    ASSUME NEW s \in Seq(Line), NEW n \in 0..Len(s) - 1
    PROVE  \A m \in Seen(Prefix(s, n)) :
              /\ FirstLine(Prefix(s, n + 1), m) = FirstLine(Prefix(s, n), m)
              /\ FirstLine(Prefix(s, n), m) \in 1..n
<1> DEFINE P == Prefix(s, n)
           Q == Prefix(s, n + 1)
<1>1. /\ P \in Seq(Line) /\ Q \in Seq(Line)
      /\ DOMAIN P = 1..n /\ DOMAIN Q = 1..n + 1
      /\ \A i \in 1..n : P[i] = s[i]
      /\ \A i \in 1..n + 1 : Q[i] = s[i]
  BY PrefixIs
<1> HIDE DEF P, Q
<1> SUFFICES ASSUME NEW m \in Seen(P)
             PROVE  FirstLine(Q, m) = FirstLine(P, m) /\ FirstLine(P, m) \in 1..n
  BY DEF P, Q
<1>2. First(P, m, FirstLine(P, m)) /\ m \in Macs
  BY <1>1, FirstLineIs, SeenFinite
<1>3. First(Q, m, FirstLine(P, m))
  BY <1>1, <1>2 DEF First
<1> QED BY <1>1, <1>2, <1>3, FirstLineOf DEF First

\* A line of a MAC seen before changes nothing of what is kept.
LEMMA KeptSame ==
    ASSUME NEW s \in Seq(Line), NEW n \in 0..Len(s) - 1,
           s[n + 1].mac \in Seen(Prefix(s, n)) \cup {NoMac}
    PROVE  Kept(Prefix(s, n + 1)) = Kept(Prefix(s, n))
<1> DEFINE P == Prefix(s, n)
           Q == Prefix(s, n + 1)
<1>1. Seen(Q) = Seen(P)
  <2>1. Seen(Q) = Seen(P) \cup ({s[n + 1].mac} \ {NoMac})
    BY SeenGrows
  <2> HIDE DEF P, Q
  <2> QED BY <2>1 DEF P
<1>2. \A m \in Seen(P) : FirstLine(Q, m) = FirstLine(P, m)
  BY FirstLineKeeps
<1> HIDE DEF P, Q
<1>3. \A m \in Seen(P) : {x \in Seen(Q) : FirstLine(Q, x) < FirstLine(Q, m)}
                            = {x \in Seen(P) : FirstLine(P, x) < FirstLine(P, m)}
  BY <1>1, <1>2
<1>4. Kept(Q) = Kept(P)
  BY <1>1, <1>3 DEF Kept
<1> QED BY <1>4 DEF P, Q

\* The line of a new MAC adds it to what is kept while there is room.
LEMMA KeptGrows ==
    ASSUME NEW s \in Seq(Line), NEW n \in 0..Len(s) - 1,
           s[n + 1].mac \notin Seen(Prefix(s, n)) \cup {NoMac}
    PROVE  Kept(Prefix(s, n + 1)) =
              Kept(Prefix(s, n)) \cup
                (IF Cardinality(Kept(Prefix(s, n))) < MaxDevices THEN {s[n + 1].mac} ELSE {})
<1> DEFINE P == Prefix(s, n)
           Q == Prefix(s, n + 1)
           m == s[n + 1].mac
<1>1. /\ P \in Seq(Line) /\ Q \in Seq(Line)
      /\ DOMAIN P = 1..n /\ DOMAIN Q = 1..n + 1
      /\ \A i \in 1..n : P[i] = s[i]
      /\ \A i \in 1..n + 1 : Q[i] = s[i]
      /\ n + 1 \in DOMAIN s
  BY PrefixIs
<1>2. Seen(Q) = Seen(P) \cup {m} /\ m \notin Seen(P) /\ m # NoMac
  BY SeenGrows
<1>3. \A x \in Seen(P) : FirstLine(Q, x) = FirstLine(P, x) /\ FirstLine(P, x) \in 1..n
  BY FirstLineKeeps
<1> HIDE DEF P, Q
<1>4. FirstLine(Q, m) = n + 1
  <2>1. m \in Macs
    BY <1>1, <1>2, SeenFinite
  <2>2. \A i \in 1..n : P[i].mac # m
    BY <1>1, <1>2 DEF Seen
  <2>3. \A i \in 1..n : Q[i].mac # m
    BY <1>1, <2>2
  <2>4. n + 1 - 1 = n /\ n + 1 \in DOMAIN Q /\ Q[n + 1].mac = m
    BY <1>1
  <2>5. First(Q, m, n + 1)
    BY <2>3, <2>4 DEF First
  <2> QED BY <1>1, <2>1, <2>5, FirstLineOf
<1> HIDE DEF m
<1>5. \A x \in Seen(P) : {y \in Seen(Q) : FirstLine(Q, y) < FirstLine(Q, x)}
                            = {y \in Seen(P) : FirstLine(P, y) < FirstLine(P, x)}
  BY <1>2, <1>3, <1>4
<1>6. {y \in Seen(Q) : FirstLine(Q, y) < FirstLine(Q, m)} = Seen(P)
  BY <1>2, <1>3, <1>4
<1>7. Kept(Q) = Kept(P) \cup (IF Cardinality(Seen(P)) < MaxDevices THEN {m} ELSE {})
  BY <1>2, <1>5, <1>6 DEF Kept
<1>8. Cardinality(Seen(P)) < MaxDevices <=> Cardinality(Kept(P)) < MaxDevices
  <2>1. Cardinality(Kept(P)) \in Nat /\ Cardinality(Seen(P)) \in Nat
        /\ Cardinality(Kept(P)) <= Cardinality(Seen(P))
    BY <1>1, SeenFinite, FS_Subset, FS_CardinalityType
  <2> QED BY <1>1, <2>1, KeptAll, DeviceAssumption
<1> QED BY <1>7, <1>8 DEF P, Q, m

----------------------------------------------------------------------------
(* What is known of a device.                                              *)

LEMMA LastFieldGrows ==
    ASSUME NEW s \in Seq(Line), NEW n \in 0..Len(s) - 1, NEW m, NEW f
    PROVE  LastField(Prefix(s, n + 1), m, f) =
              IF s[n + 1].mac = m /\ s[n + 1][f] # None THEN s[n + 1][f]
              ELSE LastField(Prefix(s, n), m, f)
<1> DEFINE P == Prefix(s, n)
           Q == Prefix(s, n + 1)
           I(t) == {i \in DOMAIN t : t[i].mac = m /\ t[i][f] # None}
           L(t) == {i \in I(t) : \A j \in I(t) : j <= i}
<1>1. /\ DOMAIN P = 1..n /\ DOMAIN Q = 1..n + 1
      /\ \A i \in 1..n : P[i] = s[i]
      /\ \A i \in 1..n + 1 : Q[i] = s[i]
  BY PrefixIs
<1>2. /\ LastField(P, m, f) = IF L(P) = {} THEN None ELSE P[CHOOSE i \in L(P) : TRUE][f]
      /\ LastField(Q, m, f) = IF L(Q) = {} THEN None ELSE Q[CHOOSE i \in L(Q) : TRUE][f]
  BY DEF LastField
<1> HIDE DEF P, Q
<1>3. n \in Nat /\ \A i : i \in 1..n + 1 <=> i \in 1..n \/ i = n + 1
  OBVIOUS
<1>4. CASE s[n + 1].mac = m /\ s[n + 1][f] # None
  <2>1. n + 1 \in I(Q) /\ I(Q) \subseteq 1..n + 1
    BY <1>1, <1>4
  <2> HIDE DEF I
  <2>2. L(Q) = {n + 1}
    BY <1>3, <2>1
  <2>3. LastField(Q, m, f) = Q[n + 1][f]
    BY <1>2, <2>2
  <2> QED BY <1>1, <1>4, <2>3 DEF P, Q
<1>5. CASE ~(s[n + 1].mac = m /\ s[n + 1][f] # None)
  <2>1. I(Q) = I(P) /\ I(P) \subseteq 1..n
    BY <1>1, <1>3, <1>5
  <2> HIDE DEF I
  <2>2. L(Q) = L(P) /\ L(P) \subseteq 1..n
    BY <2>1
  <2> HIDE DEF L
  <2>3. LastField(Q, m, f) = LastField(P, m, f)
    BY <1>1, <1>2, <2>2
  <2> QED BY <1>5, <2>3 DEF P, Q
<1> QED BY <1>4, <1>5

LEMMA LastFieldUnseen ==
    ASSUME NEW s \in Seq(Line), NEW m \in Macs, m \notin Seen(s), NEW f
    PROVE  LastField(s, m, f) = None
<1> DEFINE I == {i \in DOMAIN s : s[i].mac = m /\ s[i][f] # None}
<1>1. I = {}
  BY MacAssumption DEF Seen
<1> HIDE DEF I
<1>2. {i \in I : \A j \in I : j <= i} = {}
  BY <1>1
<1> QED BY <1>2 DEF LastField, I
----------------------------------------------------------------------------
(* What the loops have made of what they have read.                        *)

MacsIn(l) == {l[a].mac : a \in DOMAIN l}

\* The entry e has the fields that the lines s give its MAC.
Informed(e, s) ==
    e.ip = LastField(s, e.mac, "ip") /\ e.host = LastField(s, e.mac, "host")

\* The first n MACs of np_nft_list's report.
Reported(n) == {listed[a] : a \in 1..n}
AllReported == Reported(Len(listed))

\* l holds the lines s and, as far as there is room, the MACs R.
Filled(l, s, R) ==
    /\ Kept(s) \subseteq MacsIn(l)
    /\ MacsIn(l) \subseteq Kept(s) \cup R
    /\ R \subseteq MacsIn(l) \/ Len(l) = MaxDevices
    /\ \A a \in DOMAIN l : Informed(l[a], s)

ReadInv ==
    pc = "read" =>
        /\ k <= Len(lines) + 1
        /\ MacsIn(list) = Kept(Prefix(lines, k - 1))
        /\ \A a \in DOMAIN list :
              Informed(list[a], Prefix(lines, k - 1)) /\ ~list[a].blocked

MergingInv ==
    pc = "merge" =>
        /\ k <= Len(listed) + 1
        /\ Filled(list, lines, Reported(k - 1))
        /\ \A a \in DOMAIN list : list[a].blocked <=> list[a].mac \in Reported(k - 1)

MarkInv ==
    pc = "mark" =>
        /\ k <= Len(list) + 1
        /\ Filled(list, lines, AllReported)
        /\ \A a \in DOMAIN list :
              list[a].blocked <=> \/ list[a].mac \in AllReported
                                  \/ a < k /\ list[a].mac \in marked

MarkedInv ==
    pc \notin {"read", "merge", "mark"} =>
        /\ Filled(list, lines, AllReported)
        /\ \A a \in DOMAIN list :
              list[a].blocked <=> list[a].mac \in AllReported \cup marked

ExactInv == ScanInv /\ ReadInv /\ MergingInv /\ MarkInv /\ MarkedInv

ExactType ==
    /\ lines \in Seq(Line) /\ listed \in Seq(Macs)
    /\ list \in Seq(Entry) /\ DOMAIN list = 1..Len(list) /\ Len(list) \in Nat
    /\ \A a \in DOMAIN list : list[a] \in Entry
    /\ k \in Nat \ {0}

LEMMA ScanTypes == ScanInv => ExactType
  BY ScanAssumption DEF ScanInv, ArrayOK, ExactType

\* What add_or_merge does, entry by entry.
LEMMA AddEffect ==
    ASSUME NEW l, ArrayOK(l), NEW d \in Entry
    PROVE  /\ MacsIn(add_or_merge(l, d)) =
                 MacsIn(l) \cup (IF Len(l) < MaxDevices THEN {d.mac} ELSE {})
           /\ \A a \in DOMAIN add_or_merge(l, d) :
                 LET e == add_or_merge(l, d)[a]
                 IN  \/ a \in DOMAIN l /\ l[a].mac # d.mac /\ e = l[a]
                     \/ a \in DOMAIN l /\ l[a].mac = d.mac /\ e = Merge(l[a], d)
                     \/ d.mac \notin MacsIn(l) /\ Len(l) < MaxDevices /\ e = d
           /\ Len(l) <= Len(add_or_merge(l, d))
<1>1. /\ l \in Seq(Entry) /\ DOMAIN l = 1..Len(l) /\ Len(l) \in Nat
      /\ \A a, b \in DOMAIN l : l[a].mac = l[b].mac => a = b
  BY DEF ArrayOK, Unique
<1> DEFINE r == add_or_merge(l, d)
<1>2. CASE \E n \in DOMAIN l : l[n].mac = d.mac
  <2>1. r = [n \in DOMAIN l |-> IF FindsAt(l, d.mac, n) THEN Merge(l[n], d) ELSE l[n]]
    BY <1>2 DEF add_or_merge
  <2>2. \A n \in DOMAIN l : FindsAt(l, d.mac, n) <=> l[n].mac = d.mac
    BY <1>1 DEF FindsAt
  <2>3. \A e : Merge(e, d).mac = e.mac
    BY DEF Merge
  <2>4. /\ DOMAIN r = 1..Len(l) /\ r \in Seq({r[a] : a \in 1..Len(l)})
        /\ \A a \in DOMAIN l : r[a] = IF l[a].mac = d.mac THEN Merge(l[a], d) ELSE l[a]
    BY <1>1, <2>1, <2>2
  <2> HIDE DEF r
  <2>5. \A a \in DOMAIN l : r[a].mac = l[a].mac
    BY <2>3, <2>4
  <2>6. MacsIn(r) = MacsIn(l) /\ d.mac \in MacsIn(l)
    BY <1>1, <1>2, <2>4, <2>5 DEF MacsIn
  <2>7. Len(r) = Len(l)
    BY <1>1, <2>4
  <2> QED BY <1>1, <2>4, <2>6, <2>7 DEF r
<1>3. CASE (\A n \in DOMAIN l : l[n].mac # d.mac) /\ Len(l) >= MaxDevices
  <2>1. r = l
    BY <1>3 DEF add_or_merge
  <2>2. ~(Len(l) < MaxDevices)
    BY <1>1, <1>3, DeviceAssumption
  <2> QED BY <1>1, <1>3, <2>1, <2>2
<1>4. CASE (\A n \in DOMAIN l : l[n].mac # d.mac) /\ ~(Len(l) >= MaxDevices)
  <2>1. r = Append(l, d)
    BY <1>4 DEF add_or_merge
  <2>2. /\ DOMAIN r = 1..Len(l) + 1 /\ Len(r) = Len(l) + 1
        /\ \A a \in DOMAIN l : r[a] = l[a]
        /\ r[Len(l) + 1] = d
    BY <1>1, <2>1
  <2>3. Len(l) < MaxDevices /\ d.mac \notin MacsIn(l)
    BY <1>1, <1>4, DeviceAssumption DEF MacsIn
  <2> HIDE DEF r
  <2>4. \A a : a \in DOMAIN r <=> a \in DOMAIN l \/ a = Len(l) + 1
    BY <1>1, <2>2
  <2>5. MacsIn(r) = MacsIn(l) \cup {d.mac}
    BY <2>2, <2>4 DEF MacsIn
  <2>6. Len(l) <= Len(r)
    BY <1>1, <2>2
  <2>7. \A a \in DOMAIN r : (a \in DOMAIN l /\ l[a].mac # d.mac /\ r[a] = l[a]) \/ r[a] = d
    BY <1>4, <2>2, <2>4
  <2> QED BY <2>3, <2>5, <2>6, <2>7 DEF r
<1> QED BY <1>2, <1>3, <1>4

\* The array has as many entries as MACs.
LEMMA AsManyMacs ==
    ASSUME NEW l, ArrayOK(l)
    PROVE  IsFiniteSet(MacsIn(l)) /\ Cardinality(MacsIn(l)) = Len(l) /\ Len(l) \in Nat
<1> DEFINE f == [a \in 1..Len(l) |-> l[a].mac]
<1>1. DOMAIN l = 1..Len(l) /\ Len(l) \in Nat
  BY DEF ArrayOK
<1>2. f \in Bijection(1..Len(l), MacsIn(l))
  BY <1>1 DEF ArrayOK, Unique, MacsIn, Bijection, Injection, Surjection, IsInjective
<1>3. ExistsBijection(1..Len(l), MacsIn(l))
  BY <1>2 DEF ExistsBijection
<1>4. IsFiniteSet(MacsIn(l))
  BY <1>1, <1>3, FS_NatBijection
<1> QED BY <1>1, <1>3, <1>4, FS_CountingElements

\* A line that parses and is not its MAC's leaves what is known of m.
LEMMA InformedKeeps ==
    ASSUME NEW s \in Seq(Line), NEW n \in 0..Len(s) - 1,
           NEW e, e.mac # s[n + 1].mac, Informed(e, Prefix(s, n))
    PROVE  Informed(e, Prefix(s, n + 1))
  BY LastFieldGrows DEF Informed

LEMMA InformedMerges ==
    ASSUME NEW s \in Seq(Line), NEW n \in 0..Len(s) - 1,
           NEW e, e.mac = s[n + 1].mac, Informed(e, Prefix(s, n))
    PROVE  Informed(Merge(e, LineEntry(s[n + 1])), Prefix(s, n + 1))
<1> DEFINE d == LineEntry(s[n + 1])
<1>1. d.ip = s[n + 1]["ip"] /\ d.host = s[n + 1]["host"]
  BY DEF LineEntry
<1>2. /\ Merge(e, d).mac = e.mac
      /\ Merge(e, d).ip = IF d.ip # None THEN d.ip ELSE e.ip
      /\ Merge(e, d).host = IF d.host # None THEN d.host ELSE e.host
  BY DEF Merge
<1> HIDE DEF d
<1>3. ASSUME NEW f
      PROVE  LastField(Prefix(s, n + 1), e.mac, f) =
                IF s[n + 1][f] # None THEN s[n + 1][f] ELSE LastField(Prefix(s, n), e.mac, f)
  <2>1. LastField(Prefix(s, n + 1), e.mac, f) =
            IF s[n + 1].mac = e.mac /\ s[n + 1][f] # None THEN s[n + 1][f]
            ELSE LastField(Prefix(s, n), e.mac, f)
    BY LastFieldGrows
  <2> QED BY <2>1
<1>4. Informed(Merge(e, d), Prefix(s, n + 1))
  BY <1>1, <1>2, <1>3 DEF Informed
<1> QED BY <1>4 DEF d

LEMMA InformedNew ==
    ASSUME NEW s \in Seq(Line), NEW n \in 0..Len(s) - 1,
           s[n + 1].mac \in Macs, s[n + 1].mac \notin Seen(Prefix(s, n))
    PROVE  Informed(LineEntry(s[n + 1]), Prefix(s, n + 1))
<1> DEFINE d == LineEntry(s[n + 1])
<1>1. d.ip = s[n + 1]["ip"] /\ d.host = s[n + 1]["host"] /\ d.mac = s[n + 1].mac
  BY DEF LineEntry
<1>2. \A f : LastField(Prefix(s, n), d.mac, f) = None
  <2>1. Prefix(s, n) \in Seq(Line)
    BY PrefixIs
  <2> QED BY <1>1, <2>1, LastFieldUnseen
<1> HIDE DEF d
<1>3. ASSUME NEW f
      PROVE  LastField(Prefix(s, n + 1), d.mac, f) =
                IF s[n + 1][f] # None THEN s[n + 1][f] ELSE None
  <2>1. LastField(Prefix(s, n + 1), d.mac, f) =
            IF s[n + 1].mac = d.mac /\ s[n + 1][f] # None THEN s[n + 1][f]
            ELSE LastField(Prefix(s, n), d.mac, f)
    BY LastFieldGrows
  <2> QED BY <1>1, <1>2, <2>1
<1>4. Informed(d, Prefix(s, n + 1))
  BY <1>1, <1>3 DEF Informed
<1> QED BY <1>4 DEF d

LEMMA ReadLineKeeps == ASSUME ExactInv, ReadLine PROVE ReadInv'
<1> DEFINE n == k - 1
           P == Prefix(lines, n)
           Q == Prefix(lines, n + 1)
           d == LineEntry(lines[k])
<1>1. ExactType /\ ArrayOK(list)
  BY ScanTypes DEF ExactInv, ScanInv
<1>2. /\ n \in 0..Len(lines) - 1 /\ n + 1 = k /\ k \in DOMAIN lines /\ lines \in Seq(Line)
      /\ lines' = lines /\ k' = k + 1 /\ k' - 1 = n + 1 /\ k' <= Len(lines) + 1
      /\ Len(lines) \in Nat
  BY <1>1 DEF ReadLine, inputs, ExactType
<1>3. /\ MacsIn(list) = Kept(P)
      /\ \A a \in DOMAIN list : Informed(list[a], P) /\ ~list[a].blocked
  BY DEF ExactInv, ReadInv, ReadLine
<1>4. \A a \in DOMAIN list : list[a].mac \in Macs
  BY <1>1 DEF ExactType, Entry
<1>5. P \in Seq(Line) /\ lines[k] \in Line
  BY <1>2, PrefixIs
<1>6. Len(list) < MaxDevices => Kept(P) = Seen(P)
  BY <1>1, <1>3, <1>5, AsManyMacs, KeptAll
<1> HIDE DEF n, P, Q
<1>7. CASE lines[k].mac = NoMac
  <2>1. list' = list
    BY <1>7 DEF ReadLine
  <2>2. Kept(Q) = Kept(P)
    BY <1>2, <1>7, KeptSame DEF P, Q
  <2>3. \A a \in DOMAIN list : Informed(list[a], Q)
    BY <1>2, <1>3, <1>4, <1>7, MacAssumption, InformedKeeps DEF P, Q
  <2>4. MacsIn(list') = Kept(Q)
    BY <1>3, <2>1, <2>2
  <2> QED BY <1>2, <1>3, <2>1, <2>3, <2>4 DEF ReadInv, Q
<1>8. CASE lines[k].mac # NoMac
  <2>1. list' = add_or_merge(list, d)
    BY <1>8 DEF ReadLine
  <2>2. d \in Entry /\ d.mac = lines[k].mac /\ d.mac \in Macs /\ d.blocked = FALSE
    BY <1>5, <1>8 DEF LineEntry, Line, Entry
  <2>3. /\ MacsIn(list') = MacsIn(list) \cup (IF Len(list) < MaxDevices THEN {d.mac} ELSE {})
        /\ \A a \in DOMAIN list' :
              \/ a \in DOMAIN list /\ list[a].mac # d.mac /\ list'[a] = list[a]
              \/ a \in DOMAIN list /\ list[a].mac = d.mac /\ list'[a] = Merge(list[a], d)
              \/ d.mac \notin MacsIn(list) /\ Len(list) < MaxDevices /\ list'[a] = d
    BY <1>1, <2>1, <2>2, AddEffect
  <2>4. MacsIn(list') = Kept(Q)
    <3>1. CASE d.mac \in Seen(P)
      <4>1. Kept(Q) = Kept(P)
        BY <1>2, <2>2, <3>1, KeptSame DEF P, Q
      <4> QED BY <1>3, <1>6, <2>3, <3>1, <4>1
    <3>2. CASE d.mac \notin Seen(P)
      <4>1. Kept(Q) = Kept(P) \cup (IF Cardinality(Kept(P)) < MaxDevices THEN {d.mac} ELSE {})
        BY <1>2, <1>8, <2>2, <3>2, KeptGrows DEF P, Q
      <4>2. Cardinality(Kept(P)) = Len(list)
        BY <1>1, <1>3, AsManyMacs
      <4> QED BY <1>3, <2>3, <4>1, <4>2
    <3> QED BY <3>1, <3>2
  <2>5. ASSUME NEW a \in DOMAIN list' PROVE Informed(list'[a], Q) /\ ~list'[a].blocked
    <3>1. CASE a \in DOMAIN list /\ list[a].mac # d.mac /\ list'[a] = list[a]
      BY <1>2, <1>3, <2>2, <3>1, InformedKeeps DEF P, Q
    <3>2. CASE a \in DOMAIN list /\ list[a].mac = d.mac /\ list'[a] = Merge(list[a], d)
      <4>1. Informed(list'[a], Q)
        BY <1>2, <1>3, <2>2, <3>2, InformedMerges DEF P, Q
      <4>2. Merge(list[a], d).blocked = (list[a].blocked \/ d.blocked)
        BY DEF Merge
      <4> QED BY <1>3, <2>2, <3>2, <4>1, <4>2
    <3>3. CASE d.mac \notin MacsIn(list) /\ Len(list) < MaxDevices /\ list'[a] = d
      <4>1. d.mac \notin Seen(P)
        BY <1>3, <1>6, <3>3
      <4>2. Informed(d, Q)
        BY <1>2, <2>2, <4>1, InformedNew DEF P, Q
      <4> QED BY <2>2, <3>3, <4>2
    <3> QED BY <2>3, <3>1, <3>2, <3>3
  <2> QED BY <1>2, <2>4, <2>5 DEF ReadInv, Q
<1> QED BY <1>7, <1>8

\* A list with room for another MAC has every MAC of the file.
LEMMA RoomMeansAll ==
    ASSUME NEW l, ArrayOK(l), NEW s \in Seq(Line), Kept(s) \subseteq MacsIn(l),
           Len(l) < MaxDevices
    PROVE  Seen(s) = Kept(s)
<1>1. IsFiniteSet(MacsIn(l)) /\ Cardinality(MacsIn(l)) = Len(l) /\ Len(l) \in Nat
  BY AsManyMacs
<1>2. IsFiniteSet(Kept(s)) /\ Cardinality(Kept(s)) <= Len(l) /\ Cardinality(Kept(s)) \in Nat
  BY <1>1, FS_Subset, FS_CardinalityType
<1> QED BY <1>1, <1>2, KeptAll, DeviceAssumption

LEMMA MergeBlockedKeeps == ASSUME ExactInv, MergeBlocked PROVE MergingInv'
<1> DEFINE R == Reported(k - 1)
           m == listed[k]
           d == BlockedEntry(m)
<1>1. ExactType /\ ArrayOK(list)
  BY ScanTypes DEF ExactInv, ScanInv
<1>2. /\ k \in 1..Len(listed) /\ lines \in Seq(Line) /\ m \in Macs
      /\ UNCHANGED <<lines, listed>> /\ k' = k + 1 /\ k' - 1 = k /\ k' <= Len(listed) + 1
  BY <1>1 DEF MergeBlocked, inputs, ExactType
<1>3. /\ Filled(list, lines, R)
      /\ \A a \in DOMAIN list : list[a].blocked <=> list[a].mac \in R
  BY DEF ExactInv, MergingInv, MergeBlocked
<1>4. Reported(k - 1)' = R \cup {m}
  <2>1. Reported(k - 1)' = {listed[a] : a \in 1..k}
    BY <1>2 DEF Reported
  <2>2. \A a : a \in 1..k <=> a \in 1..k - 1 \/ a = k
    BY <1>2
  <2> QED BY <2>1, <2>2 DEF Reported
<1>5. d \in Entry /\ d.mac = m /\ d.ip = None /\ d.host = None /\ d.blocked = TRUE
  BY <1>2 DEF BlockedEntry, Entry
<1>6. list' = add_or_merge(list, d)
  BY DEF MergeBlocked
<1> HIDE DEF R, m, d
<1>7. /\ MacsIn(list') = MacsIn(list) \cup (IF Len(list) < MaxDevices THEN {m} ELSE {})
      /\ \A a \in DOMAIN list' :
            \/ a \in DOMAIN list /\ list[a].mac # m /\ list'[a] = list[a]
            \/ a \in DOMAIN list /\ list[a].mac = m /\ list'[a] = Merge(list[a], d)
            \/ m \notin MacsIn(list) /\ Len(list) < MaxDevices /\ list'[a] = d
      /\ Len(list) <= Len(list')
  BY <1>1, <1>5, <1>6, AddEffect
<1>8. \A e : /\ Merge(e, d).mac = e.mac /\ Merge(e, d).ip = e.ip /\ Merge(e, d).host = e.host
             /\ Merge(e, d).blocked
  BY <1>5 DEF Merge
<1>9. ASSUME NEW a \in DOMAIN list'
      PROVE  Informed(list'[a], lines) /\ (list'[a].blocked <=> list'[a].mac \in R \cup {m})
  <2>1. CASE a \in DOMAIN list /\ list[a].mac # m /\ list'[a] = list[a]
    BY <1>3, <2>1 DEF Filled
  <2>2. CASE a \in DOMAIN list /\ list[a].mac = m /\ list'[a] = Merge(list[a], d)
    BY <1>3, <1>8, <2>2 DEF Filled, Informed
  <2>3. CASE m \notin MacsIn(list) /\ Len(list) < MaxDevices /\ list'[a] = d
    <3>1. m \notin Seen(lines)
      BY <1>1, <1>2, <1>3, <2>3, RoomMeansAll DEF Filled
    <3>2. LastField(lines, m, "ip") = None /\ LastField(lines, m, "host") = None
      BY <1>2, <3>1, LastFieldUnseen
    <3> QED BY <1>5, <2>3, <3>2 DEF Informed
  <2> QED BY <1>7, <2>1, <2>2, <2>3
<1>10. R \cup {m} \subseteq MacsIn(list') \/ Len(list') = MaxDevices
  <2>1. CASE Len(list) < MaxDevices
    <3>1. R \subseteq MacsIn(list)
      <4>1. Len(list) # MaxDevices
        BY <1>1, <2>1, AsManyMacs, DeviceAssumption
      <4> QED BY <1>3, <4>1 DEF Filled
    <3>2. MacsIn(list') = MacsIn(list) \cup {m}
      BY <1>7, <2>1
    <3> QED BY <3>1, <3>2
  <2>2. CASE ~(Len(list) < MaxDevices)
    <3>1. ArrayOK(list')
      BY <1>1, <1>5, <1>6, AddOrMerge
    <3>2. Len(list) \in Nat /\ Len(list') \in Nat /\ Len(list') <= MaxDevices
      BY <1>1, <3>1, AsManyMacs DEF ArrayOK
    <3> QED BY <1>7, <2>2, <3>2, DeviceAssumption
  <2> QED BY <2>1, <2>2
<1>11. Filled(list', lines, R \cup {m})
  BY <1>3, <1>7, <1>9, <1>10 DEF Filled
<1> QED BY <1>2, <1>4, <1>9, <1>11 DEF MergingInv

LEMMA MarkDeviceKeeps == ASSUME ExactInv, MarkDevice PROVE MarkInv'
<1>1. /\ ExactType /\ k \in DOMAIN list /\ UNCHANGED <<pc, lines, listed, marked>>
      /\ k' = k + 1 /\ k' <= Len(list) + 1
  BY ScanTypes DEF ExactInv, MarkDevice, inputs, ExactType
<1>2. /\ Filled(list, lines, AllReported)
      /\ \A a \in DOMAIN list :
            list[a].blocked <=> \/ list[a].mac \in AllReported
                                \/ a < k /\ list[a].mac \in marked
  BY DEF ExactInv, MarkInv, MarkDevice
<1> DEFINE e == [list[k] EXCEPT !.blocked = list[k].blocked \/ list[k].mac \in marked]
<1>3. list' = [list EXCEPT ![k] = e]
  BY DEF MarkDevice
<1>4. /\ e.mac = list[k].mac /\ e.ip = list[k].ip /\ e.host = list[k].host
      /\ e.blocked <=> list[k].blocked \/ list[k].mac \in marked
  <2>1. \A x \in Entry : \A b \in BOOLEAN :
           /\ [x EXCEPT !.blocked = b].mac = x.mac
           /\ [x EXCEPT !.blocked = b].ip = x.ip
           /\ [x EXCEPT !.blocked = b].host = x.host
           /\ [x EXCEPT !.blocked = b].blocked = b
    BY DEF Entry
  <2>2. list[k] \in Entry /\ (list[k].blocked \/ list[k].mac \in marked) \in BOOLEAN
    BY <1>1 DEF ExactType
  <2> QED BY <2>1, <2>2
<1> HIDE DEF e
<1>5. /\ DOMAIN list' = DOMAIN list /\ Len(list') = Len(list)
      /\ list'[k] = e /\ \A a \in DOMAIN list : a # k => list'[a] = list[a]
  BY <1>1, <1>3 DEF ExactType
<1>6. MacsIn(list') = MacsIn(list)
  BY <1>1, <1>4, <1>5 DEF MacsIn
<1>7. Filled(list', lines, AllReported)
  BY <1>1, <1>2, <1>4, <1>5, <1>6 DEF Filled, Informed
<1>8. ASSUME NEW a \in DOMAIN list
      PROVE  list'[a].blocked <=> \/ list'[a].mac \in AllReported
                                  \/ a < k + 1 /\ list'[a].mac \in marked
  <2>1. a \in Nat /\ k \in Nat
    BY <1>1 DEF ExactType
  <2>2. CASE a = k
    BY <1>2, <1>4, <1>5, <2>1, <2>2
  <2>3. CASE a # k
    BY <1>2, <1>5, <2>1, <2>3
  <2> QED BY <2>2, <2>3
<1>9. AllReported' = AllReported
  BY <1>1 DEF AllReported, Reported
<1> QED BY <1>1, <1>5, <1>7, <1>8, <1>9 DEF MarkInv

\* qsort keeps the entries: a reordering leaves none of them out.
LEMMA SortKeeps == ASSUME ExactInv, Sort PROVE MarkedInv'
<1>1. ExactType /\ UNCHANGED <<lines, listed, marked>>
  BY ScanTypes DEF ExactInv, Sort, inputs
<1>2. /\ Filled(list, lines, AllReported)
      /\ \A a \in DOMAIN list : list[a].blocked <=> list[a].mac \in AllReported \cup marked
  BY DEF ExactInv, MarkedInv, Sort
<1>3. PICK p \in Reorderings(Len(list)) : list' = [a \in 1..Len(list) |-> list[p[a]]]
  BY DEF Sort
<1> DEFINE N == 1..Len(list)
<1>4. p \in [N -> N] /\ \A a, b \in N : a # b => p[a] # p[b]
  BY <1>3 DEF Reorderings
<1>5. \A b \in N : \E a \in N : p[a] = b
  <2>1. p \in Injection(N, N)
    BY <1>4 DEF Injection, IsInjective
  <2>2. IsFiniteSet(N)
    BY <1>1, FS_Interval DEF ExactType
  <2>3. p \in Surjection(N, N)
    BY <2>1, <2>2, FS_Injection
  <2> QED BY <2>3 DEF Surjection
<1>6. /\ DOMAIN list = N /\ DOMAIN list' = N /\ Len(list') = Len(list)
      /\ \A a \in N : p[a] \in N /\ list'[a] = list[p[a]]
  <2>1. \A a \in N : p[a] \in N
    BY <1>4
  <2>2. DOMAIN list' = N /\ \A a \in N : list'[a] = list[p[a]]
    BY <1>3
  <2>3. DOMAIN list = N /\ Len(list) \in Nat
    BY <1>1 DEF ExactType
  <2>4. list' \in Seq({list[a] : a \in N})
    BY <1>3, <2>1, <2>3
  <2>5. Len(list') = Len(list)
    BY <2>2, <2>3, <2>4
  <2> QED BY <2>1, <2>2, <2>3, <2>5
<1> HIDE DEF N
<1>7. MacsIn(list') = MacsIn(list)
  BY <1>5, <1>6 DEF MacsIn
<1>8. Filled(list', lines, AllReported)
  BY <1>2, <1>6, <1>7 DEF Filled
<1>9. \A a \in DOMAIN list' : list'[a].blocked <=> list'[a].mac \in AllReported \cup marked
  BY <1>2, <1>6
<1>10. AllReported' = AllReported
  BY <1>1 DEF AllReported, Reported
<1> QED BY <1>1, <1>8, <1>9, <1>10 DEF MarkedInv

LEMMA MergingBegins == ASSUME ExactInv, Enter("read", "merge", Len(lines)) PROVE MergingInv'
<1>1. /\ ExactType /\ k = Len(lines) + 1 /\ k - 1 = Len(lines) /\ lines \in Seq(Line)
      /\ k' = 1 /\ k' - 1 = 0 /\ k' <= Len(listed) + 1
      /\ UNCHANGED <<list, lines, listed>>
  BY ScanTypes DEF ExactInv, ReadInv, Enter, inputs, ExactType
<1>2. /\ MacsIn(list) = Kept(lines)
      /\ \A a \in DOMAIN list : Informed(list[a], lines) /\ ~list[a].blocked
  BY <1>1, WholePrefix DEF ExactInv, ReadInv, Enter
<1>3. Reported(k - 1)' = {}
  BY <1>1 DEF Reported
<1>4. Filled(list, lines, {})
  BY <1>2 DEF Filled
<1> QED BY <1>1, <1>2, <1>3, <1>4 DEF MergingInv

LEMMA MarkBegins == ASSUME ExactInv, Enter("merge", "mark", Len(listed)) PROVE MarkInv'
<1>1. /\ ExactType /\ k - 1 = Len(listed)
      /\ k' = 1 /\ k' <= Len(list) + 1
      /\ UNCHANGED <<list, lines, listed, marked>>
  BY ScanTypes DEF ExactInv, MergingInv, Enter, inputs, ExactType
<1>2. /\ Filled(list, lines, AllReported)
      /\ \A a \in DOMAIN list : list[a].blocked <=> list[a].mac \in AllReported
  BY <1>1 DEF ExactInv, MergingInv, Enter, AllReported
<1>3. AllReported' = AllReported
  BY <1>1 DEF AllReported, Reported
<1>4. \A a \in DOMAIN list : ~(a < 1)
  BY <1>1 DEF ExactType
<1> QED BY <1>1, <1>2, <1>3, <1>4 DEF MarkInv

LEMMA SortBegins == ASSUME ExactInv, Enter("mark", "sort", Len(list)) PROVE MarkedInv'
<1>1. ExactType /\ k = Len(list) + 1 /\ UNCHANGED <<list, lines, listed, marked>>
  BY ScanTypes DEF ExactInv, MarkInv, Enter, inputs, ExactType
<1>2. \A a \in DOMAIN list : a < k
  BY <1>1 DEF ExactType
<1>3. /\ Filled(list, lines, AllReported)
      /\ \A a \in DOMAIN list : list[a].blocked <=> list[a].mac \in AllReported \cup marked
  BY <1>2 DEF ExactInv, MarkInv, Enter
<1>4. AllReported' = AllReported
  BY <1>1 DEF AllReported, Reported
<1> QED BY <1>1, <1>3, <1>4 DEF MarkedInv

LEMMA ExactStep == ExactInv /\ ScanNext => ExactInv'
<1> SUFFICES ASSUME ExactInv, ScanNext PROVE ExactInv'
  OBVIOUS
<1>1. ScanInv'
  BY ScanStep DEF ExactInv
<1> USE DEF ExactInv
<1>2. CASE ReadLine
  <2>1. pc' = "read"
    BY <1>2 DEF ReadLine
  <2> QED BY <1>1, <1>2, <2>1, ReadLineKeeps DEF MergingInv, MarkInv, MarkedInv
<1>3. CASE Enter("read", "merge", Len(lines))
  <2>1. pc' = "merge"
    BY <1>3 DEF Enter
  <2> QED BY <1>1, <1>3, <2>1, MergingBegins DEF ReadInv, MarkInv, MarkedInv
<1>4. CASE MergeBlocked
  <2>1. pc' = "merge"
    BY <1>4 DEF MergeBlocked
  <2> QED BY <1>1, <1>4, <2>1, MergeBlockedKeeps DEF ReadInv, MarkInv, MarkedInv
<1>5. CASE Enter("merge", "mark", Len(listed))
  <2>1. pc' = "mark"
    BY <1>5 DEF Enter
  <2> QED BY <1>1, <1>5, <2>1, MarkBegins DEF ReadInv, MergingInv, MarkedInv
<1>6. CASE MarkDevice
  <2>1. pc' = "mark"
    BY <1>6 DEF MarkDevice
  <2> QED BY <1>1, <1>6, <2>1, MarkDeviceKeeps DEF ReadInv, MergingInv, MarkedInv
<1>7. CASE Enter("mark", "sort", Len(list))
  <2>1. pc' = "sort"
    BY <1>7 DEF Enter
  <2> QED BY <1>1, <1>7, <2>1, SortBegins DEF ReadInv, MergingInv, MarkInv
<1>8. CASE Sort
  <2>1. pc' = "done"
    BY <1>8 DEF Sort
  <2> QED BY <1>1, <1>8, <2>1, SortKeeps DEF ReadInv, MergingInv, MarkInv
<1> QED BY <1>2, <1>3, <1>4, <1>5, <1>6, <1>7, <1>8 DEF ScanNext

\* The inputs of a new call.
LEMMA ExactBegins ==
    ASSUME NEW s \in Seq(Line)
    PROVE  MacsIn(<<>>) = Kept(Prefix(s, 0)) /\ DOMAIN <<>> = {}
<1>1. Seen(Prefix(s, 0)) = {} /\ DOMAIN <<>> = {}
  BY PrefixIs DEF Seen
<1> QED BY <1>1 DEF Kept, MacsIn

----------------------------------------------------------------------------
(* The table rebuild() returns.                                            *)

\* A filled list is one that DeviceTable allows.
LEMMA FilledIsAllowed ==
    ASSUME NEW l, ArrayOK(l), NEW s \in Seq(Line), NEW R \in SUBSET Macs, Filled(l, s, R)
    PROVE  MacsIn(l) \in KeptOrListed(s, R)
<1> DEFINE K == Kept(s)
           S == MacsIn(l)
           X == S \ K
           F == R \ K
<1>1. /\ IsFiniteSet(S) /\ Cardinality(S) = Len(l) /\ Len(l) \in Nat /\ Len(l) <= MaxDevices
      /\ MaxDevices \in Nat
  BY AsManyMacs, DeviceAssumption DEF ArrayOK
<1>2. K \subseteq S /\ S \subseteq K \cup R /\ (R \subseteq S \/ Cardinality(S) = MaxDevices)
  BY <1>1 DEF Filled
<1>3. IsFiniteSet(R)
  BY MacAssumption, FS_Subset
<1> HIDE DEF K, S
<1>4. IsFiniteSet(K) /\ IsFiniteSet(X) /\ IsFiniteSet(F) /\ X \subseteq F
  BY <1>1, <1>2, <1>3, FS_Subset
<1>5. K \cup X = S /\ K \cap X = {}
  BY <1>2
<1>6. /\ Cardinality(K) \in Nat /\ Cardinality(X) \in Nat /\ Cardinality(F) \in Nat
      /\ Cardinality(X) <= Cardinality(F)
  BY <1>4, FS_Subset, FS_CardinalityType
<1>7. Cardinality(S) = Cardinality(K) + Cardinality(X)
  <2>1. Cardinality({}) = 0
    BY FS_EmptySet
  <2>2. Cardinality(K \cup X) = Cardinality(K) + Cardinality(X) - Cardinality(K \cap X)
    BY <1>4, FS_Union
  <2>3. Cardinality(K \cap X) = 0 /\ Cardinality(K \cup X) = Cardinality(S)
    BY <1>5, <2>1
  <2> HIDE DEF X
  <2> QED BY <1>6, <2>2, <2>3
<1>8. Cardinality(X) = IF Cardinality(F) <= MaxDevices - Cardinality(K)
                       THEN Cardinality(F) ELSE MaxDevices - Cardinality(K)
  <2>1. CASE R \subseteq S
    <3>1. X = F
      BY <1>2, <2>1
    <3> HIDE DEF X, F
    <3> QED BY <1>1, <1>6, <1>7, <3>1
  <2>2. CASE Cardinality(S) = MaxDevices
    <3> HIDE DEF X, F
    <3> QED BY <1>1, <1>6, <1>7, <2>2
  <2> QED BY <1>2, <2>1, <2>2
<1>9. X \in Fit(F, MaxDevices - Cardinality(K))
  <2> HIDE DEF X, F
  <2> QED BY <1>4, <1>8 DEF Fit
<1>10. S \in KeptOrListed(s, R)
  <2> HIDE DEF X
  <2> QED BY <1>5, <1>9 DEF KeptOrListed, K
<1> QED BY <1>10 DEF S

\* From the end of qsort on, list is the table.
LEMMA Rebuilt ==
    ASSUME ExactInv, pc \notin {"read", "merge", "mark"}
    PROVE  /\ AllReported = {listed[n] : n \in DOMAIN listed}
           /\ MacsIn(list) \in KeptOrListed(lines, AllReported)
           /\ \A a \in DOMAIN list :
                 TableOf(lines, MacsIn(list), AllReported, marked)[list[a].mac] =
                     [ip |-> list[a].ip, host |-> list[a].host, blocked |-> list[a].blocked]
<1>1. ExactType /\ ArrayOK(list)
  BY ScanTypes DEF ExactInv, ScanInv
<1>2. /\ Filled(list, lines, AllReported)
      /\ \A a \in DOMAIN list : list[a].blocked <=> list[a].mac \in AllReported \cup marked
  BY DEF ExactInv, MarkedInv
<1>3. AllReported = {listed[n] : n \in DOMAIN listed} /\ AllReported \in SUBSET Macs
  BY <1>1 DEF AllReported, Reported, ExactType
<1>4. MacsIn(list) \in KeptOrListed(lines, AllReported)
  BY <1>1, <1>2, <1>3, FilledIsAllowed DEF ExactType
<1>5. ASSUME NEW a \in DOMAIN list
      PROVE  TableOf(lines, MacsIn(list), AllReported, marked)[list[a].mac] =
                 [ip |-> list[a].ip, host |-> list[a].host, blocked |-> list[a].blocked]
  <2> DEFINE e == list[a]
  <2>1. e.mac \in MacsIn(list)
    BY DEF MacsIn
  <2>2. TableOf(lines, MacsIn(list), AllReported, marked)[e.mac] =
            [ip      |-> LastField(lines, e.mac, "ip"),
             host    |-> LastField(lines, e.mac, "host"),
             blocked |-> e.mac \in AllReported \cup marked]
    BY <2>1 DEF TableOf
  <2>3. LastField(lines, e.mac, "ip") = e.ip /\ LastField(lines, e.mac, "host") = e.host
    BY <1>2 DEF Filled, Informed
  <2>4. e.blocked \in BOOLEAN /\ (e.blocked <=> e.mac \in AllReported \cup marked)
    BY <1>1, <1>2 DEF ExactType, Entry
  <2> HIDE DEF e
  <2>5. e.blocked = (e.mac \in AllReported \cup marked)
    BY <2>4
  <2> QED BY <2>2, <2>3, <2>5 DEF e
<1> QED BY <1>3, <1>4, <1>5
=============================================================================
