-------------------------- MODULE RepublishProofs --------------------------
(***************************************************************************)
(* Theorems about RepublishLoops, for every room in the array, every set   *)
(* of lease files, listings and answers of nft, over any number of rounds  *)
(* and restarts: the array does not overflow, has one entry per MAC and is *)
(* the table rebuild() should come to; the merge loop announces exactly    *)
(* the differences, each once and in order; a round is one step of Leases. *)
(***************************************************************************)
EXTENDS RepublishLoops, ScanProofs

----------------------------------------------------------------------------
(* The merge loop, of two sequences P and L of devices.                    *)

Infos == [ip : Fields \cup {None}, host : Fields \cup {None}, blocked : BOOLEAN]
Devices == [mac : Macs, info : Infos]
Announcements == [event : {"added", "changed", "removed"}, mac : Macs, info : SUBSET Infos]

\* What is owed for the entries of P before m and those of L before n.
OwedFor(P, L, m, n) ==
    {Diff!Removed(P[a]) : a \in {c \in DOMAIN P : c < m /\ Diff!Missing(P, c, L)}}
    \cup {Diff!Added(L[b]) : b \in {c \in DOMAIN L : c < n /\ Diff!Missing(L, c, P)}}
    \cup {Diff!Changed(L[b]) : b \in {c \in DOMAIN L : c < n /\ Diff!Altered(L, c, P)}}

\* Everything behind m and n is below what lies ahead.
Behind(P, L, m, n, ev) ==
    /\ m \in 1..Len(P) + 1 /\ n \in 1..Len(L) + 1
    /\ m <= Len(P) => \A b \in DOMAIN L : b < n => L[b].mac < P[m].mac
    /\ n <= Len(L) => \A a \in DOMAIN P : a < m => P[a].mac < L[n].mac
    /\ \A e \in DOMAIN ev : /\ m <= Len(P) => ev[e].mac < P[m].mac
                            /\ n <= Len(L) => ev[e].mac < L[n].mac

MergeInv(P, L, m, n, ev) ==
    /\ Behind(P, L, m, n, ev)
    /\ ev \in Seq(Announcements)
    /\ Sorted(ev)
    /\ {ev[e] : e \in DOMAIN ev} = OwedFor(P, L, m, n)

\* An announcement above all others keeps their order.
LEMMA Announce ==
    ASSUME NEW ev \in Seq(Announcements), Sorted(ev),
           NEW x \in Announcements, \A e \in DOMAIN ev : ev[e].mac < x.mac
    PROVE  /\ Append(ev, x) \in Seq(Announcements)
           /\ Sorted(Append(ev, x))
           /\ DOMAIN Append(ev, x) = 1..Len(ev) + 1
           /\ \A e \in DOMAIN ev : Append(ev, x)[e] = ev[e]
           /\ Append(ev, x)[Len(ev) + 1] = x
           /\ {Append(ev, x)[e] : e \in DOMAIN Append(ev, x)}
                 = {ev[e] : e \in DOMAIN ev} \cup {x}
<1> DEFINE r == Append(ev, x)
<1>1. /\ r \in Seq(Announcements) /\ DOMAIN r = 1..Len(ev) + 1
      /\ \A e \in DOMAIN ev : r[e] = ev[e]
      /\ r[Len(ev) + 1] = x
      /\ DOMAIN ev = 1..Len(ev) /\ Len(ev) \in Nat
  OBVIOUS
<1> HIDE DEF r
<1>2. Sorted(r)
  BY <1>1 DEF Sorted
<1>3. {r[e] : e \in DOMAIN r} = {ev[e] : e \in DOMAIN ev} \cup {x}
  BY <1>1
<1> QED BY <1>1, <1>2, <1>3 DEF r

\* What the lemmas below need of a list.
Ascending(s) ==
    /\ Len(s) \in Nat
    /\ DOMAIN s = 1..Len(s)
    /\ \A a \in 1..Len(s) : s[a] \in Devices /\ s[a].mac \in Nat
    /\ \A a, b \in 1..Len(s) : a < b => s[a].mac < s[b].mac

LEMMA SortedAscending ==
    ASSUME NEW s \in Seq(Devices), Sorted(s)
    PROVE  Ascending(s)
<1>1. \A d \in Devices : d.mac \in Nat
  BY ScanAssumption DEF Devices
<1> QED BY <1>1 DEF Ascending, Sorted

LEMMA Apart ==
    ASSUME NEW s, Ascending(s)
    PROVE  \A a, b \in 1..Len(s) : s[a].mac = s[b].mac => a = b
<1> SUFFICES ASSUME NEW a \in 1..Len(s), NEW b \in 1..Len(s), s[a].mac = s[b].mac, a # b
             PROVE  FALSE
  OBVIOUS
<1>1. a < b \/ b < a
  BY DEF Ascending
<1> QED BY <1>1 DEF Ascending

LEMMA Announced ==
    \A d \in Devices :
        /\ {Diff!Changed(d), Diff!Added(d), Diff!Removed(d)} \subseteq Announcements
        /\ Diff!Changed(d).mac = d.mac
        /\ Diff!Added(d).mac = d.mac
        /\ Diff!Removed(d).mac = d.mac
<1> SUFFICES ASSUME NEW d \in Devices
             PROVE  /\ {Diff!Changed(d), Diff!Added(d), Diff!Removed(d)} \subseteq Announcements
                    /\ Diff!Changed(d).mac = d.mac
                    /\ Diff!Added(d).mac = d.mac
                    /\ Diff!Removed(d).mac = d.mac
  OBVIOUS
<1>1. d.mac \in Macs /\ d.info \in Infos
  BY ONLY d \in Devices DEF Devices
<1>2. {d.info} \in SUBSET Infos /\ {} \in SUBSET Infos
  BY ONLY <1>1
<1> HIDE DEF Infos
<1>3. \A v \in {"added", "changed", "removed"}, c \in SUBSET Infos :
         /\ [event |-> v, mac |-> d.mac, info |-> c] \in Announcements
         /\ [event |-> v, mac |-> d.mac, info |-> c].mac = d.mac
  BY ONLY <1>1 DEF Announcements
<1>4. Diff!Changed(d) \in Announcements /\ Diff!Changed(d).mac = d.mac
  BY <1>2, <1>3 DEF Diff!Changed
<1>5. Diff!Added(d) \in Announcements /\ Diff!Added(d).mac = d.mac
  BY <1>2, <1>3 DEF Diff!Added
<1>6. Diff!Removed(d) \in Announcements /\ Diff!Removed(d).mac = d.mac
  BY <1>2, <1>3 DEF Diff!Removed
<1> QED BY <1>4, <1>5, <1>6

\* The events after a step that announces x, or does not (S is what it adds).
LEMMA Grows ==
    ASSUME NEW ev \in Seq(Announcements), Sorted(ev),
           NEW x \in Announcements, \A e \in DOMAIN ev : ev[e].mac < x.mac,
           NEW r, NEW S, (r = ev /\ S = {}) \/ (r = Append(ev, x) /\ S = {x})
    PROVE  /\ r \in Seq(Announcements) /\ Sorted(r)
           /\ {r[e] : e \in DOMAIN r} = {ev[e] : e \in DOMAIN ev} \cup S
           /\ \A e \in DOMAIN r : r[e].mac \in Nat /\ r[e].mac <= x.mac
<1>1. \A y \in Announcements : y.mac \in Nat
  BY ScanAssumption DEF Announcements
<1>2. CASE r = ev /\ S = {}
  <2>1. \A e \in DOMAIN ev : ev[e] \in Announcements
    OBVIOUS
  <2>2. \A e \in DOMAIN ev : ev[e].mac \in Nat /\ ev[e].mac <= x.mac
    BY <1>1, <2>1
  <2> QED BY <1>2, <2>2
<1>3. CASE r = Append(ev, x) /\ S = {x}
  <2>1. /\ r \in Seq(Announcements) /\ Sorted(r)
        /\ {r[e] : e \in DOMAIN r} = {ev[e] : e \in DOMAIN ev} \cup S
    BY <1>3, Announce
  <2>2. \A e \in DOMAIN r : r[e] \in {ev[b] : b \in DOMAIN ev} \cup {x}
    BY <1>3, <2>1
  <2>3. \A e \in DOMAIN ev : ev[e] \in Announcements
    OBVIOUS
  <2>4. \A e \in DOMAIN r : r[e].mac \in Nat /\ r[e].mac <= x.mac
    BY <1>1, <2>2, <2>3
  <2> QED BY <2>1, <2>4
<1> QED BY <1>2, <1>3

LEMMA Around ==
    ASSUME NEW s, Ascending(s), NEW m \in 1..Len(s)
    PROVE  \A a \in 1..Len(s) : /\ s[a].mac \in Nat
                                /\ a < m + 1 => s[a].mac <= s[m].mac
                                /\ m < a => s[m].mac < s[a].mac
<1>1. \A a \in 1..Len(s) : a < m + 1 => a = m \/ a < m
  BY DEF Ascending
<1> QED BY <1>1 DEF Ascending

LEMMA MergeSame ==
    ASSUME NEW P, NEW L, Ascending(P), Ascending(L),
           NEW m, NEW n, NEW ev, MergeInv(P, L, m, n, ev),
           m <= Len(P), n <= Len(L), P[m].mac = L[n].mac
    PROVE  MergeInv(P, L, m + 1, n + 1,
                    IF P[m] # L[n] THEN Append(ev, Diff!Changed(L[n])) ELSE ev)
<1>1. /\ m \in 1..Len(P) /\ n \in 1..Len(L)
      /\ DOMAIN P = 1..Len(P) /\ DOMAIN L = 1..Len(L) /\ Len(P) \in Nat /\ Len(L) \in Nat
  BY DEF MergeInv, Behind, Ascending
<1>2. \A b \in DOMAIN P : P[b].mac = L[n].mac => b = m
  BY <1>1, Apart
<1>3. ~Diff!Missing(P, m, L) /\ ~Diff!Missing(L, n, P)
  BY <1>1 DEF Diff!Missing
<1>4. Diff!Altered(L, n, P) <=> P[m] # L[n]
  BY <1>1, <1>2 DEF Diff!Altered
<1> DEFINE x == Diff!Changed(L[n])
           r == IF P[m] # L[n] THEN Append(ev, x) ELSE ev
           S == IF P[m] # L[n] THEN {x} ELSE {}
<1>5. x \in Announcements /\ x.mac = L[n].mac /\ x.mac \in Nat
  BY <1>1, Announced DEF Ascending
<1>6. OwedFor(P, L, m + 1, n + 1) = OwedFor(P, L, m, n) \cup S
  <2>1. {c \in DOMAIN P : c < m + 1 /\ Diff!Missing(P, c, L)}
           = {c \in DOMAIN P : c < m /\ Diff!Missing(P, c, L)}
    BY ONLY <1>1, <1>3
  <2>2. {c \in DOMAIN L : c < n + 1 /\ Diff!Missing(L, c, P)}
           = {c \in DOMAIN L : c < n /\ Diff!Missing(L, c, P)}
    BY ONLY <1>1, <1>3
  <2>3. {c \in DOMAIN L : c < n + 1 /\ Diff!Altered(L, c, P)}
           = {c \in DOMAIN L : c < n /\ Diff!Altered(L, c, P)}
             \cup (IF P[m] # L[n] THEN {n} ELSE {})
    BY ONLY <1>1, <1>4
  <2> QED BY ONLY <2>1, <2>2, <2>3 DEF OwedFor
<1>7. /\ ev \in Seq(Announcements) /\ Sorted(ev)
      /\ {ev[e] : e \in DOMAIN ev} = OwedFor(P, L, m, n)
      /\ \A e \in DOMAIN ev : ev[e].mac < x.mac
  BY <1>1, <1>5 DEF MergeInv, Behind
<1>8. (r = ev /\ S = {}) \/ (r = Append(ev, x) /\ S = {x})
  OBVIOUS
<1> HIDE DEF x, r, S
<1>9. /\ r \in Seq(Announcements) /\ Sorted(r)
      /\ {r[e] : e \in DOMAIN r} = {ev[e] : e \in DOMAIN ev} \cup S
      /\ \A e \in DOMAIN r : r[e].mac \in Nat /\ r[e].mac <= x.mac
  BY ONLY <1>5, <1>7, <1>8, Grows
<1>10. Behind(P, L, m + 1, n + 1, r)
  <2>1. \A a \in 1..Len(P) : /\ P[a].mac \in Nat
                             /\ a < m + 1 => P[a].mac <= L[n].mac
                             /\ m < a => L[n].mac < P[a].mac
    BY <1>1, Around
  <2>2. \A b \in 1..Len(L) : /\ L[b].mac \in Nat
                             /\ b < n + 1 => L[b].mac <= L[n].mac
                             /\ n < b => L[n].mac < L[b].mac
    BY <1>1, Around
  <2>3. /\ m + 1 \in 1..Len(P) + 1 /\ n + 1 \in 1..Len(L) + 1
        /\ m + 1 <= Len(P) => m + 1 \in 1..Len(P) /\ m < m + 1
        /\ n + 1 <= Len(L) => n + 1 \in 1..Len(L) /\ n < n + 1
    BY ONLY <1>1
  <2> HIDE DEF x
  <2>a. /\ L[n].mac \in Nat
        /\ m + 1 <= Len(P) => P[m + 1].mac \in Nat /\ L[n].mac < P[m + 1].mac
        /\ n + 1 <= Len(L) => L[n + 1].mac \in Nat /\ L[n].mac < L[n + 1].mac
    BY ONLY <1>1, <2>1, <2>2, <2>3
  <2>4. m + 1 <= Len(P) => \A b \in DOMAIN L : b < n + 1 => L[b].mac < P[m + 1].mac
    <3>1. ASSUME m + 1 <= Len(P), NEW b \in 1..Len(L), b < n + 1
          PROVE  L[b].mac < P[m + 1].mac
      <4>1. L[b].mac \in Nat /\ L[b].mac <= L[n].mac
        BY ONLY <2>2, <3>1
      <4> QED BY ONLY <1>1, <2>a, <3>1, <4>1
    <3> QED BY ONLY <1>1, <3>1
  <2>5. n + 1 <= Len(L) => \A a \in DOMAIN P : a < m + 1 => P[a].mac < L[n + 1].mac
    <3>1. ASSUME n + 1 <= Len(L), NEW a \in 1..Len(P), a < m + 1
          PROVE  P[a].mac < L[n + 1].mac
      <4>1. P[a].mac \in Nat /\ P[a].mac <= L[n].mac
        BY ONLY <2>1, <3>1
      <4>2. L[n].mac \in Nat /\ L[n + 1].mac \in Nat /\ L[n].mac < L[n + 1].mac
        BY <1>1, <2>a, <3>1
      <4> QED BY ONLY <4>1, <4>2
    <3> QED BY ONLY <1>1, <3>1
  <2>6. \A e \in DOMAIN r : /\ m + 1 <= Len(P) => r[e].mac < P[m + 1].mac
                            /\ n + 1 <= Len(L) => r[e].mac < L[n + 1].mac
    BY ONLY <1>5, <1>9, <2>a
  <2> QED BY ONLY <2>3, <2>4, <2>5, <2>6 DEF Behind
<1> QED BY ONLY <1>6, <1>7, <1>9, <1>10 DEF MergeInv, r, x

LEMMA MergeOnlyInPrev ==
    ASSUME NEW P, NEW L, Ascending(P), Ascending(L),
           NEW m, NEW n, NEW ev, MergeInv(P, L, m, n, ev),
           m <= Len(P), n <= Len(L) => P[m].mac < L[n].mac
    PROVE  MergeInv(P, L, m + 1, n, Append(ev, Diff!Removed(P[m])))
<1>1. /\ m \in 1..Len(P) /\ n \in 1..Len(L) + 1
      /\ DOMAIN P = 1..Len(P) /\ DOMAIN L = 1..Len(L) /\ Len(P) \in Nat /\ Len(L) \in Nat
  BY DEF MergeInv, Behind, Ascending
<1>2. \A a \in 1..Len(P) : /\ P[a].mac \in Nat
                           /\ a < m + 1 => P[a].mac <= P[m].mac
                           /\ m < a => P[m].mac < P[a].mac
  BY <1>1, Around
<1>3. \A b \in 1..Len(L) : /\ L[b].mac \in Nat
                           /\ b < n => L[b].mac < P[m].mac
                           /\ ~(b < n) => P[m].mac < L[b].mac
  <2>1. \A b \in 1..Len(L) : b < n => L[b].mac < P[m].mac
    BY <1>1 DEF MergeInv, Behind
  <2>2. ASSUME NEW b \in 1..Len(L), ~(b < n)
        PROVE  P[m].mac < L[b].mac
    <3>1. n \in 1..Len(L) /\ (b = n \/ n < b)
      BY ONLY <1>1, <2>2
    <3>2. P[m].mac \in Nat /\ L[n].mac \in Nat /\ P[m].mac < L[n].mac
      BY <1>1, <3>1 DEF Ascending
    <3>3. b = n \/ (L[b].mac \in Nat /\ L[n].mac < L[b].mac)
      BY <3>1, Around
    <3> QED BY ONLY <3>2, <3>3
  <2> QED BY <2>1, <2>2 DEF Ascending
<1> DEFINE x == Diff!Removed(P[m])
           r == Append(ev, x)
           S == {x}
<1>4. x \in Announcements /\ x.mac = P[m].mac /\ x.mac \in Nat
  BY <1>1, Announced DEF Ascending
<1>5. OwedFor(P, L, m + 1, n) = OwedFor(P, L, m, n) \cup S
  <2>1. Diff!Missing(P, m, L)
    BY <1>1, <1>2, <1>3 DEF Diff!Missing
  <2>2. {c \in DOMAIN P : c < m + 1 /\ Diff!Missing(P, c, L)}
           = {c \in DOMAIN P : c < m /\ Diff!Missing(P, c, L)} \cup {m}
    BY ONLY <1>1, <2>1
  <2> QED BY ONLY <2>2 DEF OwedFor
<1>6. /\ ev \in Seq(Announcements) /\ Sorted(ev)
      /\ {ev[e] : e \in DOMAIN ev} = OwedFor(P, L, m, n)
      /\ \A e \in DOMAIN ev : ev[e].mac < x.mac
  BY <1>1, <1>4 DEF MergeInv, Behind
<1>7. (r = ev /\ S = {}) \/ (r = Append(ev, x) /\ S = {x})
  OBVIOUS
<1> HIDE DEF x, r, S
<1>8. /\ r \in Seq(Announcements) /\ Sorted(r)
      /\ {r[e] : e \in DOMAIN r} = {ev[e] : e \in DOMAIN ev} \cup S
      /\ \A e \in DOMAIN r : r[e].mac \in Nat /\ r[e].mac <= x.mac
  BY ONLY <1>4, <1>6, <1>7, Grows
<1>9. Behind(P, L, m + 1, n, r)
  <2>1. /\ m + 1 \in 1..Len(P) + 1 /\ n \in 1..Len(L) + 1
        /\ m + 1 <= Len(P) => m + 1 \in 1..Len(P) /\ m < m + 1
        /\ n <= Len(L) => n \in 1..Len(L) /\ ~(n < n)
    BY ONLY <1>1
  <2>2. /\ P[m].mac \in Nat
        /\ m + 1 <= Len(P) => P[m + 1].mac \in Nat /\ P[m].mac < P[m + 1].mac
        /\ n <= Len(L) => L[n].mac \in Nat /\ P[m].mac < L[n].mac
    BY ONLY <1>1, <1>2, <1>3, <2>1
  <2>3. m + 1 <= Len(P) => \A b \in DOMAIN L : b < n => L[b].mac < P[m + 1].mac
    <3>1. ASSUME m + 1 <= Len(P), NEW b \in 1..Len(L), b < n
          PROVE  L[b].mac < P[m + 1].mac
      <4>1. L[b].mac \in Nat /\ L[b].mac < P[m].mac
        BY ONLY <1>3, <3>1
      <4>2. P[m].mac \in Nat /\ P[m + 1].mac \in Nat /\ P[m].mac < P[m + 1].mac
        BY <1>1, <2>2, <3>1
      <4> QED BY ONLY <4>1, <4>2
    <3> QED BY ONLY <1>1, <3>1
  <2>4. n <= Len(L) => \A a \in DOMAIN P : a < m + 1 => P[a].mac < L[n].mac
    <3>1. ASSUME n <= Len(L), NEW a \in 1..Len(P), a < m + 1
          PROVE  P[a].mac < L[n].mac
      <4>1. P[a].mac \in Nat /\ P[a].mac <= P[m].mac
        BY ONLY <1>2, <3>1
      <4>2. P[m].mac \in Nat /\ L[n].mac \in Nat /\ P[m].mac < L[n].mac
        BY <1>1, <2>2, <3>1
      <4> QED BY ONLY <4>1, <4>2
    <3> QED BY ONLY <1>1, <3>1
  <2>5. \A e \in DOMAIN r : /\ m + 1 <= Len(P) => r[e].mac < P[m + 1].mac
                            /\ n <= Len(L) => r[e].mac < L[n].mac
    BY ONLY <1>4, <1>8, <2>2
  <2> QED BY ONLY <2>1, <2>3, <2>4, <2>5 DEF Behind
<1> QED BY ONLY <1>5, <1>6, <1>8, <1>9 DEF MergeInv, r, x

LEMMA MergeOnlyInList ==
    ASSUME NEW P, NEW L, Ascending(P), Ascending(L),
           NEW m, NEW n, NEW ev, MergeInv(P, L, m, n, ev),
           n <= Len(L), m <= Len(P) => L[n].mac < P[m].mac
    PROVE  MergeInv(P, L, m, n + 1, Append(ev, Diff!Added(L[n])))
<1>1. /\ n \in 1..Len(L) /\ m \in 1..Len(P) + 1
      /\ DOMAIN P = 1..Len(P) /\ DOMAIN L = 1..Len(L) /\ Len(P) \in Nat /\ Len(L) \in Nat
  BY DEF MergeInv, Behind, Ascending
<1>2. \A a \in 1..Len(L) : /\ L[a].mac \in Nat
                           /\ a < n + 1 => L[a].mac <= L[n].mac
                           /\ n < a => L[n].mac < L[a].mac
  BY <1>1, Around
<1>3. \A b \in 1..Len(P) : /\ P[b].mac \in Nat
                           /\ b < m => P[b].mac < L[n].mac
                           /\ ~(b < m) => L[n].mac < P[b].mac
  <2>1. \A b \in 1..Len(P) : b < m => P[b].mac < L[n].mac
    BY <1>1 DEF MergeInv, Behind
  <2>2. ASSUME NEW b \in 1..Len(P), ~(b < m)
        PROVE  L[n].mac < P[b].mac
    <3>1. m \in 1..Len(P) /\ (b = m \/ m < b)
      BY ONLY <1>1, <2>2
    <3>2. L[n].mac \in Nat /\ P[m].mac \in Nat /\ L[n].mac < P[m].mac
      BY <1>1, <3>1 DEF Ascending
    <3>3. b = m \/ (P[b].mac \in Nat /\ P[m].mac < P[b].mac)
      BY <3>1, Around
    <3> QED BY ONLY <3>2, <3>3
  <2> QED BY <2>1, <2>2 DEF Ascending
<1> DEFINE x == Diff!Added(L[n])
           r == Append(ev, x)
           S == {x}
<1>4. x \in Announcements /\ x.mac = L[n].mac /\ x.mac \in Nat
  BY <1>1, Announced DEF Ascending
<1>5. OwedFor(P, L, m, n + 1) = OwedFor(P, L, m, n) \cup S
  <2>1. Diff!Missing(L, n, P)
    BY <1>1, <1>2, <1>3 DEF Diff!Missing
  <2>2. {c \in DOMAIN L : c < n + 1 /\ Diff!Missing(L, c, P)}
           = {c \in DOMAIN L : c < n /\ Diff!Missing(L, c, P)} \cup {n}
    BY ONLY <1>1, <2>1
  <2>3. {c \in DOMAIN L : c < n + 1 /\ Diff!Altered(L, c, P)}
           = {c \in DOMAIN L : c < n /\ Diff!Altered(L, c, P)}
    BY ONLY <1>1, <2>1 DEF Diff!Missing, Diff!Altered
  <2> QED BY ONLY <2>2, <2>3 DEF OwedFor
<1>6. /\ ev \in Seq(Announcements) /\ Sorted(ev)
      /\ {ev[e] : e \in DOMAIN ev} = OwedFor(P, L, m, n)
      /\ \A e \in DOMAIN ev : ev[e].mac < x.mac
  BY <1>1, <1>4 DEF MergeInv, Behind
<1>7. (r = ev /\ S = {}) \/ (r = Append(ev, x) /\ S = {x})
  OBVIOUS
<1> HIDE DEF x, r, S
<1>8. /\ r \in Seq(Announcements) /\ Sorted(r)
      /\ {r[e] : e \in DOMAIN r} = {ev[e] : e \in DOMAIN ev} \cup S
      /\ \A e \in DOMAIN r : r[e].mac \in Nat /\ r[e].mac <= x.mac
  BY ONLY <1>4, <1>6, <1>7, Grows
<1>9. Behind(P, L, m, n + 1, r)
  <2>1. /\ n + 1 \in 1..Len(L) + 1 /\ m \in 1..Len(P) + 1
        /\ n + 1 <= Len(L) => n + 1 \in 1..Len(L) /\ n < n + 1
        /\ m <= Len(P) => m \in 1..Len(P) /\ ~(m < m)
    BY ONLY <1>1
  <2>2. /\ L[n].mac \in Nat
        /\ n + 1 <= Len(L) => L[n + 1].mac \in Nat /\ L[n].mac < L[n + 1].mac
        /\ m <= Len(P) => P[m].mac \in Nat /\ L[n].mac < P[m].mac
    BY ONLY <1>1, <1>2, <1>3, <2>1
  <2>3. n + 1 <= Len(L) => \A b \in DOMAIN P : b < m => P[b].mac < L[n + 1].mac
    <3>1. ASSUME n + 1 <= Len(L), NEW b \in 1..Len(P), b < m
          PROVE  P[b].mac < L[n + 1].mac
      <4>1. P[b].mac \in Nat /\ P[b].mac < L[n].mac
        BY ONLY <1>3, <3>1
      <4>2. L[n].mac \in Nat /\ L[n + 1].mac \in Nat /\ L[n].mac < L[n + 1].mac
        BY <1>1, <2>2, <3>1
      <4> QED BY ONLY <4>1, <4>2
    <3> QED BY ONLY <1>1, <3>1
  <2>4. m <= Len(P) => \A a \in DOMAIN L : a < n + 1 => L[a].mac < P[m].mac
    <3>1. ASSUME m <= Len(P), NEW a \in 1..Len(L), a < n + 1
          PROVE  L[a].mac < P[m].mac
      <4>1. L[a].mac \in Nat /\ L[a].mac <= L[n].mac
        BY ONLY <1>2, <3>1
      <4>2. L[n].mac \in Nat /\ P[m].mac \in Nat /\ L[n].mac < P[m].mac
        BY <1>1, <2>2, <3>1
      <4> QED BY ONLY <4>1, <4>2
    <3> QED BY ONLY <1>1, <3>1
  <2>5. \A e \in DOMAIN r : /\ n + 1 <= Len(L) => r[e].mac < L[n + 1].mac
                            /\ m <= Len(P) => r[e].mac < P[m].mac
    BY ONLY <1>4, <1>8, <2>2
  <2> QED BY ONLY <2>1, <2>3, <2>4, <2>5 DEF Behind
<1> QED BY ONLY <1>5, <1>6, <1>8, <1>9 DEF MergeInv, r, x

----------------------------------------------------------------------------
(* The rounds.                                                             *)

RoundInv ==
    /\ ScanInv
    /\ ArrayOK(prev) /\ Sorted(prev)
    /\ Sorted(events)
    /\ pc \notin {"diff", "publish"} => i = 1 /\ j = 1 /\ events = <<>>
    /\ pc = "diff" => MergeInv(Pairs(prev), Pairs(list), i, j, events)

LEMMA PairsAscending ==
    ASSUME NEW l, ArrayOK(l), Sorted(l)
    PROVE  Ascending(Pairs(l))
<1> DEFINE s == Pairs(l)
<1>1. \A e \in Entry : /\ [mac |-> e.mac, info |-> Info(e)] \in Devices
                       /\ [mac |-> e.mac, info |-> Info(e)].mac = e.mac
                       /\ e.mac \in Nat
  BY ScanAssumption DEF Entry, Info, Devices, Infos
<1>2. l \in Seq(Entry) /\ DOMAIN l = 1..Len(l) /\ Len(l) \in Nat
  BY DEF ArrayOK
<1>3. \A n \in 1..Len(l) : l[n] \in Entry
  BY <1>2
<1>4. s = [n \in 1..Len(l) |-> [mac |-> l[n].mac, info |-> Info(l[n])]]
  BY <1>2 DEF Pairs
<1> HIDE DEF s
<1>5. \A n \in 1..Len(l) : s[n] \in Devices /\ s[n].mac = l[n].mac
  BY <1>1, <1>3, <1>4
<1>6. s \in Seq(Devices)
  BY <1>2, <1>4, <1>5
<1>7. DOMAIN s = 1..Len(l)
  BY <1>4
<1>8. Sorted(s)
  BY <1>2, <1>5, <1>7 DEF Sorted
<1> QED BY <1>6, <1>8, SortedAscending DEF s

\* At the head of the loop nothing is owed.
LEMMA MergeBegins ==
    ASSUME NEW P, NEW L, Ascending(P), Ascending(L)
    PROVE  MergeInv(P, L, 1, 1, <<>>)
<1>1. DOMAIN P = 1..Len(P) /\ DOMAIN L = 1..Len(L) /\ Len(P) \in Nat /\ Len(L) \in Nat
  BY DEF Ascending
<1>2. <<>> \in Seq(Announcements) /\ DOMAIN <<>> = {}
  OBVIOUS
<1>3. Behind(P, L, 1, 1, <<>>)
  BY ONLY <1>1, <1>2 DEF Behind
<1>4. OwedFor(P, L, 1, 1) = {}
  <2>1. \A c \in DOMAIN P \cup DOMAIN L : ~(c < 1)
    BY <1>1
  <2> QED BY ONLY <2>1 DEF OwedFor
<1> QED BY ONLY <1>2, <1>3, <1>4 DEF MergeInv, Sorted

LEMMA MergeStep ==
    ASSUME RoundInv, DiffStep
    PROVE  MergeInv(Pairs(prev), Pairs(list), i', j', events')
<1> DEFINE P == Pairs(prev)
           L == Pairs(list)
<1>1. Ascending(P) /\ Ascending(L) /\ MergeInv(P, L, i, j, events)
  BY PairsAscending DEF RoundInv, ScanInv, DiffStep
<1>2. CASE Diff!SameMac
  <2>1. /\ i <= Len(P) /\ j <= Len(L) /\ P[i].mac = L[j].mac
        /\ i' = i + 1 /\ j' = j + 1
        /\ events' = IF P[i] # L[j] THEN Append(events, Diff!Changed(L[j])) ELSE events
    BY <1>2 DEF Diff!SameMac, Diff!MoreOf
  <2> HIDE DEF P, L
  <2>2. MergeInv(P, L, i + 1, j + 1,
                 IF P[i] # L[j] THEN Append(events, Diff!Changed(L[j])) ELSE events)
    BY <1>1, <2>1, MergeSame
  <2> QED BY <2>1, <2>2 DEF P, L
<1>3. CASE Diff!OnlyInPrev
  <2>1. /\ i <= Len(P) /\ (j <= Len(L) => P[i].mac < L[j].mac)
        /\ i' = i + 1 /\ j' = j
        /\ events' = Append(events, Diff!Removed(P[i]))
    BY <1>3 DEF Diff!OnlyInPrev, Diff!MoreOf
  <2> HIDE DEF P, L
  <2>2. MergeInv(P, L, i + 1, j, Append(events, Diff!Removed(P[i])))
    BY <1>1, <2>1, MergeOnlyInPrev
  <2> QED BY <2>1, <2>2 DEF P, L
<1>4. CASE Diff!OnlyInList
  <2>1. /\ j <= Len(L) /\ (i <= Len(P) => L[j].mac < P[i].mac)
        /\ i' = i /\ j' = j + 1
        /\ events' = Append(events, Diff!Added(L[j]))
    BY <1>4 DEF Diff!OnlyInList, Diff!MoreOf
  <2> HIDE DEF P, L
  <2>2. MergeInv(P, L, i, j + 1, Append(events, Diff!Added(L[j])))
    BY <1>1, <2>1, MergeOnlyInList
  <2> QED BY <2>1, <2>2 DEF P, L
<1> QED BY <1>2, <1>3, <1>4 DEF DiffStep

LEMMA RoundStep == RoundInv /\ [RoundNext]_roundVars => RoundInv'
<1> SUFFICES ASSUME RoundInv, [RoundNext]_roundVars PROVE RoundInv'
  OBVIOUS
<1>1. CASE Rebuild
  <2>1. ScanInv'
    BY <1>1, ScanStep DEF Rebuild, RoundInv
  <2>2. UNCHANGED <<prev, i, j, events>>
    BY <1>1 DEF Rebuild, diffState
  <2>3. pc \notin {"diff", "publish"} /\ pc' \notin {"diff", "publish"}
    BY <1>1 DEF Rebuild, ScanNext, ReadLine, MergeBlocked, MarkDevice, Sort, Enter
  <2> QED BY <2>1, <2>2, <2>3 DEF RoundInv, ArrayOK, Unique, Sorted
<1>2. CASE DiffBegin
  <2>1. ScanInv' /\ pc = "done" /\ Sorted(list) /\ ArrayOK(list)
    BY <1>2 DEF DiffBegin, RoundInv, ScanInv, inputs, ArrayOK, Unique, Sorted
  <2>2. /\ ArrayOK(prev)' /\ Sorted(prev)'
        /\ i' = 1 /\ j' = 1 /\ events' = <<>> /\ Sorted(events)'
    BY <1>2, <2>1 DEF DiffBegin, RoundInv, ArrayOK, Unique, Sorted
  <2>3. ASSUME pc' = "diff" PROVE MergeInv(Pairs(prev), Pairs(list), i, j, events)'
    <3>1. prev' = prev /\ list' = list
      BY <1>2, <2>3 DEF DiffBegin
    <3>2. MergeInv(Pairs(prev), Pairs(list), 1, 1, <<>>)
      BY <2>1, PairsAscending, MergeBegins DEF RoundInv
    <3> QED BY <2>2, <3>1, <3>2
  <2> QED BY <2>1, <2>2, <2>3 DEF RoundInv
<1>3. CASE DiffStep
  <2>1. UNCHANGED <<pc, k, list, lines, listed, prev>> /\ pc = "diff"
    BY <1>3 DEF DiffStep, scanVars, inputs
  <2>2. MergeInv(Pairs(prev), Pairs(list), i', j', events')
    BY <1>3, MergeStep
  <2>3. ScanInv' /\ ArrayOK(prev)' /\ Sorted(prev)'
    BY <2>1 DEF RoundInv, ScanInv, ArrayOK, Unique, Sorted
  <2>4. MergeInv(Pairs(prev), Pairs(list), i, j, events)' /\ Sorted(events)'
    BY <2>1, <2>2 DEF MergeInv
  <2> QED BY <2>1, <2>3, <2>4 DEF RoundInv
<1>4. CASE DiffEnd
  BY <1>4 DEF DiffEnd, RoundInv, ScanInv, inputs, ArrayOK, Unique, Sorted
<1>5. CASE PublishList
  <2>1. ArrayOK(<<>>)
    BY DeviceAssumption DEF ArrayOK, Unique
  <2>2. ScanInv'
    BY <1>5, <2>1 DEF PublishList, ScanInv
  <2> QED BY <1>5, <2>2 DEF PublishList, RoundInv, ArrayOK, Unique, Sorted
<1>6. CASE RestartRounds
  <2>1. ArrayOK(<<>>) /\ Sorted(<<>>)
    BY DeviceAssumption DEF ArrayOK, Unique, Sorted
  <2>2. ScanInv'
    BY <1>6 DEF RestartRounds, RoundInv, ScanInv, scanVars, inputs
  <2> QED BY <1>6, <2>1, <2>2 DEF RestartRounds, RoundInv, scanVars, ArrayOK, Unique, Sorted
<1>7. CASE UNCHANGED roundVars
  <2>1. UNCHANGED <<pc, k, list, lines, listed, prev, i, j, events>>
    BY <1>7 DEF roundVars, scanVars, inputs, diffState
  <2>2. ScanInv' /\ ArrayOK(prev)' /\ Sorted(prev)' /\ Sorted(events)'
    BY <2>1 DEF RoundInv, ScanInv, ArrayOK, Unique, Sorted
  <2>3. pc = "diff" => MergeInv(Pairs(prev), Pairs(list), i, j, events)'
    BY <2>1 DEF RoundInv
  <2> QED BY <2>1, <2>2, <2>3 DEF RoundInv
<1> QED BY <1>1, <1>2, <1>3, <1>4, <1>5, <1>6, <1>7 DEF RoundNext

LEMMA RoundInvHolds == RoundSpec => []RoundInv
<1>1. RoundInit => RoundInv
  <2>1. ArrayOK(<<>>) /\ Sorted(<<>>)
    BY DeviceAssumption DEF ArrayOK, Unique, Sorted
  <2> QED BY <2>1 DEF RoundInit, ScanInit, RoundInv, ScanInv
<1> QED BY <1>1, RoundStep, PTL DEF RoundSpec

----------------------------------------------------------------------------
(* A round as the one step that Leases takes it for.                       *)

\* Everything that tells P from L.
AllOwed(P, L) == OwedFor(P, L, Len(P) + 1, Len(L) + 1)

\* Between rounds prev is the snapshot; behind the merge loop the events lead
\* from the snapshot, which prev was, to list.
SnapshotInv ==
    /\ pc \notin {"first", "publish"} => snapshot = prev
    /\ pc \in {"first", "publish"} => prev = list
    /\ pc = "publish" =>
          /\ ArrayOK(snapshot) /\ Sorted(snapshot)
          /\ {events[e] : e \in DOMAIN events} = AllOwed(Pairs(snapshot), Pairs(list))

TableInv == RoundInv /\ ExactInv /\ SnapshotInv

\* Outside rebuild() the list and its inputs stay.
LEMMA ExactKeeps ==
    ASSUME ExactInv, ScanInv', UNCHANGED <<list, inputs>>,
           \/ pc' = pc /\ k' = k
           \/ {pc, pc'} \cap {"read", "merge", "mark"} = {}
    PROVE  ExactInv'
<1>1. AllReported' = AllReported /\ (k' = k => Reported(k - 1)' = Reported(k - 1))
  BY DEF inputs, AllReported, Reported
<1>2. CASE pc' = pc /\ k' = k
  BY <1>1, <1>2 DEF ExactInv, ReadInv, MergingInv, MarkInv, MarkedInv, inputs
<1>3. CASE {pc, pc'} \cap {"read", "merge", "mark"} = {}
  BY <1>1, <1>3 DEF ExactInv, ReadInv, MergingInv, MarkInv, MarkedInv, inputs
<1> QED BY <1>2, <1>3

LEMMA PublishKeeps == ASSUME PublishList, ScanInv' PROVE ExactInv'
<1>1. /\ pc' = "read" /\ k' = 1 /\ k' - 1 = 0 /\ list' = <<>> /\ lines' \in Seq(Line)
      /\ Len(lines') \in Nat
  BY ScanAssumption DEF PublishList
<1>2. MacsIn(<<>>) = Kept(Prefix(lines', 0)) /\ DOMAIN <<>> = {}
  BY <1>1, ExactBegins
<1> QED BY <1>1, <1>2 DEF ExactInv, ReadInv, MergingInv, MarkInv, MarkedInv

LEMMA PairsOf ==
    ASSUME NEW l, ArrayOK(l)
    PROVE  /\ DOMAIN Pairs(l) = DOMAIN l /\ DOMAIN l = 1..Len(l)
           /\ Len(Pairs(l)) = Len(l) /\ Len(l) \in Nat
           /\ \A n \in DOMAIN l : Pairs(l)[n] = [mac |-> l[n].mac, info |-> Info(l[n])]
<1>1. DOMAIN l = 1..Len(l) /\ Len(l) \in Nat
  BY DEF ArrayOK
<1>2. Pairs(l) = [n \in 1..Len(l) |-> [mac |-> l[n].mac, info |-> Info(l[n])]]
  BY <1>1 DEF Pairs
<1>3. Pairs(l) \in Seq({[mac |-> l[n].mac, info |-> Info(l[n])] : n \in 1..Len(l)})
  BY <1>1, <1>2
<1>4. Len(Pairs(l)) = Len(l)
  BY <1>1, <1>2, <1>3
<1> QED BY <1>1, <1>2, <1>4

LEMMA TableStep == TableInv /\ [RoundNext]_roundVars => TableInv'
<1> SUFFICES ASSUME TableInv, [RoundNext]_roundVars PROVE TableInv'
  OBVIOUS
<1>1. RoundInv' /\ ScanInv'
  BY RoundStep DEF TableInv, RoundInv
<1>2. CASE Rebuild
  <2>1. ExactInv'
    BY <1>2, ExactStep DEF Rebuild, TableInv
  <2>2. UNCHANGED <<prev, snapshot>> /\ pc' \notin {"first", "publish"} /\ pc \notin {"first", "publish"}
    BY <1>2 DEF Rebuild, diffState, ScanNext, ReadLine, MergeBlocked, MarkDevice, Sort, Enter
  <2> QED BY <1>1, <2>1, <2>2 DEF TableInv, SnapshotInv
<1>3. CASE DiffBegin
  <2>1. ExactInv'
    BY <1>1, <1>3, ExactKeeps DEF DiffBegin, TableInv
  <2>2. SnapshotInv'
    BY <1>3 DEF DiffBegin, TableInv, SnapshotInv
  <2> QED BY <1>1, <2>1, <2>2 DEF TableInv
<1>4. CASE DiffStep
  <2>1. UNCHANGED <<scanVars, prev, snapshot>> /\ pc = "diff"
    BY <1>4 DEF DiffStep
  <2>2. ExactInv'
    BY <1>1, <2>1, ExactKeeps DEF TableInv, scanVars
  <2> QED BY <1>1, <2>1, <2>2 DEF TableInv, SnapshotInv, scanVars
<1>5. CASE DiffEnd
  <2> DEFINE P == Pairs(prev)
             L == Pairs(list)
  <2>1. ExactInv'
    BY <1>1, <1>5, ExactKeeps DEF DiffEnd, TableInv
  <2>2. /\ pc = "diff" /\ ~(i <= Len(P)) /\ ~(j <= Len(L))
        /\ pc' = "publish" /\ prev' = list /\ UNCHANGED <<list, events, snapshot>>
    BY <1>5 DEF DiffEnd, Diff!Finished, Diff!MoreOf
  <2>3. /\ snapshot = prev /\ MergeInv(P, L, i, j, events)
        /\ ArrayOK(prev) /\ Sorted(prev) /\ ArrayOK(list)
    BY <2>2 DEF TableInv, SnapshotInv, RoundInv, ScanInv
  <2>4. i = Len(P) + 1 /\ j = Len(L) + 1
    <3>1. Len(P) \in Nat /\ Len(L) \in Nat
      BY <2>3, PairsOf
    <3>2. i \in 1..Len(P) + 1 /\ j \in 1..Len(L) + 1
      BY <2>3 DEF MergeInv, Behind
    <3> HIDE DEF P, L
    <3> QED BY <2>2, <3>1, <3>2
  <2>5. {events[e] : e \in DOMAIN events} = AllOwed(P, L)
    BY <2>3, <2>4 DEF MergeInv, AllOwed
  <2>6. SnapshotInv'
    BY <2>2, <2>3, <2>5 DEF SnapshotInv, ArrayOK, Unique, Sorted
  <2> QED BY <1>1, <2>1, <2>6 DEF TableInv
<1>6. CASE PublishList
  <2>1. ExactInv'
    BY <1>1, <1>6, PublishKeeps
  <2>2. prev = list
    BY <1>6 DEF PublishList, TableInv, SnapshotInv
  <2> QED BY <1>1, <1>6, <2>1, <2>2 DEF TableInv, SnapshotInv, PublishList
<1>7. CASE RestartRounds
  <2>1. ExactInv'
    BY <1>1, <1>7, ExactKeeps DEF RestartRounds, TableInv, scanVars
  <2> QED BY <1>1, <1>7, <2>1 DEF TableInv, SnapshotInv, RestartRounds, scanVars
<1>8. CASE UNCHANGED roundVars
  <2>1. UNCHANGED <<pc, k, list, inputs, prev, events, snapshot>>
    BY <1>8 DEF roundVars, scanVars, diffState
  <2>2. ExactInv'
    BY <1>1, <2>1, ExactKeeps DEF TableInv
  <2> QED BY <1>1, <2>1, <2>2 DEF TableInv, SnapshotInv
<1> QED BY <1>2, <1>3, <1>4, <1>5, <1>6, <1>7, <1>8 DEF RoundNext

LEMMA TableInvHolds == RoundSpec => []TableInv
<1>1. RoundInit => TableInv
  <2> SUFFICES ASSUME RoundInit PROVE TableInv
    OBVIOUS
  <2>1. RoundInv
    <3>1. ArrayOK(<<>>) /\ Sorted(<<>>)
      BY DeviceAssumption DEF ArrayOK, Unique, Sorted
    <3> QED BY <3>1 DEF RoundInit, ScanInit, RoundInv, ScanInv
  <2>2. /\ pc = "read" /\ k = 1 /\ k - 1 = 0 /\ list = <<>> /\ lines \in Seq(Line)
        /\ Len(lines) \in Nat /\ snapshot = prev
    BY ScanAssumption DEF RoundInit, ScanInit
  <2>3. MacsIn(<<>>) = Kept(Prefix(lines, 0)) /\ DOMAIN <<>> = {}
    BY <2>2, ExactBegins
  <2>4. ExactInv
    BY <2>1, <2>2, <2>3 DEF RoundInv, ExactInv, ReadInv, MergingInv, MarkInv, MarkedInv
  <2> QED BY <2>1, <2>2, <2>4 DEF TableInv, SnapshotInv
<1> QED BY <1>1, TableStep, PTL DEF RoundSpec

\* An array with one entry per MAC as a table.
LEMMA TableIs ==
    ASSUME NEW l, ArrayOK(l)
    PROVE  /\ DOMAIN AsTable(l) = MacsIn(l)
           /\ \A n \in DOMAIN l : AsTable(l)[l[n].mac] = Info(l[n])
<1>1. DOMAIN AsTable(l) = MacsIn(l)
  BY DEF AsTable, MacsIn
<1>2. ASSUME NEW n \in DOMAIN l PROVE AsTable(l)[l[n].mac] = Info(l[n])
  <2>1. \A b \in DOMAIN l : l[b].mac = l[n].mac => b = n
    BY DEF ArrayOK, Unique
  <2>2. (CHOOSE b \in DOMAIN l : l[b].mac = l[n].mac) = n
    BY <2>1
  <2>3. l[n].mac \in {l[b].mac : b \in DOMAIN l}
    OBVIOUS
  <2> QED BY <2>2, <2>3 DEF AsTable
<1> QED BY <1>1, <1>2

LEMMA EventsAre ==
    \A d : /\ AsEvent(Diff!Added(d)) = Added(d.mac, d.info)
           /\ AsEvent(Diff!Changed(d)) = Changed(d.mac, d.info)
           /\ AsEvent(Diff!Removed(d)) = Removed(d.mac)
<1> SUFFICES ASSUME NEW d
             PROVE  /\ AsEvent(Diff!Added(d)) = Added(d.mac, d.info)
                    /\ AsEvent(Diff!Changed(d)) = Changed(d.mac, d.info)
                    /\ AsEvent(Diff!Removed(d)) = Removed(d.mac)
  OBVIOUS
<1>1. (CHOOSE x \in {d.info} : TRUE) = d.info /\ {d.info} # {}
  OBVIOUS
<1>2. AsEvent(Diff!Added(d)) = Added(d.mac, d.info)
  BY <1>1 DEF AsEvent, Diff!Added, Added
<1>3. AsEvent(Diff!Changed(d)) = Changed(d.mac, d.info)
  BY <1>1 DEF AsEvent, Diff!Changed, Changed
<1>4. AsEvent(Diff!Removed(d)) = Removed(d.mac)
  BY DEF AsEvent, Diff!Removed, Removed
<1> QED BY <1>2, <1>3, <1>4

\* What is owed between two arrays are the events between their tables.
LEMMA OwedAreEvents ==
    ASSUME NEW p, ArrayOK(p), NEW l, ArrayOK(l)
    PROVE  {AsEvent(e) : e \in AllOwed(Pairs(p), Pairs(l))} = Events(AsTable(p), AsTable(l))
<1> DEFINE P == Pairs(p)
           L == Pairs(l)
           T == AsTable(p)
           U == AsTable(l)
           gone == {c \in DOMAIN p : \A b \in DOMAIN l : l[b].mac # p[c].mac}
           new == {c \in DOMAIN l : \A b \in DOMAIN p : p[b].mac # l[c].mac}
           other == {c \in DOMAIN l : \E b \in DOMAIN p :
                        p[b].mac = l[c].mac /\ Info(p[b]) # Info(l[c])}
<1>1. /\ DOMAIN P = DOMAIN p /\ DOMAIN p = 1..Len(p) /\ Len(P) = Len(p) /\ Len(p) \in Nat
      /\ DOMAIN L = DOMAIN l /\ DOMAIN l = 1..Len(l) /\ Len(L) = Len(l) /\ Len(l) \in Nat
      /\ \A n \in DOMAIN p : P[n] = [mac |-> p[n].mac, info |-> Info(p[n])]
      /\ \A n \in DOMAIN l : L[n] = [mac |-> l[n].mac, info |-> Info(l[n])]
  BY PairsOf
<1>2. /\ DOMAIN T = MacsIn(p) /\ \A n \in DOMAIN p : T[p[n].mac] = Info(p[n])
      /\ DOMAIN U = MacsIn(l) /\ \A n \in DOMAIN l : U[l[n].mac] = Info(l[n])
  BY TableIs
<1> HIDE DEF P, L, T, U
<1>3. /\ \A n \in DOMAIN p : P[n].mac = p[n].mac /\ P[n].info = Info(p[n])
      /\ \A n \in DOMAIN l : L[n].mac = l[n].mac /\ L[n].info = Info(l[n])
  BY <1>1
<1>4. /\ {c \in DOMAIN P : c < Len(P) + 1 /\ Diff!Missing(P, c, L)} = gone
      /\ {c \in DOMAIN L : c < Len(L) + 1 /\ Diff!Missing(L, c, P)} = new
  BY <1>1, <1>3 DEF Diff!Missing
<1>5. {c \in DOMAIN L : c < Len(L) + 1 /\ Diff!Altered(L, c, P)} = other
  <2>1. \A c \in DOMAIN l : \A b \in DOMAIN p :
           p[b].mac = l[c].mac => (P[b] # L[c] <=> Info(p[b]) # Info(l[c]))
    BY <1>1, <1>3
  <2>2. \A c \in DOMAIN l : c < Len(L) + 1
    BY <1>1
  <2>3. \A c \in DOMAIN l : Diff!Altered(L, c, P) <=> c \in other
    BY <1>1, <1>3, <2>1 DEF Diff!Altered
  <2> HIDE DEF other
  <2>4. other \subseteq DOMAIN l
    BY DEF other
  <2> QED BY <1>1, <2>2, <2>3, <2>4
<1>6. {AsEvent(e) : e \in AllOwed(P, L)} =
          {Removed(p[c].mac) : c \in gone}
          \cup {Added(l[c].mac, Info(l[c])) : c \in new}
          \cup {Changed(l[c].mac, Info(l[c])) : c \in other}
  <2>1. AllOwed(P, L) = {Diff!Removed(P[a]) : a \in gone} \cup {Diff!Added(L[b]) : b \in new}
                           \cup {Diff!Changed(L[b]) : b \in other}
    BY <1>4, <1>5 DEF AllOwed, OwedFor
  <2>2. /\ \A a \in gone : AsEvent(Diff!Removed(P[a])) = Removed(p[a].mac)
        /\ \A b \in new : AsEvent(Diff!Added(L[b])) = Added(l[b].mac, Info(l[b]))
        /\ \A b \in other : AsEvent(Diff!Changed(L[b])) = Changed(l[b].mac, Info(l[b]))
    BY <1>3, EventsAre
  <2> HIDE DEF gone, new, other
  <2> QED BY <2>1, <2>2
<1>7. /\ {p[c].mac : c \in gone} = DOMAIN T \ DOMAIN U
      /\ {l[c].mac : c \in new} = DOMAIN U \ DOMAIN T
  BY <1>2 DEF MacsIn
<1>8. {l[c].mac : c \in other} = {n \in DOMAIN U \cap DOMAIN T : T[n] # U[n]}
  BY <1>2 DEF MacsIn
<1>9. \A c \in DOMAIN l : Info(l[c]) = U[l[c].mac]
  BY <1>2
<1>10. new \subseteq DOMAIN l /\ other \subseteq DOMAIN l
  OBVIOUS
<1> HIDE DEF gone, new, other
<1>11. {Removed(p[c].mac) : c \in gone} = {Removed(m) : m \in DOMAIN T \ DOMAIN U}
  BY <1>7
<1>12. {Added(l[c].mac, Info(l[c])) : c \in new} = {Added(m, U[m]) : m \in DOMAIN U \ DOMAIN T}
  BY <1>7, <1>9, <1>10
<1>13. {Changed(l[c].mac, Info(l[c])) : c \in other} =
          {Changed(m, U[m]) : m \in {n \in DOMAIN U \cap DOMAIN T : T[n] # U[n]}}
  BY <1>8, <1>9, <1>10
<1>14. {AsEvent(e) : e \in AllOwed(P, L)} = Events(T, U)
  BY <1>6, <1>11, <1>12, <1>13 DEF Events
<1> QED BY <1>14 DEF P, L, T, U

----------------------------------------------------------------------------
(* The results.                                                            *)

\* add_or_merge never writes past list[MAX_DEVICES], whatever the lease file
\* and the listing hold.
THEOREM ListAlwaysFits == RoundSpec => []ListFits
<1>1. RoundInv => ListFits
  BY DEF RoundInv, ScanInv, ArrayOK, ListFits
<1> QED BY <1>1, RoundInvHolds, PTL

\* rebuild() keeps one entry per MAC, through the merge of the listing, the
\* marking and the sorting.
THEOREM EntriesApart == RoundSpec => []OneEntryPerMac
<1>1. RoundInv => OneEntryPerMac
  BY DEF RoundInv, ScanInv, ArrayOK, Unique, OneEntryPerMac
<1> QED BY <1>1, RoundInvHolds, PTL

\* diff_and_emit announces, of what its loop has passed, the differences, all of
\* them and nothing else.
THEOREM DiffIsExact == RoundSpec => []DiffExact
<1>1. RoundInv => DiffExact
  BY DEF RoundInv, MergeInv, OwedFor, DiffExact, Diff!Owed
<1> QED BY <1>1, RoundInvHolds, PTL

\* No round announces a device twice, and every round announces in the order of
\* the MACs.
THEOREM EachOnceInOrder == RoundSpec => []AnnouncedOnce
<1>1. RoundInv => AnnouncedOnce
  BY DEF RoundInv, Sorted, AnnouncedOnce, Diff!Ordered
<1> QED BY <1>1, RoundInvHolds, PTL

\* When rebuild() returns, its array is strictly sorted and is the table that
\* the lease file and nft's answers define: MACs kept in the order of the file,
\* each field from the last line that has it, every blocked device marked.
THEOREM RebuildIsExact == RoundSpec => []ScanExact
<1>1. TableInv => ScanExact
  <2> SUFFICES ASSUME TableInv, pc = "done" PROVE ScanExact
    BY DEF ScanExact
  <2> DEFINE R == {listed[n] : n \in DOMAIN listed}
  <2>1. /\ AllReported = R
        /\ MacsIn(list) \in KeptOrListed(lines, R)
        /\ \A a \in DOMAIN list :
              TableOf(lines, MacsIn(list), R, marked)[list[a].mac] =
                  [ip |-> list[a].ip, host |-> list[a].host, blocked |-> list[a].blocked]
    BY Rebuilt DEF TableInv
  <2>2. \A a, b \in DOMAIN list : a < b => list[a].mac < list[b].mac
    BY DEF TableInv, RoundInv, ScanInv, Sorted
  <2>3. MacsIn(list) = {list[a].mac : a \in DOMAIN list}
    BY DEF MacsIn
  <2> QED BY <2>1, <2>2, <2>3 DEF ScanExact
<1> QED BY <1>1, TableInvHolds, PTL

\* A round of np_leases_republish, loops and all, is the one step Leases takes
\* it for: its list is one rebuild() may come to, and its events lead from the
\* snapshot before to this one.
THEOREM RoundIsOneStep == RoundSpec => []RoundExact
<1>1. TableInv => RoundExact
  <2> SUFFICES ASSUME TableInv, pc \in {"first", "publish"} PROVE RoundExact
    BY DEF RoundExact
  <2> DEFINE R == {listed[n] : n \in DOMAIN listed}
             S == MacsIn(list)
  <2>1. /\ S \in KeptOrListed(lines, R)
        /\ \A a \in DOMAIN list :
              TableOf(lines, S, R, marked)[list[a].mac] =
                  [ip |-> list[a].ip, host |-> list[a].host, blocked |-> list[a].blocked]
    BY Rebuilt DEF TableInv
  <2>2. ArrayOK(list)
    BY DEF TableInv, RoundInv, ScanInv
  <2>3. AsTable(list) = TableOf(lines, S, R, marked)
    <3>1. AsTable(list) = [m \in S |-> AsTable(list)[m]]
      BY DEF AsTable, MacsIn
    <3>2. TableOf(lines, S, R, marked) = [m \in S |-> TableOf(lines, S, R, marked)[m]]
      BY DEF TableOf
    <3>3. ASSUME NEW m \in S PROVE AsTable(list)[m] = TableOf(lines, S, R, marked)[m]
      <4>1. PICK a \in DOMAIN list : m = list[a].mac
        BY DEF MacsIn
      <4>2. AsTable(list)[list[a].mac] = Info(list[a])
        BY <2>2, TableIs
      <4> QED BY <2>1, <4>1, <4>2 DEF Info
    <3> HIDE DEF S
    <3> QED BY <3>1, <3>2, <3>3
  <2>4. ASSUME pc = "publish"
        PROVE  {AsEvent(events[n]) : n \in DOMAIN events} =
                   Events(AsTable(snapshot), AsTable(list))
    <3>1. /\ ArrayOK(snapshot)
          /\ {events[e] : e \in DOMAIN events} = AllOwed(Pairs(snapshot), Pairs(list))
      BY <2>4 DEF TableInv, SnapshotInv
    <3>2. {AsEvent(e) : e \in AllOwed(Pairs(snapshot), Pairs(list))}
             = Events(AsTable(snapshot), AsTable(list))
      BY <2>2, <3>1, OwedAreEvents
    <3>3. {AsEvent(events[n]) : n \in DOMAIN events}
             = {AsEvent(e) : e \in {events[n] : n \in DOMAIN events}}
      OBVIOUS
    <3> QED BY <3>1, <3>2, <3>3
  <2> HIDE DEF S
  <2> QED BY <2>1, <2>3, <2>4 DEF RoundExact
<1> QED BY <1>1, TableInvHolds, PTL
=============================================================================
