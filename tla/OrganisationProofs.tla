------------------------- MODULE OrganisationProofs -------------------------
(***************************************************************************)
(* Heads of pods and their roles, for any number of members, pods, units   *)
(* and branches, any custom Pod Lead roles and any selections of roles.    *)
(*                                                                         *)
(* That a head holds no lead role but his unit's is not inductive.  It     *)
(* needs that no unit has two lead roles (OneLeadPerUnit), or the role of  *)
(* his unit would change when one of them goes, and that nobody holds a    *)
(* role before it is created (NewUnheld).                                  *)
(***************************************************************************)
EXTENDS Organisation, FiniteSetTheorems, SequenceTheorems, WellFoundedInduction, TLAPS

Members == [branch : Branches, unit : Units \cup {None}, pod : Pods \cup {None},
            primary : AnyRole \cup {None}, roles : Seq(AnyRole)]
LiveLeads == [state : {"live"}, unit : Units, branch : Branches]

OrganisationTypeOK ==
    /\ branches \subseteq Branches
    /\ DOMAIN unit \subseteq Units /\ unit \in [DOMAIN unit -> Branches]
    /\ DOMAIN pod \subseteq Pods
    /\ pod \in [DOMAIN pod -> [unit : Units, branch : Branches, head : Users \cup {None}]]
    /\ custom \in BOOLEAN
    /\ lead \in [CustomLeads -> {New, Gone} \cup LiveLeads]
    /\ staff \in [Users -> Members]

\* promoteToPodHead, "Multiple custom Pod Lead roles exist for this branch unit":
\* they never do, whatever roles are created, moved and deleted.
OneLeadPerUnit ==
    \A l, k \in CustomLeads :
        lead[l].state = "live" /\ lead[k].state = "live" /\ lead[l].unit = lead[k].unit => l = k

\* The roles of a row, and those a handler may name.
Roles(row) == {row.primary} \cup ToSet(row.roles)
Named == UNION {ToSet(s) : s \in BranchRoles}

NewUnheld == \A l \in CustomLeads : lead[l] = New => \A u \in Users : l \notin Roles(staff[u])

Inv == OrganisationTypeOK /\ OneLeadPerUnit /\ NewUnheld /\ HeadsBelong
-----------------------------------------------------------------------------
(* Lists of roles *)

\* Numbers that are reached from zero one by one are all there are.
LEMMA AllNumbers ==
    ASSUME NEW S \in SUBSET Nat, 0 \in S, \A n \in S : n + 1 \in S
    PROVE  S = Nat
<1> DEFINE R == {ss \in Nat \X Nat : ss[1] < ss[2]}
           T == Nat \ S
<1> SUFFICES ASSUME T # {} PROVE FALSE
  OBVIOUS
<1>1. PICK n \in T : \A k \in T : <<k, n>> \notin R
  <2>1. IsWellFoundedOn(R, Nat)  BY NatLessThanWellFounded, Zenon DEF OpToRel
  <2> HIDE DEF R
  <2> QED  BY <2>1, WFMin
<1>2. n \in Nat \ {0} /\ n - 1 \in Nat  OBVIOUS
<1>3. <<n - 1, n>> \in R  BY <1>2
<1>4. n - 1 \in S  BY <1>1, <1>2, <1>3
<1>5. (n - 1) + 1 \in S  BY <1>4
<1> QED  BY <1>2, <1>5

LEMMA Contents ==
    ASSUME NEW R, NEW s \in Seq(R)
    PROVE  /\ ToSet(s) = {s[i] : i \in 1..Len(s)} /\ ToSet(s) \subseteq R
           /\ s # <<>> => Head(s) \in ToSet(s)
<1>1. DOMAIN s = 1..Len(s) /\ Len(s) \in Nat  OBVIOUS
<1>2. ToSet(s) = {s[i] : i \in 1..Len(s)}  BY <1>1 DEF ToSet
<1>3. ToSet(s) \subseteq R  BY <1>2
<1>4. ASSUME s # <<>> PROVE Head(s) \in ToSet(s)
  <2>1. Head(s) = s[1] /\ 1 \in 1..Len(s)  BY <1>4
  <2> QED  BY <1>2, <2>1
<1> QED  BY <1>2, <1>3, <1>4

LEMMA ContentsEmpty == ToSet(<<>>) = {}
  BY DEF ToSet

LEMMA ContentsConcat ==
    ASSUME NEW R, NEW s \in Seq(R), NEW t \in Seq(R)
    PROVE  ToSet(s \o t) = ToSet(s) \cup ToSet(t)
<1> DEFINE st == s \o t
<1>1. /\ st \in Seq(R) /\ Len(st) = Len(s) + Len(t) /\ Len(s) \in Nat /\ Len(t) \in Nat
      /\ \A i \in 1..Len(st) : st[i] = IF i <= Len(s) THEN s[i] ELSE t[i - Len(s)]
  BY ConcatProperties
<1> HIDE DEF st
<1>2. ToSet(st) \subseteq ToSet(s) \cup ToSet(t)
  <2> SUFFICES ASSUME NEW i \in 1..Len(st) PROVE st[i] \in ToSet(s) \cup ToSet(t)
    BY <1>1, Contents
  <2>1. CASE i <= Len(s)  BY <1>1, <2>1, Contents
  <2>2. CASE ~(i <= Len(s))
    <3>1. i - Len(s) \in 1..Len(t)  BY <1>1, <2>2
    <3> QED  BY <1>1, <2>2, <3>1, Contents
  <2> QED  BY <2>1, <2>2
<1>3. ToSet(s) \subseteq ToSet(st)
  <2> SUFFICES ASSUME NEW i \in 1..Len(s) PROVE s[i] \in ToSet(st)
    BY Contents
  <2>1. i \in 1..Len(st) /\ i <= Len(s)  BY <1>1
  <2> QED  BY <1>1, <2>1, Contents
<1>4. ToSet(t) \subseteq ToSet(st)
  <2> SUFFICES ASSUME NEW i \in 1..Len(t) PROVE t[i] \in ToSet(st)
    BY Contents
  <2>1. i + Len(s) \in 1..Len(st) /\ ~(i + Len(s) <= Len(s)) /\ (i + Len(s)) - Len(s) = i  BY <1>1
  <2>2. st[i + Len(s)] = t[i]  BY <1>1, <2>1
  <2>3. ToSet(st) = {st[k] : k \in 1..Len(st)}  BY <1>1, Contents
  <2> QED  BY <2>1, <2>2, <2>3
<1> QED  BY <1>2, <1>3, <1>4 DEF st

LEMMA ContentsOne ==
    ASSUME NEW r
    PROVE  ToSet(<<r>>) = {r}
<1> DEFINE s == <<r>>
           R == {r}
<1>1. s \in Seq(R) /\ Len(s) = 1 /\ s[1] = r  OBVIOUS
<1> HIDE DEF s, R
<1>2. ToSet(s) = {s[i] : i \in 1..1}  BY <1>1, Contents
<1>3. \A i : i \in 1..1 <=> i = 1  OBVIOUS
<1> QED  BY <1>1, <1>2, <1>3 DEF s

LEMMA ContentsAppend ==
    ASSUME NEW R, NEW s \in Seq(R), NEW r \in R
    PROVE  ToSet(Append(s, r)) = ToSet(s) \cup {r}
<1> DEFINE singleton == <<r>>
<1>1. Append(s, r) = s \o singleton  BY AppendIsConcat
<1>2. singleton \in Seq(R) /\ ToSet(singleton) = {r}  BY ContentsOne
<1> HIDE DEF singleton
<1>3. ToSet(s \o singleton) = ToSet(s) \cup ToSet(singleton)  BY <1>2, ContentsConcat
<1> QED  BY <1>1, <1>2, <1>3

\* What filter goes by: the list that is kept of every beginning of a list.
Kept(s, D) ==
    CHOOSE kept : kept = [i \in 0..Len(s) |->
        IF i = 0 THEN <<>>
        ELSE IF s[i] \in D THEN kept[i - 1] ELSE Append(kept[i - 1], s[i])]

LEMMA KeptStep ==
    ASSUME NEW R, NEW D, NEW s \in Seq(R)
    PROVE  /\ Without(s, D) = Kept(s, D)[Len(s)]
           /\ \A i \in 0..Len(s) :
                Kept(s, D)[i] = IF i = 0 THEN <<>>
                                ELSE IF s[i] \in D THEN Kept(s, D)[i - 1]
                                ELSE Append(Kept(s, D)[i - 1], s[i])
<1> DEFINE Step(f, i) == IF i = 0 THEN <<>>
                         ELSE IF s[i] \in D THEN f[i - 1] ELSE Append(f[i - 1], s[i])
           S == {n \in Nat : \E f : f = [i \in 0..n |-> Step(f, i)]}
<1>1. 0 \in S
  <2> DEFINE f == [i \in 0..0 |-> <<>>]
  <2>1. f = [i \in 0..0 |-> Step(f, i)]
    <3>1. \A i \in 0..0 : Step(f, i) = <<>>  OBVIOUS
    <3> HIDE DEF Step
    <3> QED  BY <3>1
  <2> QED  BY <2>1
<1>2. ASSUME NEW n \in S PROVE n + 1 \in S
  <2>1. PICK f : f = [i \in 0..n |-> Step(f, i)]  BY <1>2
  <2> DEFINE g == [i \in 0..(n + 1) |-> IF i = n + 1 THEN Step(f, i) ELSE f[i]]
  <2>2. \A i \in 0..(n + 1) : g[i] = Step(g, i)
    <3> TAKE i \in 0..(n + 1)
    <3>1. i # 0 => i - 1 \in 0..n /\ g[i - 1] = f[i - 1]  OBVIOUS
    <3>2. Step(g, i) = Step(f, i)  BY <3>1
    <3>3. g[i] = Step(f, i)
      <4>1. CASE i = n + 1  BY <4>1
      <4>2. CASE i # n + 1
        <5>1. i \in 0..n /\ g[i] = f[i]  BY <4>2
        <5> HIDE DEF Step, g
        <5> QED  BY <2>1, <5>1
      <4> QED  BY <4>1, <4>2
    <3> QED  BY <3>2, <3>3
  <2>3. g = [i \in 0..(n + 1) |-> Step(g, i)]
    <3>1. g = [i \in 0..(n + 1) |-> g[i]]  OBVIOUS
    <3> HIDE DEF Step, g
    <3> QED  BY <2>2, <3>1
  <2> HIDE DEF g, Step
  <2> QED  BY <2>3
<1>3. Len(s) \in Nat  OBVIOUS
<1>4. Len(s) \in S
  <2> HIDE DEF S
  <2>1. S = Nat
    <3>1. S \in SUBSET Nat  BY DEF S
    <3> QED  BY <1>1, <1>2, <3>1, AllNumbers
  <2> QED  BY <1>3, <2>1
<1>5. \E f : f = [i \in 0..Len(s) |-> Step(f, i)]  BY <1>4
<1>6. Kept(s, D) = [i \in 0..Len(s) |-> Step(Kept(s, D), i)]
  BY <1>5, Zenon DEF Kept
<1>7. Without(s, D) = Kept(s, D)[Len(s)]
  BY Zenon DEF Without, Kept
<1>8. \A i \in 0..Len(s) : Kept(s, D)[i] = Step(Kept(s, D), i)
  <2> HIDE DEF Step
  <2> DEFINE f == Kept(s, D)
  <2>1. f = [i \in 0..Len(s) |-> Step(f, i)]  BY <1>6
  <2> HIDE DEF f
  <2>2. \A i \in 0..Len(s) : f[i] = Step(f, i)  BY <2>1
  <2> QED  BY <2>2 DEF f
<1> QED  BY <1>7, <1>8

LEMMA KeptType ==
    ASSUME NEW R, NEW D, NEW s \in Seq(R)
    PROVE  \A i \in 0..Len(s) :
             /\ Kept(s, D)[i] \in Seq(R)
             /\ \A r : r \in ToSet(Kept(s, D)[i]) <=> r \notin D /\ \E k \in 1..i : r = s[k]
<1> DEFINE f == Kept(s, D)
           OK(i) == f[i] \in Seq(R) /\ (\A r : r \in ToSet(f[i]) <=> r \notin D /\ \E k \in 1..i : r = s[k])
           S == {n \in Nat : n <= Len(s) => OK(n)}
<1> Len(s) \in Nat  OBVIOUS
<1>1. 0 \in S
  <2>1. f[0] = <<>>  BY KeptStep
  <2>2. ~(\E k \in 1..0 : TRUE) /\ <<>> \in Seq(R)  OBVIOUS
  <2> HIDE DEF f
  <2> QED  BY <2>1, <2>2, ContentsEmpty
<1>2. ASSUME NEW n \in S PROVE n + 1 \in S
  <2> SUFFICES ASSUME n + 1 <= Len(s) PROVE OK(n + 1)
    OBVIOUS
  <2>1. n \in Nat /\ OK(n)  BY <1>2
  <2>2. f[n + 1] = IF s[n + 1] \in D THEN f[n] ELSE Append(f[n], s[n + 1])
    <3>1. n + 1 \in 0..Len(s) /\ n + 1 # 0 /\ (n + 1) - 1 = n  BY <2>1
    <3> QED  BY <3>1, KeptStep
  <2>3. s[n + 1] \in R  BY <2>1
  <2>4. 1..(n + 1) = 1..n \cup {n + 1}  BY <2>1
  <2> HIDE DEF f
  <2>5. ToSet(Append(f[n], s[n + 1])) = ToSet(f[n]) \cup {s[n + 1]}
    BY <2>1, <2>3, ContentsAppend
  <2> QED  BY <2>1, <2>2, <2>3, <2>4, <2>5
<1>3. S = Nat
  <2> HIDE DEF OK
  <2>1. S \in SUBSET Nat  OBVIOUS
  <2> HIDE DEF S
  <2> QED  BY <1>1, <1>2, <2>1, AllNumbers
<1>4. \A i \in Nat : i <= Len(s) => OK(i)
  <2> HIDE DEF OK
  <2> QED  BY <1>3
<1> QED  BY <1>4

\* A filtered list is a list of the rest, in which nothing that is dropped is left.
LEMMA WithoutType ==
    ASSUME NEW R, NEW D, NEW s \in Seq(R)
    PROVE  Without(s, D) \in Seq(R) /\ ToSet(Without(s, D)) = ToSet(s) \ D
<1>1. Len(s) \in 0..Len(s) /\ ToSet(s) = {s[k] : k \in 1..Len(s)}  BY Contents
<1>2. Without(s, D) = Kept(s, D)[Len(s)]  BY KeptStep
<1>3. \A i \in 0..Len(s) : /\ Kept(s, D)[i] \in Seq(R)
                           /\ \A r : r \in ToSet(Kept(s, D)[i]) <=> r \notin D /\ \E k \in 1..i : r = s[k]
  BY KeptType
<1>4. \A r : r \in ToSet(s) <=> \E k \in 1..Len(s) : r = s[k]  BY <1>1
<1> QED  BY <1>1, <1>2, <1>3, <1>4

LEMMA WithoutEmpty ==
    ASSUME NEW R, NEW D, NEW s \in Seq(R)
    PROVE  s = <<>> => Without(s, D) = <<>>
<1>1. s = <<>> => Len(s) = 0 /\ 0 \in 0..Len(s)  OBVIOUS
<1>2. Without(s, D) = Kept(s, D)[Len(s)]  BY KeptStep
<1>3. \A i \in 0..Len(s) : i = 0 => Kept(s, D)[i] = <<>>  BY KeptStep
<1> QED  BY <1>1, <1>2, <1>3

\* The beginnings of a list are those of a longer one.
LEMMA WithoutAppend ==
    ASSUME NEW R, NEW D, NEW s \in Seq(R), NEW r \in R
    PROVE  Without(Append(s, r), D) = IF r \in D THEN Without(s, D) ELSE Append(Without(s, D), r)
<1> DEFINE t == Append(s, r)
           S == {n \in Nat : n <= Len(s) => Kept(t, D)[n] = Kept(s, D)[n]}
<1>1. /\ t \in Seq(R) /\ Len(t) = Len(s) + 1 /\ Len(s) \in Nat
      /\ t[Len(t)] = r /\ \A i \in 1..Len(s) : t[i] = s[i]
  OBVIOUS
<1> HIDE DEF t
<1>2. 0 \in S
  <2>1. 0 \in 0..Len(s) /\ 0 \in 0..Len(t)  BY <1>1
  <2> QED  BY <1>1, <2>1, KeptStep
<1>3. ASSUME NEW n \in S PROVE n + 1 \in S
  <2> SUFFICES ASSUME n + 1 <= Len(s) PROVE Kept(t, D)[n + 1] = Kept(s, D)[n + 1]
    OBVIOUS
  <2>1. n + 1 \in 0..Len(s) /\ n + 1 \in 0..Len(t) /\ n + 1 # 0 /\ (n + 1) - 1 = n
    BY <1>1, <1>3
  <2>2. t[n + 1] = s[n + 1] /\ Kept(t, D)[n] = Kept(s, D)[n]  BY <1>1, <1>3, <2>1
  <2> QED  BY <1>1, <2>1, <2>2, KeptStep
<1>4. S = Nat
  <2>1. S \in SUBSET Nat  OBVIOUS
  <2> HIDE DEF S
  <2> QED  BY <1>2, <1>3, <2>1, AllNumbers
<1>5. Kept(t, D)[Len(s)] = Kept(s, D)[Len(s)]  BY <1>1, <1>4
<1>6. Len(t) \in 0..Len(t) /\ Len(t) # 0 /\ Len(t) - 1 = Len(s)  BY <1>1
<1>7. Kept(t, D)[Len(t)] = IF r \in D THEN Kept(s, D)[Len(s)] ELSE Append(Kept(s, D)[Len(s)], r)
  BY <1>1, <1>5, <1>6, KeptStep
<1>8. Without(t, D) = Kept(t, D)[Len(t)] /\ Without(s, D) = Kept(s, D)[Len(s)]
  BY <1>1, KeptStep
<1> QED  BY <1>7, <1>8 DEF t

\* Lists that are reached from the empty one by appending are all there are.
LEMMA AllLists ==
    ASSUME NEW R, NEW S \in SUBSET Seq(R), <<>> \in S,
           \A s \in S : \A r \in R : Append(s, r) \in S
    PROVE  S = Seq(R)
<1> DEFINE N == {n \in Nat : \A s \in Seq(R) : Len(s) = n => s \in S}
<1>1. 0 \in N
  <2>1. \A s \in Seq(R) : Len(s) = 0 => s = <<>>  OBVIOUS
  <2> QED  BY <2>1
<1>2. ASSUME NEW n \in N PROVE n + 1 \in N
  <2> SUFFICES ASSUME NEW s \in Seq(R), Len(s) = n + 1 PROVE s \in S
    OBVIOUS
  <2> DEFINE front == SubSeq(s, 1, n)
             last == s[n + 1]
  <2>1. n \in Nat /\ \A i \in 1..(n + 1) : s[i] \in R  OBVIOUS
  <2>2. front \in Seq(R) /\ Len(front) = n /\ \A i \in 1..n : front[i] = s[i]
    <3>1. \A i \in 1..n : s[i] \in R  BY <2>1
    <3>2. \A m, k \in Int : (\A i \in m..k : s[i] \in R) =>
            /\ SubSeq(s, m, k) \in Seq(R)
            /\ Len(SubSeq(s, m, k)) = IF m <= k THEN k - m + 1 ELSE 0
            /\ \A i \in 1..(k - m + 1) : SubSeq(s, m, k)[i] = s[m + i - 1]
      BY SubSeqProperties
    <3>3. front \in Seq(R) /\ Len(front) = (IF 1 <= n THEN n - 1 + 1 ELSE 0)
          /\ \A i \in 1..(n - 1 + 1) : front[i] = s[1 + i - 1]
      BY <2>1, <3>1, <3>2
    <3> HIDE DEF front
    <3> QED  BY <2>1, <3>3
  <2>3. front \in S  BY <1>2, <2>2
  <2>4. last \in R /\ last = s[n + 1]  BY <2>1
  <2> DEFINE whole == Append(front, last)
  <2> HIDE DEF front, last
  <2>5. /\ whole \in Seq(R) /\ Len(whole) = n + 1
        /\ \A i \in 1..n : whole[i] = front[i]
        /\ whole[n + 1] = last
    <3>1. front \in Seq(R) /\ last \in R  BY <2>2, <2>4
    <3>2. /\ whole \in Seq(R) /\ Len(whole) = Len(front) + 1
          /\ \A i \in 1..Len(front) : whole[i] = front[i]
          /\ whole[Len(front) + 1] = last
      BY <3>1, AppendProperties
    <3> HIDE DEF whole
    <3> QED  BY <2>2, <3>2
  <2> HIDE DEF whole
  <2>6. whole = s
    <3>1. \A i \in 1..(n + 1) : whole[i] = s[i]
      <4> TAKE i \in 1..(n + 1)
      <4>1. CASE i = n + 1  BY <2>4, <2>5, <4>1
      <4>2. CASE i # n + 1
        <5>1. i \in 1..n  BY <2>1, <4>2
        <5> QED  BY <2>2, <2>5, <5>1
      <4> QED  BY <4>1, <4>2
    <3> QED  BY <2>5, <3>1, SeqEqual
  <2> QED  BY <2>3, <2>4, <2>6 DEF whole
<1>3. N = Nat
  <2>1. N \in SUBSET Nat  OBVIOUS
  <2> HIDE DEF N
  <2> QED  BY <1>1, <1>2, <2>1, AllNumbers
<1>4. ASSUME NEW s \in Seq(R) PROVE s \in S
  <2>1. Len(s) \in N  BY <1>3
  <2> QED  BY <2>1
<1> QED  BY <1>4

\* Dropping one after the other drops all at once.
LEMMA WithoutTwice ==
    ASSUME NEW R, NEW C, NEW D, NEW s \in Seq(R)
    PROVE  Without(Without(s, C), D) = Without(s, C \cup D)
<1> DEFINE S == {t \in Seq(R) : Without(Without(t, C), D) = Without(t, C \cup D)}
<1>1. <<>> \in S
  <2>1. <<>> \in Seq(R)  OBVIOUS
  <2>2. \A t \in Seq(R) : t = <<>> => t \in S  BY WithoutEmpty
  <2> HIDE DEF S
  <2> QED  BY <2>1, <2>2
<1>2. ASSUME NEW t \in S, NEW r \in R PROVE Append(t, r) \in S
  <2>1. t \in Seq(R) /\ Append(t, r) \in Seq(R) /\ Without(t, C) \in Seq(R)
    BY WithoutType
  <2>2. Without(Append(t, r), C) = IF r \in C THEN Without(t, C) ELSE Append(Without(t, C), r)
    BY <2>1, WithoutAppend
  <2>3. \A u \in Seq(R) :
          Without(Append(u, r), D) = IF r \in D THEN Without(u, D) ELSE Append(Without(u, D), r)
    BY WithoutAppend
  <2>4. Without(Append(t, r), C \cup D)
          = IF r \in C \cup D THEN Without(t, C \cup D) ELSE Append(Without(t, C \cup D), r)
    BY <2>1, WithoutAppend
  <2> QED  BY <1>2, <2>1, <2>2, <2>3, <2>4
<1>3. S = Seq(R)
  <2>1. S \in SUBSET Seq(R)  OBVIOUS
  <2> HIDE DEF S
  <2> QED  BY <1>1, <1>2, <2>1, AllLists
<1> QED  BY <1>3

\* What is not in the list need not be dropped.
LEMMA WithoutAbsent ==
    ASSUME NEW R, NEW D, NEW l, NEW s \in Seq(R), l \notin ToSet(s)
    PROVE  Without(s, D \cup {l}) = Without(s, D)
<1> DEFINE S == {t \in Seq(R) : l \notin ToSet(t) => Without(t, D \cup {l}) = Without(t, D)}
<1>1. <<>> \in S
  <2>1. <<>> \in Seq(R)  OBVIOUS
  <2>2. \A t \in Seq(R) : t = <<>> => t \in S  BY WithoutEmpty
  <2> HIDE DEF S
  <2> QED  BY <2>1, <2>2
<1>2. ASSUME NEW t \in S, NEW r \in R PROVE Append(t, r) \in S
  <2>1. t \in Seq(R) /\ Append(t, r) \in Seq(R)  OBVIOUS
  <2>2. ToSet(Append(t, r)) = ToSet(t) \cup {r}  BY <2>1, ContentsAppend
  <2>3. Without(Append(t, r), D) = IF r \in D THEN Without(t, D) ELSE Append(Without(t, D), r)
    BY <2>1, WithoutAppend
  <2>4. Without(Append(t, r), D \cup {l})
          = IF r \in D \cup {l} THEN Without(t, D \cup {l}) ELSE Append(Without(t, D \cup {l}), r)
    BY <2>1, WithoutAppend
  <2> QED  BY <1>2, <2>1, <2>2, <2>3, <2>4
<1>3. S = Seq(R)
  <2>1. S \in SUBSET Seq(R)  OBVIOUS
  <2> HIDE DEF S
  <2> QED  BY <1>1, <1>2, <2>1, AllLists
<1> QED  BY <1>3

\* What stands in front is dropped or stays in front.
LEMMA WithoutFirst ==
    ASSUME NEW R, NEW D, NEW r \in R, NEW s \in Seq(R)
    PROVE  Without(<<r>> \o s, D)
             = IF r \in D THEN Without(s, D) ELSE <<r>> \o Without(s, D)
<1> DEFINE S == {t \in Seq(R) : Without(<<r>> \o t, D)
                                  = IF r \in D THEN Without(t, D) ELSE <<r>> \o Without(t, D)}
<1>1. <<>> \in S
  <2> DEFINE e == <<>>
  <2>1. e \in Seq(R) /\ <<r>> \o e = Append(e, r) /\ <<r>> \o e = <<r>>
    OBVIOUS
  <2>2. e = <<>>  OBVIOUS
  <2> HIDE DEF e
  <2>3. Without(e, D) = e  BY <2>1, <2>2, WithoutEmpty
  <2>4. Without(Append(e, r), D) = IF r \in D THEN Without(e, D) ELSE Append(Without(e, D), r)
    BY <2>1, WithoutAppend
  <2>5. e \in S  BY <2>1, <2>3, <2>4
  <2> QED  BY <2>2, <2>5
<1>2. ASSUME NEW t \in S, NEW q \in R PROVE Append(t, q) \in S
  <2> DEFINE front == <<r>> \o t
  <2>1. t \in Seq(R) /\ Append(t, q) \in Seq(R) /\ front \in Seq(R) /\ Without(t, D) \in Seq(R)
    BY WithoutType
  <2>2. <<r>> \o Append(t, q) = Append(front, q)  BY <2>1
  <2>3. <<r>> \o Append(Without(t, D), q) = Append(<<r>> \o Without(t, D), q)  BY <2>1
  <2>4. Without(front, D) = IF r \in D THEN Without(t, D) ELSE <<r>> \o Without(t, D)
    BY <1>2
  <2> HIDE DEF front
  <2>5. Without(Append(front, q), D)
          = IF q \in D THEN Without(front, D) ELSE Append(Without(front, D), q)
    BY <2>1, WithoutAppend
  <2>6. Without(Append(t, q), D) = IF q \in D THEN Without(t, D) ELSE Append(Without(t, D), q)
    BY <2>1, WithoutAppend
  <2> QED  BY <2>1, <2>2, <2>3, <2>4, <2>5, <2>6
<1>3. S = Seq(R)
  <2>1. S \in SUBSET Seq(R)  OBVIOUS
  <2> HIDE DEF S
  <2> QED  BY <1>1, <1>2, <2>1, AllLists
<1> QED  BY <1>3

-----------------------------------------------------------------------------
(* Rows of members *)

LEMMA ContentsFinite ==
    ASSUME NEW R, NEW s \in Seq(R)
    PROVE  IsFiniteSet(ToSet(s))
<1>1. Len(s) \in Nat /\ s \in [1..Len(s) -> ToSet(s)]
      /\ \A t \in ToSet(s) : \E i \in 1..Len(s) : s[i] = t
  BY Contents
<1>2. s \in Surjection(1..Len(s), ToSet(s))  BY <1>1 DEF Surjection
<1>3. IsFiniteSet(1..Len(s))
  <2>1. \A n \in Nat : IsFiniteSet(1..n)
    <3> TAKE n \in Nat
    <3>1. n \in Int /\ 1 \in Int  OBVIOUS
    <3> QED  BY <3>1, FS_Interval
  <2> QED  BY <1>1, <2>1, Zenon
<1> QED  BY <1>2, <1>3, FS_Surjection

\* Whatever order the query returns them in, the roles it finds make a list.
LEMMA ListOf ==
    ASSUME NEW R, NEW S \in SUBSET R, IsFiniteSet(S)
    PROVE  SetToSeq(S) \in Seq(R) /\ ToSet(SetToSeq(S)) \subseteq S
<1> DEFINE n == Cardinality(S)
           s == SetToSeq(S)
<1>1. n \in Nat /\ ExistsBijection(1..n, S)  BY FS_CardinalityType
<1>2. \E f \in [1..n -> S] : IsInjective(f)
  BY <1>1 DEF ExistsBijection, Bijection, Injection
<1>3. s \in [1..n -> S]  BY <1>2, Zenon DEF SetToSeq
<1> HIDE DEF s, n
<1>4. s \in Seq(S)  BY <1>1, <1>3
<1>5. s \in Seq(R)  BY <1>4, SeqMonotonic
<1> QED  BY <1>4, <1>5, Contents DEF s

\* The roles that lead are those based on POD_LEAD; no member role is.
LEMMA LeadsAre ==
    /\ LeadRoles = {SystemLead} \cup {l \in CustomLeads : lead[l].state = "live"}
    /\ LeadRoles \subseteq AnyRole \cap Existing /\ Offered \subseteq Plain
    /\ LeadRoles \cap Plain = {} /\ Plain \subseteq AnyRole /\ SystemLead \notin CustomLeads
    /\ None \notin AnyRole /\ Existing \subseteq AnyRole /\ Recruiter \in Existing
  BY RolesAssumption
     DEF LeadRoles, Existing, Offered, Plain, AnyRole, SystemLead, Recruiter, Admin, Custom

LEMMA HeldAre ==
    ASSUME NEW row
    PROVE  HeldLeads(row) = LeadRoles \cap Roles(row)
  BY DEF HeldLeads, Roles

LEMMA LeadForIs ==
    ASSUME NEW roles, NEW m
    PROVE  LET own == {l \in CustomLeads : roles[l].state = "live" /\ roles[l].unit = m}
           IN /\ own = {} => LeadFor(roles, m) = SystemLead
              /\ own # {} => LeadFor(roles, m) \in own
<1> DEFINE own == {l \in CustomLeads : roles[l].state = "live" /\ roles[l].unit = m}
<1>1. LeadFor(roles, m) = IF own = {} THEN SystemLead ELSE CHOOSE l \in own : TRUE
  BY DEF LeadFor
<1>2. own # {} => LeadFor(roles, m) \in own  BY <1>1, Zenon
<1> QED  BY <1>1, <1>2

LEMMA LeadForLeads ==
    ASSUME NEW m
    PROVE  LeadFor(lead, m) \in LeadRoles
  BY LeadForIs, LeadsAre

LEMMA AddType ==
    ASSUME NEW roles \in Seq(AnyRole), NEW r \in AnyRole \cup {None}
    PROVE  /\ Add(roles, r) \in Seq(AnyRole)
           /\ ToSet(Add(roles, r)) = ToSet(roles) \cup ({r} \ {None})
<1>1. CASE r = None \/ r \in ToSet(roles)  
  <2>1. Add(roles, r) = roles  BY <1>1 DEF Add
  <2>2. None \notin ToSet(roles)  BY Contents, LeadsAre
  <2> QED  BY <1>1, <2>1, <2>2
<1>2. CASE r # None /\ r \notin ToSet(roles)
  <2>1. Add(roles, r) = Append(roles, r) /\ r \in AnyRole  BY <1>2 DEF Add
  <2> QED  BY <1>2, <2>1, ContentsAppend, AppendProperties
<1> QED  BY <1>1, <1>2

LEMMA FirstType ==
    ASSUME NEW roles \in Seq(AnyRole), NEW r \in AnyRole \cup {None}
    PROVE  /\ First(r, roles) \in Seq(AnyRole)
           /\ ToSet(First(r, roles)) = ToSet(roles) \cup ({r} \ {None})
<1> DEFINE rest == Without(roles, {r})
           one == <<r>>
<1>1. rest \in Seq(AnyRole) /\ ToSet(rest) = ToSet(roles) \ {r}  BY WithoutType
<1> HIDE DEF rest
<1>2. CASE r = None
  <2>1. First(r, roles) = roles  BY <1>2 DEF First
  <2> QED  BY <1>2, <2>1
<1>3. CASE r # None
  <2>1. First(r, roles) = one \o rest  BY <1>3 DEF First, rest
  <2>2. r \in AnyRole  BY <1>3
  <2>3. one \in Seq(AnyRole) /\ ToSet(one) = {r}  BY <2>2, ContentsOne
  <2> HIDE DEF one
  <2>4. one \o rest \in Seq(AnyRole) /\ ToSet(one \o rest) = ToSet(one) \cup ToSet(rest)
    BY <1>1, <2>3, ContentsConcat, ConcatProperties
  <2> QED  BY <1>1, <1>3, <2>1, <2>3, <2>4
<1> QED  BY <1>2, <1>3

LEMMA HeldFinite ==
    ASSUME OrganisationTypeOK, NEW u \in Users
    PROVE  /\ staff[u] \in Members
           /\ IsFiniteSet(Automatic(u)) /\ Automatic(u) \subseteq Roles(staff[u])
           /\ Automatic(u) \subseteq AnyRole
<1>1. staff[u] \in Members  BY DEF OrganisationTypeOK
<1>2. IsFiniteSet(ToSet(staff[u].roles))  BY <1>1, ContentsFinite DEF Members
<1>3. IsFiniteSet(Roles(staff[u]))
  <2>1. IsFiniteSet(ToSet(staff[u].roles) \cup {staff[u].primary})  BY <1>2, FS_AddElement
  <2>2. ToSet(staff[u].roles) \cup {staff[u].primary} = Roles(staff[u])  BY DEF Roles
  <2> QED  BY <2>1, <2>2, Zenon
<1>4. Automatic(u) \subseteq Roles(staff[u]) /\ Automatic(u) \subseteq AnyRole
  BY LeadsAre, HeldAre DEF Automatic
<1>5. IsFiniteSet(Automatic(u))  BY <1>3, <1>4, FS_Subset
<1> QED  BY <1>1, <1>4, <1>5

\* A selection keeps the lead roles of a head, and adds nothing else.
LEMMA KeepingType ==
    ASSUME OrganisationTypeOK, NEW u \in Users, NEW roles \in Seq(AnyRole)
    PROVE  /\ Keeping(u, roles) \in Seq(AnyRole)
           /\ ToSet(Keeping(u, roles)) \subseteq ToSet(roles) \cup Roles(staff[u])
<1> DEFINE S == Automatic(u) \ ToSet(roles)
<1>1. IsFiniteSet(S) /\ S \in SUBSET AnyRole /\ S \subseteq Roles(staff[u])
  BY HeldFinite, FS_Subset
<1> HIDE DEF S
<1>2. SetToSeq(S) \in Seq(AnyRole) /\ ToSet(SetToSeq(S)) \subseteq S  BY <1>1, ListOf
<1>3. Keeping(u, roles) = roles \o SetToSeq(S)  BY DEF Keeping, S
<1>4. roles \o SetToSeq(S) \in Seq(AnyRole)  BY <1>2, ConcatProperties
<1>5. ToSet(roles \o SetToSeq(S)) = ToSet(roles) \cup ToSet(SetToSeq(S))  BY <1>2, ContentsConcat
<1> QED  BY <1>1, <1>2, <1>3, <1>4, <1>5

\* A member who is made a head holds the role of the unit, and no other that leads.
LEMMA LedRow ==
    ASSUME NEW row \in Members, NEW role \in AnyRole
    PROVE  /\ Led(row, role) \in Members
           /\ Led(row, role).pod = row.pod
           /\ Roles(Led(row, role)) = (Roles(row) \ (LeadRoles \cup {None})) \cup {role}
<1> DEFINE first == First(row.primary, row.roles)
           rest == NotLead(first)
<1>1. row.roles \in Seq(AnyRole) /\ row.primary \in AnyRole \cup {None}  BY DEF Members
<1>2. first \in Seq(AnyRole) /\ ToSet(first) = ToSet(row.roles) \cup ({row.primary} \ {None})
  BY <1>1, FirstType
<1> HIDE DEF first
<1>3. rest \in Seq(AnyRole) /\ ToSet(rest) = ToSet(first) \ LeadRoles
  BY <1>2, WithoutType DEF NotLead
<1> HIDE DEF rest
<1>4. Append(rest, role) \in Seq(AnyRole) /\ ToSet(Append(rest, role)) = ToSet(rest) \cup {role}
  BY <1>3, ContentsAppend, AppendProperties
<1>5. Led(row, role) = [row EXCEPT !.primary = role, !.roles = Append(rest, role)]
  BY DEF Led, rest, first
<1>6. None \notin ToSet(row.roles)  BY <1>1, Contents, LeadsAre
<1> DEFINE list == Append(rest, role)
<1> HIDE DEF list
<1>7. /\ Led(row, role) \in Members /\ Led(row, role).pod = row.pod
      /\ Led(row, role).primary = role /\ Led(row, role).roles = list
  BY <1>4, <1>5 DEF Members, list
<1>8. Roles(Led(row, role)) = {role} \cup ToSet(list)  BY <1>7 DEF Roles
<1>9. Roles(row) = {row.primary} \cup ToSet(row.roles)  BY DEF Roles
<1>10. ToSet(list) = ToSet(rest) \cup {role}  BY <1>4 DEF list
<1> QED  BY <1>2, <1>3, <1>6, <1>7, <1>8, <1>9, <1>10

\* A head who is dismissed holds no lead role, and all others he held.
LEMMA ReleasedRow ==
    ASSUME NEW row \in Members
    PROVE  /\ Released(row) \in Members
           /\ Released(row).pod = row.pod
           /\ Roles(Released(row)) \ {None} = Roles(row) \ (LeadRoles \cup {None})
<1> DEFINE all == Add(row.roles, row.primary)
           rest == NotLead(all)
           own == row.primary # None /\ row.primary \notin LeadRoles
           primary == IF own THEN row.primary ELSE IF rest = <<>> THEN None ELSE Head(rest)
<1>1. row.roles \in Seq(AnyRole) /\ row.primary \in AnyRole \cup {None}  BY DEF Members
<1>2. all \in Seq(AnyRole) /\ ToSet(all) = ToSet(row.roles) \cup ({row.primary} \ {None})
  BY <1>1, AddType
<1> HIDE DEF all
<1>3. rest \in Seq(AnyRole) /\ ToSet(rest) = ToSet(all) \ LeadRoles
  BY <1>2, WithoutType DEF NotLead
<1> HIDE DEF rest
<1>4. rest # <<>> => Head(rest) \in ToSet(rest)  BY <1>3, Contents
<1>5. ToSet(rest) \subseteq AnyRole /\ None \notin ToSet(rest)  BY <1>3, Contents, LeadsAre
<1>6. primary \in AnyRole \cup {None} /\ primary \in ToSet(rest) \cup {None}
  <2>1. CASE own  BY <1>1, <1>2, <1>3, <2>1
  <2>2. CASE ~own  BY <1>4, <1>5, <2>2
  <2> QED  BY <2>1, <2>2
<1>7. Released(row) = [row EXCEPT !.roles = rest, !.primary = primary]
  BY DEF Released, rest, all
<1> HIDE DEF primary
<1>8. /\ Released(row) \in Members /\ Released(row).pod = row.pod
      /\ Released(row).primary = primary /\ Released(row).roles = rest
  BY <1>1, <1>3, <1>6, <1>7 DEF Members
<1>9. Roles(Released(row)) = {primary} \cup ToSet(rest)  BY <1>8 DEF Roles
<1>10. Roles(row) = {row.primary} \cup ToSet(row.roles)  BY DEF Roles
<1>11. None \notin ToSet(row.roles)  BY <1>1, Contents, LeadsAre
<1> QED  BY <1>2, <1>3, <1>5, <1>6, <1>8, <1>9, <1>10, <1>11

\* OwnRole, for the roles L that lead.
Own(row, L) ==
    IF row.primary # None /\ row.primary \notin L THEN row.primary
    ELSE IF Without(row.roles, L) = <<>> THEN None ELSE Head(Without(row.roles, L))

\* Leading a pod leaves a member the roles of his own, and the order they had; the
\* role he leads by may be one that has just been created.
LEMMA LedKeepsOwn ==
    ASSUME NEW row \in Members, NEW role \in AnyRole,
           role \in LeadRoles \/ role \notin Roles(row)
    PROVE  Own(Led(row, role), LeadRoles \cup {role}) = Own(row, LeadRoles)
<1> DEFINE L == LeadRoles
           M == L \cup {role}
           first == First(row.primary, row.roles)
           rest == Without(first, L)
           list == Append(rest, role)
           own == Without(row.roles, L)
           others == Without(row.roles, {row.primary})
<1>1. row.roles \in Seq(AnyRole) /\ row.primary \in AnyRole \cup {None} /\ role \in AnyRole
  BY LeadsAre DEF Members
<1>2. first \in Seq(AnyRole)  BY <1>1, FirstType
<1>3. rest \in Seq(AnyRole)  BY <1>2, WithoutType
<1>4. own \in Seq(AnyRole) /\ others \in Seq(AnyRole)  BY <1>1, WithoutType
<1>5. Without(list, M) = rest
  <2>1. Without(list, M) = Without(rest, M)  BY <1>1, <1>3, WithoutAppend
  <2>2. Without(rest, M) = Without(first, L \cup M)  BY <1>2, WithoutTwice
  <2>3. L \cup M = M  OBVIOUS
  <2>4. Without(first, M) = rest
    <3>1. CASE role \in L
      <4>1. M = L  BY <3>1
      <4> QED  BY <4>1
    <3>2. CASE role \notin Roles(row)
      <4>1. ToSet(first) = ToSet(row.roles) \cup ({row.primary} \ {None})  BY <1>1, FirstType
      <4>2. role \notin ToSet(first)  BY <3>2, <4>1 DEF Roles
      <4> HIDE DEF first
      <4> QED  BY <1>2, <4>2, WithoutAbsent
    <3> QED  BY <3>1, <3>2
  <2> QED  BY <2>1, <2>2, <2>3, <2>4
<1>6. /\ row.primary = None => rest = own
      /\ row.primary \in L => rest = own
      /\ row.primary # None /\ row.primary \notin L => rest # <<>> /\ Head(rest) = row.primary
  <2>1. CASE row.primary = None
    <3>1. first = row.roles  BY <2>1 DEF First
    <3> QED  BY <2>1, <3>1, LeadsAre
  <2>2. CASE row.primary # None
    <3>1. first = <<row.primary>> \o others /\ row.primary \in AnyRole  BY <1>1, <2>2 DEF First
    <3>2. \A t \in Seq(AnyRole) : \A r \in AnyRole :
            Without(<<r>> \o t, L) = IF r \in L THEN Without(t, L) ELSE <<r>> \o Without(t, L)
      BY WithoutFirst
    <3>3. rest = IF row.primary \in L THEN Without(others, L)
                 ELSE <<row.primary>> \o Without(others, L)
      BY <1>4, <3>1, <3>2
    <3>4. Without(others, L) = Without(row.roles, {row.primary} \cup L)  BY <1>1, WithoutTwice
    <3>5. row.primary \in L => {row.primary} \cup L = L  OBVIOUS
    <3>6. Without(others, L) \in Seq(AnyRole)  BY <1>4, WithoutType
    <3> DEFINE back == Without(others, L)
               all == <<row.primary>> \o back
    <3> HIDE DEF back
    <3>7. all # <<>> /\ Head(all) = row.primary
      BY <3>1, <3>6 DEF back
    <3> QED  BY <2>2, <3>3, <3>4, <3>5, <3>7 DEF back
  <2> QED  BY <2>1, <2>2
<1>7. Led(row, role) = [row EXCEPT !.primary = role, !.roles = list]
  BY DEF Led, NotLead
<1>8. Led(row, role).primary = role /\ Led(row, role).roles = list
  <2> HIDE DEF list
  <2> QED  BY <1>7 DEF Members
<1>9. Own(Led(row, role), M) = IF rest = <<>> THEN None ELSE Head(rest)
  <2>1. role \in M  OBVIOUS
  <2> HIDE DEF list, rest, M
  <2> QED  BY <1>5, <1>8, <2>1 DEF Own
<1>10. Own(row, L) = IF row.primary # None /\ row.primary \notin L THEN row.primary
                      ELSE IF own = <<>> THEN None ELSE Head(own)
  BY DEF Own
<1> HIDE DEF rest, own
<1> QED  BY <1>6, <1>9, <1>10

LEMMA ReleasedKeepsOwn ==
    ASSUME NEW row \in Members
    PROVE  Own(Released(row), LeadRoles) = Own(row, LeadRoles)
<1> DEFINE L == LeadRoles
           all == Add(row.roles, row.primary)
           rest == Without(all, L)
           own == Without(row.roles, L)
           mine == row.primary # None /\ row.primary \notin L
           primary == IF mine THEN row.primary ELSE IF rest = <<>> THEN None ELSE Head(rest)
<1>1. row.roles \in Seq(AnyRole) /\ row.primary \in AnyRole \cup {None}  BY DEF Members
<1>2. all \in Seq(AnyRole)  BY <1>1, AddType
<1>3. rest \in Seq(AnyRole) /\ ToSet(rest) \cap (L \cup {None}) = {}
  <2>1. rest \in Seq(AnyRole) /\ ToSet(rest) = ToSet(all) \ L  BY <1>2, WithoutType
  <2> HIDE DEF rest
  <2> QED  BY <2>1, Contents, LeadsAre
<1>4. ~mine => rest = own
  <2>1. CASE row.primary = None \/ row.primary \in ToSet(row.roles)
    BY <2>1 DEF Add
  <2>2. CASE row.primary # None /\ row.primary \notin ToSet(row.roles)
    <3>1. all = Append(row.roles, row.primary) /\ row.primary \in AnyRole  BY <1>1, <2>2 DEF Add
    <3>2. \A t \in Seq(AnyRole) : \A r \in AnyRole :
            Without(Append(t, r), L) = IF r \in L THEN Without(t, L) ELSE Append(Without(t, L), r)
      BY WithoutAppend
    <3>3. rest = IF row.primary \in L THEN own ELSE Append(own, row.primary)
      BY <1>1, <3>1, <3>2
    <3> QED  BY <2>2, <3>3
  <2> QED  BY <2>1, <2>2
<1>5. Without(rest, L) = rest
  <2>1. Without(rest, L) = Without(all, L \cup L)  BY <1>2, WithoutTwice
  <2>2. L \cup L = L  OBVIOUS
  <2> QED  BY <2>1, <2>2
<1>6. Released(row) = [row EXCEPT !.roles = rest, !.primary = primary]
  BY DEF Released, NotLead
<1> HIDE DEF rest
<1>7. rest # <<>> => Head(rest) \notin L /\ Head(rest) # None
  BY <1>3, Contents
<1>8. Released(row).primary = primary /\ Released(row).roles = rest
  <2> HIDE DEF primary
  <2> QED  BY <1>6 DEF Members
<1>9. Own(Released(row), L) = IF primary # None /\ primary \notin L THEN primary
                               ELSE IF rest = <<>> THEN None ELSE Head(rest)
  <2> HIDE DEF primary
  <2> QED  BY <1>5, <1>8 DEF Own
<1>10. Own(row, L) = IF mine THEN row.primary ELSE IF own = <<>> THEN None ELSE Head(own)
  BY DEF Own
<1> HIDE DEF own
<1> QED  BY <1>4, <1>7, <1>9, <1>10

-----------------------------------------------------------------------------
(* Steps *)

\* HeadsBelong, as a statement about the pods, rows and lead roles of a state.
Leads(roles) == {SystemLead} \cup {l \in CustomLeads : roles[l].state = "live"}
Belongs(pods, rows, roles) ==
    \A p \in DOMAIN pods : pods[p].head # None =>
        /\ rows[pods[p].head].pod = p
        /\ \A q \in DOMAIN pods : pods[q].head = pods[p].head => q = p
        /\ Leads(roles) \cap Roles(rows[pods[p].head])
             \subseteq {LeadFor(roles, pods[p].unit)} \cup Named

LEMMA BelongsIs ==
    /\ LeadRoles = Leads(lead) /\ LeadRoles' = Leads(lead')
    /\ HeadsBelong <=> Belongs(pod, staff, lead)
    /\ HeadsBelong' <=> Belongs(pod', staff', lead')
<1>1. LeadRoles = Leads(lead)  BY LeadsAre DEF Leads
<1>2. LeadRoles' = Leads(lead')
  BY RolesAssumption DEF LeadRoles, Existing, Offered, Leads, Plain, SystemLead, Recruiter, Admin, Custom
<1>3. ASSUME NEW p \in DOMAIN pod
      PROVE  /\ Heads(pod[p].head) = {p}
                  <=> \A q \in DOMAIN pod : pod[q].head = pod[p].head => q = p
             /\ HeldLeads(staff[pod[p].head]) = Leads(lead) \cap Roles(staff[pod[p].head])
  BY <1>1 DEF Heads, HeldLeads, Roles
<1>4. ASSUME NEW p \in DOMAIN pod'
      PROVE  /\ Heads(pod[p].head)' = {p}
                  <=> \A q \in DOMAIN pod' : pod'[q].head = pod'[p].head => q = p
             /\ HeldLeads(staff[pod[p].head])' = Leads(lead') \cap Roles(staff'[pod'[p].head])
  BY <1>2 DEF Heads, HeldLeads, Roles
<1>5. HeadsBelong <=> Belongs(pod, staff, lead)
  <2>1. HeadsBelong <=> \A p \in DOMAIN pod : pod[p].head # None =>
          /\ staff[pod[p].head].pod = p
          /\ Heads(pod[p].head) = {p}
          /\ HeldLeads(staff[pod[p].head]) \subseteq {LeadFor(lead, pod[p].unit)} \cup Named
    BY Zenon DEF HeadsBelong, Named
  <2> QED  BY <1>3, <2>1 DEF Belongs
<1>6. HeadsBelong' <=> Belongs(pod', staff', lead')
  <2>1. HeadsBelong' <=> \A p \in DOMAIN pod' : pod'[p].head # None =>
          /\ staff'[pod'[p].head].pod = p
          /\ Heads(pod[p].head)' = {p}
          /\ HeldLeads(staff[pod[p].head])' \subseteq {LeadFor(lead', pod'[p].unit)} \cup Named
    BY Zenon DEF HeadsBelong, Named
  <2> QED  BY <1>4, <2>1 DEF Belongs
<1> QED  BY <1>1, <1>2, <1>5, <1>6

\* A handler that leaves pods and lead roles alone, moves nobody to another pod and
\* gives members no roles but plain ones and those assignUser was told.
LEMMA MembersStep ==
    ASSUME Inv, pod' = pod, lead' = lead, custom' \in BOOLEAN,
           branches' \subseteq Branches,
           DOMAIN unit' \subseteq Units /\ unit' \in [DOMAIN unit' -> Branches],
           staff' \in [Users -> Members],
           \A u \in Users :
             /\ staff'[u].pod = staff[u].pod
             /\ Roles(staff'[u]) \subseteq Roles(staff[u]) \cup Plain \cup {None} \cup (Named \cap Existing)
    PROVE  Inv'
<1>1. OrganisationTypeOK'  BY DEF Inv, OrganisationTypeOK
<1>2. OneLeadPerUnit'  BY DEF Inv, OneLeadPerUnit
<1>3. \A l \in CustomLeads : lead[l] = New => l \notin Existing /\ l \notin Plain /\ l # None
  BY LeadsAre, RolesAssumption DEF New, Existing, AnyRole
<1>4. NewUnheld'  BY <1>3 DEF Inv, NewUnheld
<1>5. Leads(lead) \cap (Plain \cup {None}) = {}  BY LeadsAre, BelongsIs
<1>6. Belongs(pod, staff, lead)  BY BelongsIs DEF Inv
<1>7. \A p \in DOMAIN pod : pod[p].head # None => pod[p].head \in Users
  BY DEF Inv, OrganisationTypeOK
<1>8. Belongs(pod', staff', lead')  BY <1>5, <1>6, <1>7 DEF Belongs
<1> QED  BY <1>1, <1>2, <1>4, <1>8, BelongsIs DEF Inv

\* The same of one member.
LEMMA MemberStep ==
    ASSUME Inv, NEW u \in Users, NEW row \in Members, Put(u, row),
           UNCHANGED <<branches, unit, pod, custom, lead>>,
           row.pod = staff[u].pod,
           Roles(row) \subseteq Roles(staff[u]) \cup Plain \cup {None} \cup (Named \cap Existing)
    PROVE  Inv'
<1>1. staff' = [staff EXCEPT ![u] = row]  BY DEF Put
<1>2. /\ staff \in [Users -> Members] /\ custom' \in BOOLEAN
      /\ branches' \subseteq Branches
      /\ DOMAIN unit' \subseteq Units /\ unit' \in [DOMAIN unit' -> Branches]
  BY DEF Inv, OrganisationTypeOK
<1>3. staff' \in [Users -> Members]  BY <1>1, <1>2
<1>4. ASSUME NEW v \in Users
      PROVE  /\ staff'[v].pod = staff[v].pod
             /\ Roles(staff'[v]) \subseteq Roles(staff[v]) \cup Plain \cup {None} \cup (Named \cap Existing)
  <2>1. staff'[v] = IF v = u THEN row ELSE staff[v]  BY <1>1, <1>2
  <2> QED  BY <2>1
<1> QED  BY <1>2, <1>3, <1>4, MembersStep

\* Creating a branch or a unit and moving a unit touch no member and no pod.
LEMMA StructureKeepsInv ==
    ASSUME Inv, NEW b \in Branches, NEW m \in Units,
           CreateBranch(b) \/ CreateUnit(m, b) \/ MoveUnit(m, b)
    PROVE  Inv'
<1>1. UNCHANGED <<pod, custom, lead, staff>>  BY DEF CreateBranch, CreateUnit, MoveUnit
<1>2. branches' \subseteq Branches
  BY DEF CreateBranch, CreateUnit, MoveUnit, Inv, OrganisationTypeOK
<1>3. DOMAIN unit' \subseteq Units /\ unit' \in [DOMAIN unit' -> Branches]
  <2>1. CASE CreateBranch(b)  BY <2>1 DEF CreateBranch, Inv, OrganisationTypeOK
  <2>2. CASE CreateUnit(m, b)  BY <2>2 DEF CreateUnit, Inv, OrganisationTypeOK
  <2>3. CASE MoveUnit(m, b)  BY <2>3 DEF MoveUnit, Inv, OrganisationTypeOK
  <2> QED  BY <2>1, <2>2, <2>3
<1>4. staff' \in [Users -> Members] /\ custom' \in BOOLEAN
  BY <1>1 DEF Inv, OrganisationTypeOK
<1> QED  BY <1>1, <1>2, <1>3, <1>4, MembersStep

\* Rows of members and what changing their place does to them.
LEMMA RowIs ==
    ASSUME Inv, NEW u \in Users
    PROVE  /\ staff[u] \in Members /\ staff[u].roles \in Seq(AnyRole)
           /\ staff[u].primary \in AnyRole \cup {None}
           /\ Roles(staff[u]) = {staff[u].primary} \cup ToSet(staff[u].roles)
           /\ None \notin ToSet(staff[u].roles)
           /\ staff[u].roles # <<>> => Head(staff[u].roles) \in ToSet(staff[u].roles)
<1>1. staff[u] \in Members  BY DEF Inv, OrganisationTypeOK
<1>2. staff[u].roles \in Seq(AnyRole) /\ staff[u].primary \in AnyRole \cup {None}
  BY <1>1 DEF Members
<1> QED  BY <1>1, <1>2, Contents, LeadsAre DEF Roles

\* A member in the same pod at another place, with other roles.
With(row, b, m, first, roles) ==
    [row EXCEPT !.branch = b, !.unit = m, !.primary = first, !.roles = roles]

LEMMA WithStep ==
    ASSUME Inv, NEW u \in Users, NEW b \in Branches, NEW m \in Units \cup {None},
           NEW first \in AnyRole \cup {None}, NEW list \in Seq(AnyRole),
           Put(u, With(staff[u], b, m, first, list)),
           UNCHANGED <<branches, unit, pod, custom, lead>>,
           \A r \in {first} \cup ToSet(list) :
             r \in Roles(staff[u]) \cup Plain \cup {None} \cup (Named \cap Existing)
    PROVE  Inv'
<1> DEFINE row == With(staff[u], b, m, first, list)
<1>1. row \in Members /\ row.pod = staff[u].pod /\ row.primary = first /\ row.roles = list
  BY RowIs DEF Members, With
<1> HIDE DEF row
<1>2. \A r \in Roles(row) : r \in {first} \cup ToSet(list)  BY <1>1 DEF Roles
<1>3. Put(u, row)  BY DEF row
<1> QED  BY <1>1, <1>2, <1>3, MemberStep

LEMMA AssignUserKeepsInv ==
    ASSUME Inv, NEW b \in Branches, NEW u \in Users, NEW m \in Units \cup {None},
           NEW roles \in BranchRoles, AssignUser(b, u, m, roles)
    PROVE  Inv'
<1> DEFINE first == IF roles = <<>> THEN staff[u].primary ELSE Head(roles)
           list == IF roles = <<>> THEN staff[u].roles ELSE roles
<1>1. PICK target \in Units \cup {None} :
        Put(u, With(staff[u], b, target, first, list))
  <2>1. staff[u].unit \in Units \cup {None} /\ DOMAIN unit \subseteq Units
    BY RowIs DEF Members, Inv, OrganisationTypeOK
  <2> QED  BY <2>1 DEF AssignUser, With
<1>2. roles \in Seq(AnyRole) /\ ToSet(roles) \subseteq Named \cap Existing
  BY SelectionsAssumption DEF AssignUser, Named
<1>3. roles # <<>> => Head(roles) \in ToSet(roles)  BY <1>2, Contents
<1>4. first \in AnyRole \cup {None} /\ list \in Seq(AnyRole)
      /\ {first} \cup ToSet(list) \subseteq Roles(staff[u]) \cup (Named \cap Existing)
  BY <1>2, <1>3, RowIs, LeadsAre
<1>5. UNCHANGED <<branches, unit, pod, custom, lead>>  BY DEF AssignUser
<1> HIDE DEF first, list
<1> QED  BY <1>1, <1>4, <1>5, WithStep

\* Managers and administrators.
LEMMA AdministersKeepsInv ==
    ASSUME Inv, NEW u \in Users,
           \/ \E b \in Branches : UpdateManagers(b, u)
           \/ \E m \in Units : UpdateAdmins(m, u)
    PROVE  Inv'
<1>1. PICK branch \in Branches, target \in Units \cup {None} :
        Put(u, With(staff[u], branch, target, Admin, Add(staff[u].roles, Admin)))
  <2>1. staff[u].branch \in Branches /\ staff[u].unit \in Units \cup {None}
    BY RowIs DEF Members
  <2>2. ASSUME NEW b \in Branches, UpdateManagers(b, u)
        PROVE  Put(u, With(staff[u], b, staff[u].unit, Admin, Add(staff[u].roles, Admin)))
    BY <2>2, RowIs DEF UpdateManagers, Administers, Put, Members, With
  <2>3. ASSUME NEW m \in Units, UpdateAdmins(m, u)
        PROVE  Put(u, With(staff[u], staff[u].branch, m, Admin, Add(staff[u].roles, Admin)))
    BY <2>3, RowIs DEF UpdateAdmins, Administers, Put, Members, With
  <2> QED  BY <2>1, <2>2, <2>3
<1> DEFINE list == Add(staff[u].roles, Admin)
<1>2. Admin \in Plain /\ Admin \in AnyRole  BY LeadsAre DEF Plain
<1>3. list \in Seq(AnyRole) /\ ToSet(list) \subseteq ToSet(staff[u].roles) \cup {Admin}
  BY <1>2, RowIs, AddType
<1>4. UNCHANGED <<branches, unit, pod, custom, lead>>  BY DEF UpdateManagers, UpdateAdmins
<1> HIDE DEF list
<1>5. Put(u, With(staff[u], branch, target, Admin, list))  BY <1>1 DEF list
<1>6. \A r \in {Admin} \cup ToSet(list) :
        r \in Roles(staff[u]) \cup Plain \cup {None} \cup (Named \cap Existing)
  BY <1>2, <1>3, RowIs
<1> QED  BY <1>1, <1>2, <1>3, <1>4, <1>5, <1>6, WithStep

\* Moving members in and out of a unit.
LEMMA UnitMembersKeepInv ==
    ASSUME Inv, NEW m \in Units,
           \/ \E members \in Lists : AssignMembers(m, members)
           \/ \E u \in Users : RemoveMember(m, u)
    PROVE  Inv'
<1>1. \A u \in Users : staff[u] \in Members  BY RowIs
<1>2. /\ staff' \in [Users -> Members]
      /\ \A u \in Users : staff'[u].pod = staff[u].pod /\ Roles(staff'[u]) = Roles(staff[u])
  <2>1. ASSUME NEW members \in Lists, AssignMembers(m, members)
        PROVE  /\ staff' \in [Users -> Members]
               /\ \A u \in Users : staff'[u].pod = staff[u].pod /\ Roles(staff'[u]) = Roles(staff[u])
    <3>1. staff' = [u \in Users |->
            IF u \in members THEN [staff[u] EXCEPT !.unit = m, !.branch = unit[m]]
            ELSE [staff[u] EXCEPT !.unit = IF @ = m THEN None ELSE @]]
      BY <2>1 DEF AssignMembers
    <3>2. unit[m] \in Branches  BY <2>1 DEF AssignMembers, Inv, OrganisationTypeOK
    <3>3. ASSUME NEW u \in Users
          PROVE  staff'[u] \in Members /\ staff'[u].pod = staff[u].pod
                 /\ Roles(staff'[u]) = Roles(staff[u])
      <4>1. staff'[u] = IF u \in members THEN [staff[u] EXCEPT !.unit = m, !.branch = unit[m]]
                        ELSE [staff[u] EXCEPT !.unit = IF @ = m THEN None ELSE @]
        BY <3>1
      <4> QED  BY <1>1, <3>2, <4>1 DEF Members, Roles
    <3> QED  BY <3>1, <3>3
  <2>2. ASSUME NEW v \in Users, RemoveMember(m, v)
        PROVE  /\ staff' \in [Users -> Members]
               /\ \A u \in Users : staff'[u].pod = staff[u].pod /\ Roles(staff'[u]) = Roles(staff[u])
    <3>1. staff' = [staff EXCEPT ![v] = [staff[v] EXCEPT !.unit = None]]
      BY <2>2 DEF RemoveMember, Put
    <3>2. staff \in [Users -> Members]  BY DEF Inv, OrganisationTypeOK
    <3>3. [staff[v] EXCEPT !.unit = None] \in Members  BY <1>1 DEF Members
    <3>4. ASSUME NEW u \in Users
          PROVE  staff'[u].pod = staff[u].pod /\ Roles(staff'[u]) = Roles(staff[u])
      <4>1. staff'[u] = IF u = v THEN [staff[u] EXCEPT !.unit = None] ELSE staff[u]
        BY <3>1, <3>2
      <4> QED  BY <1>1, <4>1 DEF Members, Roles
    <3> QED  BY <3>1, <3>2, <3>3, <3>4
  <2> QED  BY <2>1, <2>2
<1>3. UNCHANGED <<branches, unit, pod, custom, lead>>  BY DEF AssignMembers, RemoveMember
<1>4. /\ custom' \in BOOLEAN /\ branches' \subseteq Branches
      /\ DOMAIN unit' \subseteq Units /\ unit' \in [DOMAIN unit' -> Branches]
  BY <1>3 DEF Inv, OrganisationTypeOK
<1> QED  BY <1>2, <1>3, <1>4, MembersStep

\* A role list that can be selected names plain roles only.
LEMMA SelectedIs ==
    ASSUME Inv, NEW u \in Users, NEW s \in Selectable
    PROVE  /\ s \in Seq(AnyRole) /\ ToSet(s) \subseteq Plain
           /\ Head(s) \in ToSet(s) /\ Head(s) \in AnyRole
           /\ Keeping(u, s) \in Seq(AnyRole)
           /\ ToSet(Keeping(u, s)) \subseteq Plain \cup Roles(staff[u])
<1>1. s \in Seq(Plain) /\ s # <<>>  BY SelectionsAssumption DEF Selectable
<1>2. ToSet(s) \subseteq Plain /\ Head(s) \in ToSet(s)  BY <1>1, Contents
<1>3. s \in Seq(AnyRole)  BY <1>1, LeadsAre, SeqMonotonic
<1> QED  BY <1>2, <1>3, LeadsAre, KeepingType DEF Inv

\* The place of a member.
LEMMA PlaceIs ==
    ASSUME Inv, NEW u \in Users
    PROVE  staff[u].branch \in Branches /\ staff[u].unit \in Units \cup {None}
  BY RowIs DEF Members

\* Administrators select roles for a member.
LEMMA SelectionKeepsInv ==
    ASSUME Inv, NEW u \in Users, NEW s \in Selectable,
           \/ UpdateUserRoles(u, s)
           \/ \E append \in BOOLEAN : AssignUserRoles(u, s, append)
    PROVE  Inv'
<1> DEFINE whole == staff[u].roles \o Without(s, ToSet(staff[u].roles))
           Put2(list) == Put(u, With(staff[u], staff[u].branch, staff[u].unit, Head(s), list))
<1>1. Put2(Keeping(u, s)) \/ Put2(Keeping(u, whole))
  <2>1. ASSUME UpdateUserRoles(u, s) PROVE Put2(Keeping(u, s))
    BY <2>1, RowIs DEF UpdateUserRoles, Put, Members, With
  <2>2. ASSUME AssignUserRoles(u, s, TRUE) PROVE Put2(Keeping(u, whole))
    BY <2>2, RowIs DEF AssignUserRoles, Put, Members, With
  <2>3. ASSUME AssignUserRoles(u, s, FALSE) PROVE Put2(Keeping(u, s))
    BY <2>3, RowIs DEF AssignUserRoles, Put, Members, With
  <2> QED  BY <2>1, <2>2, <2>3
<1>2. whole \in Seq(AnyRole) /\ ToSet(whole) \subseteq Plain \cup Roles(staff[u])
  <2> DEFINE added == Without(s, ToSet(staff[u].roles))
  <2>1. added \in Seq(AnyRole) /\ ToSet(added) \subseteq Plain
    BY SelectedIs, WithoutType
  <2> HIDE DEF added
  <2>2. staff[u].roles \o added \in Seq(AnyRole)
        /\ ToSet(staff[u].roles \o added) = ToSet(staff[u].roles) \cup ToSet(added)
    BY <2>1, RowIs, ContentsConcat, ConcatProperties
  <2>3. ToSet(staff[u].roles) \subseteq Roles(staff[u])  BY RowIs
  <2> QED  BY <2>1, <2>2, <2>3 DEF added
<1>3. Keeping(u, whole) \in Seq(AnyRole)
      /\ ToSet(Keeping(u, whole)) \subseteq Plain \cup Roles(staff[u])
  BY <1>2, KeepingType DEF Inv
<1>4. UNCHANGED <<branches, unit, pod, custom, lead>>
  BY DEF UpdateUserRoles, AssignUserRoles
<1>5. ASSUME NEW list \in Seq(AnyRole), Put2(list),
             ToSet(list) \subseteq Plain \cup Roles(staff[u])
      PROVE  Inv'
  <2>1. \A r \in {Head(s)} \cup ToSet(list) :
          r \in Roles(staff[u]) \cup Plain \cup {None} \cup (Named \cap Existing)
    BY <1>5, SelectedIs
  <2>2. Head(s) \in AnyRole \cup {None}  BY SelectedIs
  <2> QED  BY <1>4, <1>5, <2>1, <2>2, PlaceIs, WithStep
<1> HIDE DEF whole, Put2
<1> QED  BY <1>1, <1>3, <1>5, SelectedIs

\* The user form, with and without roles.
LEMMA DetailsKeepInv ==
    ASSUME Inv, NEW u \in Users, NEW b \in Branches, NEW m \in Units \cup {None},
           \/ MoveMember(u, b, m)
           \/ \E s \in Selectable, r \in Plain \cup {None} : UpdateUserDetails(u, s, r, b, m)
    PROVE  Inv'
<1> DEFINE Fine(x) == x \in Roles(staff[u]) \cup Plain \cup {None} \cup (Named \cap Existing)
<1>1. PICK first \in AnyRole \cup {None}, list \in Seq(AnyRole) :
        Put(u, With(staff[u], b, m, first, list)) /\ \A r \in {first} \cup ToSet(list) : Fine(r)
  <2>1. CASE MoveMember(u, b, m)
    <3> DEFINE first == IF staff[u].primary = None /\ staff[u].roles # <<>>
                        THEN Head(staff[u].roles) ELSE staff[u].primary
               list == First(staff[u].primary, staff[u].roles)
    <3>1. first \in AnyRole \cup {None} /\ first \in Roles(staff[u])  
      <4>1. staff[u].roles # <<>> => Head(staff[u].roles) \in AnyRole  BY RowIs
      <4> QED  BY <4>1, RowIs
    <3>2. list \in Seq(AnyRole) /\ ToSet(list) \subseteq Roles(staff[u])
      <4>1. staff[u].roles \in Seq(AnyRole) /\ staff[u].primary \in AnyRole \cup {None}
        BY RowIs
      <4>2. list \in Seq(AnyRole)
            /\ ToSet(list) = ToSet(staff[u].roles) \cup ({staff[u].primary} \ {None})
        BY <4>1, FirstType
      <4> HIDE DEF list
      <4> QED  BY <4>2, RowIs
    <3>3. Put(u, With(staff[u], b, m, first, list))
      BY <2>1 DEF MoveMember, With
    <3> HIDE DEF first, list
    <3> QED  BY <3>1, <3>2, <3>3
  <2>2. ASSUME NEW s \in Selectable, NEW r \in Plain \cup {None}, UpdateUserDetails(u, s, r, b, m)
        PROVE  \E first \in AnyRole \cup {None}, list \in Seq(AnyRole) :
                 /\ Put(u, With(staff[u], b, m, first, list))
                 /\ \A q \in {first} \cup ToSet(list) : Fine(q)
    <3> DEFINE list == Keeping(u, s)
               first == IF r # None THEN r
                        ELSE IF staff[u].primary \in ToSet(list) THEN staff[u].primary ELSE Head(s)
    <3>1. list \in Seq(AnyRole) /\ ToSet(list) \subseteq Plain \cup Roles(staff[u])
      BY SelectedIs
    <3>2. first \in AnyRole \cup {None} /\ first \in Plain \cup Roles(staff[u])
      BY SelectedIs, RowIs, LeadsAre
    <3>3. Put(u, With(staff[u], b, m, first, list))
      BY <2>2, Zenon DEF UpdateUserDetails, With
    <3> HIDE DEF first, list
    <3>4. \A q \in {first} \cup ToSet(list) : Fine(q)  BY <3>1, <3>2
    <3> HIDE DEF Fine
    <3> QED  BY <3>1, <3>2, <3>3, <3>4
  <2> HIDE DEF Fine
  <2> QED  BY <2>1, <2>2
<1>2. UNCHANGED <<branches, unit, pod, custom, lead>>  BY DEF MoveMember, UpdateUserDetails
<1> QED  BY <1>1, <1>2, WithStep

\* One role more, one role less.
LEMMA SingleRoleKeepsInv ==
    ASSUME Inv, NEW u \in Users, NEW r \in Offered, BatchAssign(u, r) \/ Unassign(u, r)
    PROVE  Inv'
<1> DEFINE Fine(x) == x \in Roles(staff[u]) \cup Plain \cup {None} \cup (Named \cap Existing)
           Row(first, list) == With(staff[u], staff[u].branch, staff[u].unit, first, list)
<1>1. PICK first \in AnyRole \cup {None}, list \in Seq(AnyRole) :
        Put(u, Row(first, list)) /\ \A q \in {first} \cup ToSet(list) : Fine(q)
  <2>0. r \in Plain /\ r \in AnyRole /\ Recruiter \in Plain /\ Recruiter \in AnyRole
    BY LeadsAre DEF Plain
  <2>1. CASE BatchAssign(u, r)
    <3> DEFINE first == IF staff[u].primary = None THEN r ELSE staff[u].primary
               list == Add(staff[u].roles, r)
    <3>1. first \in AnyRole /\ Fine(first)  BY <2>0, RowIs
    <3>2. list \in Seq(AnyRole) /\ \A q \in ToSet(list) : Fine(q)
      <4>1. list \in Seq(AnyRole) /\ ToSet(list) = ToSet(staff[u].roles) \cup ({r} \ {None})
        BY <2>0, RowIs, AddType
      <4> HIDE DEF list
      <4> QED  BY <2>0, <4>1, RowIs
    <3>3. Put(u, Row(first, list))  BY <2>1, RowIs DEF BatchAssign, Put, Members, With
    <3> HIDE DEF first, list, Fine
    <3> QED  BY <3>1, <3>2, <3>3
  <2>2. CASE Unassign(u, r)
    <3> DEFINE rest == Without(staff[u].roles, {r})
               next == IF staff[u].primary # r THEN staff[u].primary
                       ELSE IF rest = <<>> THEN None ELSE Head(rest)
               more == Add(rest, Recruiter)
    <3>1. rest \in Seq(AnyRole) /\ ToSet(rest) \subseteq ToSet(staff[u].roles)
      BY RowIs, WithoutType
    <3>2. Put(u, IF next = None
                 THEN [staff[u] EXCEPT !.primary = Recruiter, !.roles = more]
                 ELSE [staff[u] EXCEPT !.primary = next, !.roles = rest])
      BY <2>2, Zenon DEF Unassign
    <3> HIDE DEF rest
    <3>3. rest # <<>> => Head(rest) \in ToSet(rest)  BY <3>1, Contents
    <3>4. next \in AnyRole \cup {None} /\ Fine(next)
      <4>1. ToSet(rest) \subseteq AnyRole  BY <3>1, Contents
      <4>2. rest # <<>> => Head(rest) \in AnyRole /\ Head(rest) \in Roles(staff[u])
        BY <3>1, <3>3, <4>1, RowIs
      <4> QED  BY <4>2, RowIs
    <3>5. more \in Seq(AnyRole) /\ \A q \in ToSet(more) : Fine(q)
      <4>1. more \in Seq(AnyRole) /\ ToSet(more) = ToSet(rest) \cup ({Recruiter} \ {None})
        BY <2>0, <3>1, AddType
      <4> HIDE DEF more
      <4> QED  BY <2>0, <3>1, <4>1, RowIs
    <3>6. \A q \in ToSet(rest) : Fine(q)  BY <3>1, RowIs
    <3>7. Fine(Recruiter)  BY <2>0
    <3> HIDE DEF next, more, Fine
    <3>8. Put(u, Row(Recruiter, more)) \/ Put(u, Row(next, rest))
      BY <3>2, RowIs DEF Members, With
    <3> HIDE DEF Row
    <3> QED  BY <2>0, <3>1, <3>4, <3>5, <3>6, <3>7, <3>8
  <2> QED  BY <2>1, <2>2
<1>2. UNCHANGED <<branches, unit, pod, custom, lead>>  BY DEF BatchAssign, Unassign
<1> QED  BY <1>1, <1>2, PlaceIs, WithStep

\* The members of a deleted custom role get a plain one in its place, or none.
LEMMA DeleteCustomKeepsInv ==
    ASSUME Inv, NEW target \in Plain, NEW replaced \in BOOLEAN, DeleteCustomRole(target, replaced)
    PROVE  Inv'
<1>1. ASSUME NEW u \in Users
      PROVE  /\ staff'[u] \in Members /\ staff'[u].pod = staff[u].pod
             /\ \A r \in Roles(staff'[u]) : r \in Roles(staff[u]) \cup Plain \cup {None}
  <2> DEFINE old == staff[u]
             mapped == [i \in DOMAIN old.roles |-> IF old.roles[i] = Custom THEN target ELSE old.roles[i]]
             first == IF old.primary # Custom THEN old.primary ELSE IF target = Custom THEN None ELSE target
             list == IF replaced THEN mapped ELSE old.roles
  <2>1. old \in Members /\ old.roles \in Seq(AnyRole) /\ old.primary \in AnyRole \cup {None}
        /\ Roles(old) = {old.primary} \cup ToSet(old.roles) /\ target \in AnyRole
    BY RowIs, LeadsAre
  <2>2. staff'[u] = [old EXCEPT !.primary = first, !.roles = list]
    BY Zenon DEF DeleteCustomRole
  <2> HIDE DEF old
  <2>3. first \in AnyRole \cup {None} /\ first \in Roles(old) \cup Plain \cup {None}
    BY <2>1
  <2>4. mapped \in Seq(AnyRole) /\ \A r \in ToSet(mapped) : r \in ToSet(old.roles) \cup Plain
    <3>1. DOMAIN old.roles = 1..Len(old.roles) /\ Len(old.roles) \in Nat  BY <2>1
    <3>2. \A i \in 1..Len(old.roles) : mapped[i] \in AnyRole
      BY <2>1, <3>1
    <3>3. mapped \in Seq(AnyRole) /\ Len(mapped) = Len(old.roles)
      <4>1. mapped \in [1..Len(old.roles) -> AnyRole]  BY <3>1, <3>2
      <4> HIDE DEF mapped
      <4> QED  BY <3>1, <4>1
    <3>4. \A i \in 1..Len(old.roles) : mapped[i] \in ToSet(old.roles) \cup Plain
      BY <2>1, <3>1, Contents
    <3> HIDE DEF mapped
    <3> QED  BY <3>3, <3>4, Contents
  <2> HIDE DEF mapped
  <2>5. list \in Seq(AnyRole) /\ \A r \in ToSet(list) : r \in Roles(old) \cup Plain
    BY <2>1, <2>4
  <2> HIDE DEF list, first
  <2>6. staff'[u] \in Members /\ staff'[u].pod = old.pod
        /\ staff'[u].primary = first /\ staff'[u].roles = list
    BY <2>1, <2>2, <2>3, <2>5 DEF Members
  <2>7. Roles(staff'[u]) = {first} \cup ToSet(list)  BY <2>6 DEF Roles
  <2> QED  BY <2>3, <2>5, <2>6, <2>7 DEF old
<1>2. /\ pod' = pod /\ lead' = lead /\ custom' \in BOOLEAN /\ branches' \subseteq Branches
      /\ DOMAIN unit' \subseteq Units /\ unit' \in [DOMAIN unit' -> Branches]
  BY DEF DeleteCustomRole, Inv, OrganisationTypeOK
<1>3. staff' \in [Users -> Members]
  <2>1. staff' = [u \in Users |-> staff'[u]]  BY DEF DeleteCustomRole
  <2> QED  BY <1>1, <2>1
<1>4. \A u \in Users :
        /\ staff'[u].pod = staff[u].pod
        /\ Roles(staff'[u]) \subseteq Roles(staff[u]) \cup Plain \cup {None} \cup (Named \cap Existing)
  BY <1>1
<1> QED  BY <1>2, <1>3, <1>4, MembersStep

\* Deleting a branch or a unit deletes its pods and lead roles; the unit of a pod that
\* is left keeps its role, or has none left.
LEMMA CascadeKeepsInv ==
    ASSUME Inv,
           \/ \E m \in Units : RemoveUnit(m)
           \/ \E b \in Branches : RemoveBranch(b)
    PROVE  Inv'
<1>1. PICK goneBranches \in SUBSET Branches, goneUnits \in SUBSET Units :
        Cascade(goneBranches, goneUnits)
  <2>1. DOMAIN unit \subseteq Units  BY DEF Inv, OrganisationTypeOK
  <2> QED  BY <2>1 DEF RemoveUnit, RemoveBranch
<1> DEFINE keptPods == {p \in DOMAIN pod : pod[p].unit \notin goneUnits
                                           /\ pod[p].branch \notin goneBranches}
           goneRoles == {l \in CustomLeads : lead[l].state = "live"
                           /\ (lead[l].unit \in goneUnits \/ lead[l].branch \in goneBranches)}
<1>2. /\ branches' = branches \ goneBranches
      /\ unit' = [m \in DOMAIN unit \ goneUnits |-> unit[m]]
      /\ pod' = [p \in keptPods |-> pod[p]]
      /\ lead' = [l \in CustomLeads |-> IF l \in goneRoles THEN Gone ELSE lead[l]]
      /\ staff' = [u \in Users |->
           [staff[u] EXCEPT !.unit = IF @ \in goneUnits THEN None ELSE @,
                            !.pod = IF @ \in keptPods THEN @ ELSE None,
                            !.primary = IF @ \in goneRoles THEN None ELSE @]]
      /\ custom' = custom
  BY <1>1, Zenon DEF Cascade
<1>3. keptPods \subseteq DOMAIN pod /\ goneRoles \subseteq CustomLeads
      /\ \A l \in goneRoles : lead[l].state = "live"
  OBVIOUS
<1> HIDE DEF keptPods, goneRoles
<1>4. DOMAIN pod' = keptPods /\ \A p \in keptPods : pod'[p] = pod[p]  BY <1>2
<1>5. \A l \in CustomLeads : lead'[l] = IF l \in goneRoles THEN Gone ELSE lead[l]  BY <1>2
<1>6. ASSUME NEW u \in Users
      PROVE  /\ staff'[u] \in Members
             /\ staff'[u].pod = IF staff[u].pod \in keptPods THEN staff[u].pod ELSE None
             /\ \A r \in Roles(staff'[u]) : r \in Roles(staff[u]) \cup {None}
  <2>1. staff'[u] = [staff[u] EXCEPT !.unit = IF @ \in goneUnits THEN None ELSE @,
                                     !.pod = IF @ \in keptPods THEN @ ELSE None,
                                     !.primary = IF @ \in goneRoles THEN None ELSE @]
    BY <1>2
  <2>2. staff[u] \in Members  BY RowIs
  <2> QED  BY <2>1, <2>2 DEF Members, Roles
<1>7. OrganisationTypeOK'
  <2>1. branches' \subseteq Branches /\ custom' \in BOOLEAN
    BY <1>2 DEF Inv, OrganisationTypeOK
  <2>2. DOMAIN unit' \subseteq Units /\ unit' \in [DOMAIN unit' -> Branches]
    BY <1>2 DEF Inv, OrganisationTypeOK
  <2>3. DOMAIN pod' \subseteq Pods
        /\ pod' \in [DOMAIN pod' -> [unit : Units, branch : Branches, head : Users \cup {None}]]
    BY <1>2, <1>3 DEF Inv, OrganisationTypeOK
  <2>4. lead' \in [CustomLeads -> {New, Gone} \cup LiveLeads]
    BY <1>2 DEF Inv, OrganisationTypeOK
  <2>5. staff' \in [Users -> Members]
    <3>1. staff' = [u \in Users |-> staff'[u]]  BY <1>2
    <3> QED  BY <1>6, <3>1
  <2> QED  BY <2>1, <2>2, <2>3, <2>4, <2>5 DEF OrganisationTypeOK
<1>8. Gone.state = "gone" /\ Gone # New  BY DEF Gone, New
<1>9. OneLeadPerUnit'  BY <1>5, <1>8 DEF Inv, OneLeadPerUnit
<1>10. NewUnheld'
  <2>1. \A l \in CustomLeads : l # None  BY RolesAssumption DEF AnyRole
  <2>2. \A l \in CustomLeads : lead'[l] = New => lead[l] = New  BY <1>5, <1>8
  <2> QED  BY <1>6, <2>1, <2>2 DEF Inv, NewUnheld
<1>11. ASSUME NEW p \in keptPods, pod[p].head # None
       PROVE  /\ staff'[pod[p].head].pod = p
              /\ \A q \in keptPods : pod[q].head = pod[p].head => q = p
              /\ Leads(lead') \cap Roles(staff'[pod[p].head])
                   \subseteq {LeadFor(lead', pod[p].unit)} \cup Named
  <2> DEFINE u == pod[p].head
             m == pod[p].unit
  <2>1. p \in DOMAIN pod /\ u \in Users  BY <1>3, <1>11 DEF Inv, OrganisationTypeOK
  <2>2. /\ staff[u].pod = p /\ (\A q \in DOMAIN pod : pod[q].head = u => q = p)
        /\ Leads(lead) \cap Roles(staff[u]) \subseteq {LeadFor(lead, m)} \cup Named
    BY <1>11, <2>1, BelongsIs DEF Inv, Belongs
  <2> HIDE DEF u, m
  <2>3. Leads(lead') \subseteq Leads(lead) /\ None \notin Leads(lead)
    <3>1. None \notin Leads(lead)  BY BelongsIs, LeadsAre
    <3> QED  BY <1>5, <1>8, <3>1 DEF Leads
  <2>4. \A r \in Leads(lead') : r = LeadFor(lead, m) => r = LeadFor(lead', m)
    <3> SUFFICES ASSUME NEW r \in Leads(lead'), r = LeadFor(lead, m), r # LeadFor(lead', m)
                 PROVE  FALSE
      OBVIOUS
    <3> DEFINE own(roles) == {l \in CustomLeads : roles[l].state = "live" /\ roles[l].unit = m}
    <3>1. /\ own(lead) = {} => LeadFor(lead, m) = SystemLead
          /\ own(lead) # {} => LeadFor(lead, m) \in own(lead)
          /\ own(lead') = {} => LeadFor(lead', m) = SystemLead
          /\ own(lead') # {} => LeadFor(lead', m) \in own(lead')
      BY LeadForIs
    <3>2. own(lead') \subseteq own(lead)  BY <1>5, <1>8
    <3>3. \A l, k \in own(lead) : l = k  BY DEF Inv, OneLeadPerUnit
    <3>4. r \in CustomLeads => lead'[r].state = "live" /\ lead'[r] = lead[r]
      BY <1>5, <1>8, LeadsAre DEF Leads
    <3>5. SystemLead \notin CustomLeads  BY LeadsAre
    <3>6. CASE own(lead) = {}  BY <3>1, <3>2, <3>6
    <3>7. CASE own(lead) # {}
      <4>1. r \in own(lead')  BY <3>1, <3>4, <3>7
      <4> HIDE DEF own
      <4> QED  BY <3>1, <3>2, <3>3, <4>1
    <3> QED  BY <3>6, <3>7
  <2>5. staff'[u].pod = p  BY <1>6, <2>1, <2>2
  <2> QED  BY <1>3, <1>6, <2>1, <2>2, <2>3, <2>4, <2>5 DEF u, m
<1>12. Belongs(pod', staff', lead')
  BY <1>4, <1>11 DEF Belongs
<1> QED  BY <1>7, <1>9, <1>10, <1>12, BelongsIs DEF Inv

-----------------------------------------------------------------------------
(* Pods *)

\* A row that comes of another, in pod x: a member's own roles are what they were,
\* and he holds no lead role but the given ones.
Keeps(old, row, L, M) ==
    /\ row \in Members
    /\ Own(row, M) = Own(old, L)
    /\ Roles(row) \ (M \cup {None}) = Roles(old) \ (L \cup {None})

LEMMA PlacedKeeps ==
    ASSUME NEW row \in Members, NEW x \in Pods \cup {None}
    PROVE  LET new == [row EXCEPT !.pod = x]
           IN /\ new \in Members /\ new.pod = x /\ Roles(new) = Roles(row)
              /\ \A L : Own(new, L) = Own(row, L)
<1> DEFINE new == [row EXCEPT !.pod = x]
<1>1. new \in Members /\ new.pod = x /\ new.primary = row.primary /\ new.roles = row.roles
  BY DEF Members
<1> HIDE DEF new
<1> QED  BY <1>1 DEF Own, Roles, new

LEMMA SameKeeps ==
    ASSUME NEW row \in Members, NEW L
    PROVE  Keeps(row, row, L, L)
  BY DEF Keeps

LEMMA LedKeeps ==
    ASSUME NEW row \in Members, NEW role \in AnyRole,
           role \in LeadRoles \/ role \notin Roles(row)
    PROVE  /\ Keeps(row, Led(row, role), LeadRoles, LeadRoles \cup {role})
           /\ Led(row, role).pod = row.pod
           /\ (LeadRoles \cup {role}) \cap Roles(Led(row, role)) = {role}
           /\ \A r \in Roles(Led(row, role)) : r \in Roles(row) \cup {role}
<1>1. /\ Led(row, role) \in Members /\ Led(row, role).pod = row.pod
      /\ Roles(Led(row, role)) = (Roles(row) \ (LeadRoles \cup {None})) \cup {role}
  BY LedRow
<1>2. Own(Led(row, role), LeadRoles \cup {role}) = Own(row, LeadRoles)  BY LedKeepsOwn
<1> HIDE DEF LeadRoles
<1>3. role # None  BY LeadsAre
<1> QED  BY <1>1, <1>2, <1>3 DEF Keeps

LEMMA ReleasedKeeps ==
    ASSUME NEW row \in Members
    PROVE  /\ Keeps(row, Released(row), LeadRoles, LeadRoles)
           /\ Released(row).pod = row.pod
           /\ LeadRoles \cap Roles(Released(row)) = {}
           /\ \A r \in Roles(Released(row)) : r \in Roles(row) \cup {None}
<1>1. /\ Released(row) \in Members /\ Released(row).pod = row.pod
      /\ Roles(Released(row)) \ {None} = Roles(row) \ (LeadRoles \cup {None})
  BY ReleasedRow
<1>2. Own(Released(row), LeadRoles) = Own(row, LeadRoles)  BY ReleasedKeepsOwn
<1>3. None \notin LeadRoles  BY LeadsAre
<1> QED  BY <1>1, <1>2, <1>3 DEF Keeps

\* What Inv says of the head of a pod.
LEMMA HeadIs ==
    ASSUME Inv, NEW p \in DOMAIN pod
    PROVE  /\ p \in Pods /\ p # None /\ pod[p].unit \in Units /\ pod[p].branch \in Branches
           /\ pod[p].head \in Users \cup {None}
           /\ pod[p].head # None =>
                /\ pod[p].head \in Users
                /\ staff[pod[p].head].pod = p
                /\ \A q \in DOMAIN pod : pod[q].head = pod[p].head => q = p
                /\ LeadRoles \cap Roles(staff[pod[p].head])
                     \subseteq {LeadFor(lead, pod[p].unit)} \cup Named
<1>1. DOMAIN pod \subseteq Pods
      /\ pod \in [DOMAIN pod -> [unit : Units, branch : Branches, head : Users \cup {None}]]
  BY DEF Inv, OrganisationTypeOK
<1>2. p \in Pods /\ p # None /\ pod[p].unit \in Units /\ pod[p].branch \in Branches
      /\ pod[p].head \in Users \cup {None}
  BY <1>1, RolesAssumption
<1>3. Belongs(pod, staff, lead)  BY BelongsIs DEF Inv
<1> QED  BY <1>2, <1>3, BelongsIs DEF Belongs

\* Nobody holds a lead role that is not there yet.
LEMMA NewLeads ==
    ASSUME Inv, NEW l \in CustomLeads, lead[l] = New
    PROVE  l \notin LeadRoles /\ l # None /\ \A u \in Users : l \notin Roles(staff[u])
  BY LeadsAre DEF Inv, NewUnheld, New, AnyRole

LEMMA LeadForRole ==
    ASSUME NEW m
    PROVE  /\ LeadFor(lead, m) \in LeadRoles /\ LeadFor(lead, m) \in AnyRole
           /\ LeadRoles \cup {LeadFor(lead, m)} = LeadRoles
  BY LeadForLeads, LeadsAre

\* What creating a pod does to members: those it is made of belong to it.
LEMMA CreatePodRows ==
    ASSUME Inv, NEW p \in Pods, NEW m \in Units, NEW head \in Users \cup {None},
           NEW members \in Lists, CreatePod(p, m, head, members), NEW u \in Users
    PROVE  /\ Keeps(staff[u], staff'[u], LeadRoles, LeadRoles)
           /\ staff'[u].pod = IF u \in members \/ u = head THEN p ELSE staff[u].pod
           /\ u \in members \/ u = head => staff[u].pod = None
           /\ u # head => Roles(staff'[u]) = Roles(staff[u])
           /\ u = head => LeadRoles \cap Roles(staff'[u]) = {LeadFor(lead, m)}
           /\ \A r \in Roles(staff'[u]) : r \in Roles(staff[u]) \cup LeadRoles
<1> DEFINE all == members \cup ({head} \ {None})
           old == staff[u]
           row == IF u \in all THEN [old EXCEPT !.pod = p] ELSE old
           role == LeadFor(lead, m)
<1>1. staff'[u] = IF u = head THEN Led(row, role) ELSE row
  BY Zenon DEF CreatePod
<1>2. u \in all <=> u \in members \/ u = head
  <2>1. u # None  BY RolesAssumption
  <2> QED  BY <2>1
<1>3. u \in all => staff[u].pod = None
  <2>1. \A v \in all : staff[v].pod \in {None, None}  BY Zenon DEF CreatePod, Eligible
  <2> QED  BY <2>1
<1>4. old \in Members  BY RowIs
<1> HIDE DEF all
<1>5. /\ row \in Members /\ row.pod = (IF u \in all THEN p ELSE old.pod) /\ Roles(row) = Roles(old)
      /\ \A L : Own(row, L) = Own(old, L)
  BY <1>4, PlacedKeeps
<1>6. role \in LeadRoles /\ role \in AnyRole /\ LeadRoles \cup {role} = LeadRoles
  BY LeadForRole
<1> HIDE DEF row, role
<1>7. /\ Keeps(row, Led(row, role), LeadRoles, LeadRoles)
      /\ Led(row, role).pod = row.pod
      /\ LeadRoles \cap Roles(Led(row, role)) = {role}
      /\ \A r \in Roles(Led(row, role)) : r \in Roles(row) \cup {role}
  BY <1>5, <1>6, LedKeeps
<1>8. CASE u = head
  BY <1>1, <1>2, <1>3, <1>5, <1>6, <1>7, <1>8 DEF Keeps, role
<1>9. CASE u # head
  BY <1>1, <1>2, <1>3, <1>5, <1>9 DEF Keeps
<1> QED  BY <1>8, <1>9

LEMMA CreatePodKeepsInv ==
    ASSUME Inv, NEW p \in Pods, NEW m \in Units, NEW head \in Users \cup {None},
           NEW members \in Lists, CreatePod(p, m, head, members)
    PROVE  Inv'
<1>1. /\ p \notin DOMAIN pod /\ m \in DOMAIN unit
      /\ head # None => Heads(head) = {}
      /\ pod' = [k \in DOMAIN pod \cup {p} |->
                    IF k = p THEN [unit |-> m, branch |-> unit[m], head |-> head] ELSE pod[k]]
      /\ UNCHANGED <<branches, unit, custom, lead>>
      /\ staff' = [u \in Users |-> staff'[u]]
  BY DEF CreatePod
<1>2. ASSUME NEW u \in Users
      PROVE  /\ staff'[u] \in Members
             /\ staff'[u].pod = IF u \in members \/ u = head THEN p ELSE staff[u].pod
             /\ u \in members \/ u = head => staff[u].pod = None
             /\ u # head => Roles(staff'[u]) = Roles(staff[u])
             /\ u = head => LeadRoles \cap Roles(staff'[u]) = {LeadFor(lead, m)}
             /\ \A r \in Roles(staff'[u]) : r \in Roles(staff[u]) \cup LeadRoles
  BY CreatePodRows DEF Keeps
<1>3. unit[m] \in Branches  BY <1>1 DEF Inv, OrganisationTypeOK
<1>4. OrganisationTypeOK'
  <2>1. pod' \in [DOMAIN pod' -> [unit : Units, branch : Branches, head : Users \cup {None}]]
        /\ DOMAIN pod' \subseteq Pods
    BY <1>1, <1>3 DEF Inv, OrganisationTypeOK
  <2>2. staff' \in [Users -> Members]  BY <1>1, <1>2
  <2> QED  BY <1>1, <2>1, <2>2 DEF Inv, OrganisationTypeOK
<1>5. OneLeadPerUnit'  BY <1>1 DEF Inv, OneLeadPerUnit
<1>6. NewUnheld'
  <2> SUFFICES ASSUME NEW l \in CustomLeads, lead[l] = New, NEW u \in Users
               PROVE  l \notin Roles(staff'[u])
    BY <1>1 DEF NewUnheld
  <2> QED  BY <1>2, NewLeads
<1>7. ASSUME NEW q \in DOMAIN pod, pod[q].head # None
      PROVE  /\ staff'[pod[q].head].pod = q /\ pod[q].head # head
             /\ Roles(staff'[pod[q].head]) = Roles(staff[pod[q].head])
  BY <1>2, <1>7, HeadIs
<1>8. head # None => head \in Users /\ \A q \in DOMAIN pod : pod[q].head # head
  BY <1>1 DEF Heads
<1>9. LeadRoles = Leads(lead) /\ lead' = lead  BY <1>1, BelongsIs
<1>10. ASSUME NEW q \in DOMAIN pod', pod'[q].head # None
       PROVE  /\ staff'[pod'[q].head].pod = q
              /\ \A k \in DOMAIN pod' : pod'[k].head = pod'[q].head => k = q
              /\ Leads(lead') \cap Roles(staff'[pod'[q].head])
                   \subseteq {LeadFor(lead', pod'[q].unit)} \cup Named
  <2>1. \A k \in DOMAIN pod' : /\ k = p => pod'[k].head = head /\ pod'[k].unit = m
                               /\ k # p => k \in DOMAIN pod /\ pod'[k] = pod[k]
    BY <1>1
  <2>2. CASE q = p  BY <1>2, <1>8, <1>9, <1>10, <2>1, <2>2
  <2>3. CASE q # p
    <3>1. q \in DOMAIN pod /\ pod'[q] = pod[q] /\ pod[q].head # None  BY <1>10, <2>1, <2>3
    <3>2. \A k \in DOMAIN pod : pod[k].head = pod[q].head => k = q  BY <3>1, HeadIs
    <3>3. LeadRoles \cap Roles(staff[pod[q].head]) \subseteq {LeadFor(lead, pod[q].unit)} \cup Named
      BY <3>1, HeadIs
    <3> QED  BY <1>7, <1>9, <2>1, <3>1, <3>2, <3>3
  <2> QED  BY <2>2, <2>3
<1>11. Belongs(pod', staff', lead')  BY <1>10, Zenon DEF Belongs
<1> QED  BY <1>4, <1>5, <1>6, <1>11, BelongsIs DEF Inv

\* What removing a pod does to members: nobody is left in it, and its head leads no more.
LEMMA RemovePodRows ==
    ASSUME Inv, NEW p \in Pods, RemovePod(p), NEW u \in Users
    PROVE  /\ Keeps(staff[u], staff'[u], LeadRoles, LeadRoles)
           /\ staff'[u].pod = IF staff[u].pod = p THEN None ELSE staff[u].pod
           /\ u # pod[p].head => Roles(staff'[u]) = Roles(staff[u])
           /\ u = pod[p].head => LeadRoles \cap Roles(staff'[u]) = {}
           /\ \A r \in Roles(staff'[u]) : r \in Roles(staff[u]) \cup {None}
<1> DEFINE old == staff[u]
           row == IF u = pod[p].head /\ Heads(u) = {p} THEN Released(old) ELSE old
           new == [row EXCEPT !.pod = IF @ = p THEN None ELSE @]
           x == IF row.pod = p THEN None ELSE row.pod
<1>1. staff'[u] = new  BY Zenon DEF RemovePod
<1>2. p \in DOMAIN pod  BY DEF RemovePod
<1>3. u = pod[p].head => Heads(u) = {p}
  <2>1. u # None  BY RolesAssumption
  <2> QED  BY <1>2, <2>1, HeadIs DEF Heads
<1>4. old \in Members  BY RowIs
<1>5. /\ Keeps(old, Released(old), LeadRoles, LeadRoles)
      /\ Released(old).pod = old.pod
      /\ LeadRoles \cap Roles(Released(old)) = {}
      /\ \A r \in Roles(Released(old)) : r \in Roles(old) \cup {None}
  BY <1>4, ReleasedKeeps
<1>6. Keeps(old, old, LeadRoles, LeadRoles)  BY <1>4, SameKeeps
<1>7. /\ Keeps(old, row, LeadRoles, LeadRoles) /\ row.pod = old.pod
      /\ u # pod[p].head => Roles(row) = Roles(old)
      /\ u = pod[p].head => LeadRoles \cap Roles(row) = {}
      /\ \A r \in Roles(row) : r \in Roles(old) \cup {None}
  BY <1>3, <1>5, <1>6
<1> HIDE DEF row
<1>8. row \in Members  BY <1>7 DEF Keeps
<1>9. x \in Pods \cup {None} /\ new = [row EXCEPT !.pod = x]  BY <1>8 DEF Members
<1> HIDE DEF new
<1>10. new \in Members /\ new.pod = x /\ Roles(new) = Roles(row) /\ \A L : Own(new, L) = Own(row, L)
  <2> HIDE DEF x
  <2> QED  BY <1>8, <1>9, PlacedKeeps
<1> QED  BY <1>1, <1>7, <1>10 DEF Keeps

LEMMA RemovePodKeepsInv ==
    ASSUME Inv, NEW p \in Pods, RemovePod(p)
    PROVE  Inv'
<1>1. /\ pod' = [k \in DOMAIN pod \ {p} |-> pod[k]] /\ p \in DOMAIN pod
      /\ UNCHANGED <<branches, unit, custom, lead>>
      /\ staff' = [u \in Users |-> staff'[u]]
  BY DEF RemovePod
<1>2. ASSUME NEW u \in Users
      PROVE  /\ staff'[u] \in Members
             /\ staff'[u].pod = IF staff[u].pod = p THEN None ELSE staff[u].pod
             /\ u # pod[p].head => Roles(staff'[u]) = Roles(staff[u])
             /\ \A r \in Roles(staff'[u]) : r \in Roles(staff[u]) \cup {None}
  BY RemovePodRows DEF Keeps
<1>3. OrganisationTypeOK'
  <2>1. staff' \in [Users -> Members]  BY <1>1, <1>2
  <2>2. DOMAIN pod' \subseteq Pods
        /\ pod' \in [DOMAIN pod' -> [unit : Units, branch : Branches, head : Users \cup {None}]]
    BY <1>1 DEF Inv, OrganisationTypeOK
  <2> QED  BY <1>1, <2>1, <2>2 DEF Inv, OrganisationTypeOK
<1>4. OneLeadPerUnit'  BY <1>1 DEF Inv, OneLeadPerUnit
<1>5. NewUnheld'
  <2> SUFFICES ASSUME NEW l \in CustomLeads, lead[l] = New, NEW u \in Users
               PROVE  l \notin Roles(staff'[u])
    BY <1>1 DEF NewUnheld
  <2> QED  BY <1>2, NewLeads
<1>6. LeadRoles = Leads(lead) /\ lead' = lead  BY <1>1, BelongsIs
<1>7. ASSUME NEW q \in DOMAIN pod', pod'[q].head # None
      PROVE  /\ staff'[pod'[q].head].pod = q
             /\ \A k \in DOMAIN pod' : pod'[k].head = pod'[q].head => k = q
             /\ Leads(lead') \cap Roles(staff'[pod'[q].head])
                  \subseteq {LeadFor(lead', pod'[q].unit)} \cup Named
  <2>1. \A k \in DOMAIN pod' : k \in DOMAIN pod /\ k # p /\ pod'[k] = pod[k]  BY <1>1
  <2>2. q \in DOMAIN pod /\ q # p /\ pod'[q] = pod[q] /\ pod[q].head # None  BY <1>7, <2>1
  <2>3. /\ pod[q].head \in Users /\ staff[pod[q].head].pod = q
        /\ \A k \in DOMAIN pod : pod[k].head = pod[q].head => k = q
        /\ LeadRoles \cap Roles(staff[pod[q].head]) \subseteq {LeadFor(lead, pod[q].unit)} \cup Named
    BY <2>2, HeadIs
  <2>4. pod[q].head # pod[p].head  BY <1>1, <2>2, <2>3
  <2> QED  BY <1>2, <1>6, <2>1, <2>2, <2>3, <2>4
<1>8. Belongs(pod', staff', lead')  BY <1>7, Zenon DEF Belongs
<1> QED  BY <1>3, <1>4, <1>5, <1>8, BelongsIs DEF Inv

\* A request to PodsService.update about pod p, as it is read.
Reads(k, p) ==
    /\ k.pod = p /\ k.seen = pod[p] /\ k.unit \in Units
    /\ k.head \in Users \cup {None} /\ (k.changed <=> k.head # pod[p].head)
    /\ k.members # Same => k.members \in Lists

\* What updating a pod does to members: a head who is replaced leads no more, a new one
\* belongs to the pod and holds the role of its unit.
LEMMA PodWriteRows ==
    ASSUME Inv, NEW p \in DOMAIN pod, NEW k, Reads(k, p), PodWrite(k), NEW u \in Users
    PROVE  /\ Keeps(staff[u], staff'[u], LeadRoles, LeadRoles)
           /\ u = k.head => staff'[u].pod = p /\ staff[u].pod \in {None, p}
           /\ staff[u].pod \notin {None, p} => staff'[u].pod = staff[u].pod
           /\ u # k.head /\ u # pod[p].head => Roles(staff'[u]) = Roles(staff[u])
           /\ u # k.head /\ u = pod[p].head => LeadRoles \cap Roles(staff'[u]) = {}
           /\ u = k.head => \/ LeadRoles \cap Roles(staff'[u]) = {LeadFor(lead, k.unit)}
                            \/ /\ Roles(staff'[u]) = Roles(staff[u])
                               /\ k.head = pod[p].head /\ k.unit = pod[p].unit
           /\ \A r \in Roles(staff'[u]) : r \in Roles(staff[u]) \cup LeadRoles \cup {None}
<1> DEFINE named == IF k.members = Same THEN {} ELSE k.members
           all == named \cup ({k.head} \ {None})
           leaves == k.changed /\ u = k.seen.head /\ Heads(u) \subseteq {p}
           joins == (u = k.head /\ NewlyLed(k)) \/ (k.members # Same /\ u \in all)
           old == staff[u]
           mid == IF leaves THEN Released(old) ELSE old
           role == LeadFor(lead, k.unit)
           row == IF u = k.head /\ NewlyLed(k) THEN Led(mid, role) ELSE mid
           x == IF joins THEN p ELSE IF k.members # Same /\ row.pod = p THEN None ELSE row.pod
<1>1. /\ staff'[u] = [row EXCEPT !.pod = IF joins THEN p ELSE IF k.members # Same /\ @ = p THEN None ELSE @]
      /\ \A v \in all : Eligible(v, k.unit, p)
  BY Zenon DEF PodWrite, Reads
<1>2. old \in Members /\ p \in Pods /\ u # None /\ pod[p].head \in Users \cup {None}
  BY RowIs, HeadIs, RolesAssumption
<1>3. leaves <=> u = pod[p].head /\ k.head # pod[p].head
  <2>1. u = pod[p].head => Heads(u) \subseteq {p}  BY <1>2, HeadIs DEF Heads
  <2> QED  BY <2>1 DEF Reads
<1>4. NewlyLed(k) <=> k.head # None /\ (k.head # pod[p].head \/ k.unit # pod[p].unit)
  BY DEF NewlyLed, Reads
<1>5. u = k.head => u \in all  BY <1>2
<1>6. u \in all => staff[u].pod \in {None, p}  BY <1>1, Zenon DEF Eligible
<1>7. u = pod[p].head => staff[u].pod = p  BY <1>2, HeadIs
<1> HIDE DEF leaves, all
<1>8. /\ Keeps(old, Released(old), LeadRoles, LeadRoles)
      /\ Released(old).pod = old.pod
      /\ LeadRoles \cap Roles(Released(old)) = {}
      /\ \A r \in Roles(Released(old)) : r \in Roles(old) \cup {None}
  BY <1>2, ReleasedKeeps
<1>9. Keeps(old, old, LeadRoles, LeadRoles)  BY <1>2, SameKeeps
<1>10. /\ Keeps(old, mid, LeadRoles, LeadRoles) /\ mid.pod = old.pod
       /\ leaves => LeadRoles \cap Roles(mid) = {}
       /\ ~leaves => Roles(mid) = Roles(old)
       /\ \A r \in Roles(mid) : r \in Roles(old) \cup {None}
  BY <1>8, <1>9
<1> HIDE DEF mid
<1>11. mid \in Members  BY <1>10 DEF Keeps
<1>12. role \in LeadRoles /\ role \in AnyRole /\ LeadRoles \cup {role} = LeadRoles
  BY LeadForRole
<1> HIDE DEF role
<1>13. /\ Keeps(mid, Led(mid, role), LeadRoles, LeadRoles)
       /\ Led(mid, role).pod = mid.pod
       /\ LeadRoles \cap Roles(Led(mid, role)) = {role}
       /\ \A r \in Roles(Led(mid, role)) : r \in Roles(mid) \cup {role}
  BY <1>11, <1>12, LedKeeps
<1> DEFINE led == u = k.head /\ NewlyLed(k)
<1>14. /\ Keeps(old, row, LeadRoles, LeadRoles) /\ row.pod = old.pod
       /\ led => LeadRoles \cap Roles(row) = {role}
       /\ ~led => Roles(row) = Roles(mid)
       /\ \A r \in Roles(row) : r \in Roles(old) \cup LeadRoles \cup {None}
  <2>1. CASE led  BY <1>10, <1>12, <1>13, <2>1 DEF Keeps
  <2>2. CASE ~led  BY <1>10, <2>2
  <2> QED  BY <2>1, <2>2
<1> HIDE DEF row
<1>15. row \in Members  BY <1>14 DEF Keeps
<1>16. row.pod \in Pods \cup {None}  BY <1>15 DEF Members
<1> HIDE DEF joins
<1>17. x \in Pods \cup {None} /\ staff'[u] = [row EXCEPT !.pod = x]
  BY <1>1, <1>2, <1>15, <1>16 DEF Members
<1>18. /\ staff'[u] \in Members /\ staff'[u].pod = x /\ Roles(staff'[u]) = Roles(row)
       /\ \A L : Own(staff'[u], L) = Own(row, L)
  <2> HIDE DEF x
  <2> QED  BY <1>15, <1>17, PlacedKeeps
<1>19. u = k.head => x = p
  <2>1. CASE led  BY <2>1 DEF joins
  <2>2. CASE u = k.head /\ ~led
    <3>1. k.head = pod[p].head /\ k.members # Same => joins
      BY <1>2, <1>4, <1>5, <2>2 DEF joins
    <3>2. k.head = pod[p].head  BY <1>2, <1>4, <2>2
    <3> QED  BY <1>7, <1>14, <2>2, <3>1, <3>2
  <2> QED  BY <2>1, <2>2
<1>20. staff[u].pod \notin {None, p} => x = staff[u].pod
  <2>1. joins => u \in all  BY <1>5 DEF joins
  <2> QED  BY <1>6, <1>14, <2>1
<1> HIDE DEF x
<1>21. Keeps(staff[u], staff'[u], LeadRoles, LeadRoles)  BY <1>14, <1>18 DEF Keeps
<1>22. /\ u = k.head => staff'[u].pod = p /\ staff[u].pod \in {None, p}
       /\ staff[u].pod \notin {None, p} => staff'[u].pod = staff[u].pod
  BY <1>5, <1>6, <1>18, <1>19, <1>20
<1>23. /\ u # k.head /\ u # pod[p].head => Roles(staff'[u]) = Roles(staff[u])
       /\ u # k.head /\ u = pod[p].head => LeadRoles \cap Roles(staff'[u]) = {}
  BY <1>3, <1>10, <1>14, <1>18
<1>24. u = k.head => \/ LeadRoles \cap Roles(staff'[u]) = {LeadFor(lead, k.unit)}
                     \/ /\ Roles(staff'[u]) = Roles(staff[u])
                        /\ k.head = pod[p].head /\ k.unit = pod[p].unit
  BY <1>2, <1>3, <1>4, <1>10, <1>14, <1>18 DEF role
<1> QED  BY <1>14, <1>18, <1>21, <1>22, <1>23, <1>24

LEMMA PodWriteKeepsInv ==
    ASSUME Inv, NEW p \in DOMAIN pod, NEW k, Reads(k, p), PodWrite(k)
    PROVE  Inv'
<1>1. /\ pod' = [pod EXCEPT ![p] = [unit |-> k.unit, branch |-> k.branch, head |-> k.head]]
      /\ k.branch \in branches
      /\ UNCHANGED <<branches, unit, custom, lead>>
      /\ staff' = [u \in Users |-> staff'[u]]
  BY DEF PodWrite, Reads
<1>2. ASSUME NEW u \in Users
      PROVE  /\ staff'[u] \in Members
             /\ u = k.head => staff'[u].pod = p /\ staff[u].pod \in {None, p}
             /\ staff[u].pod \notin {None, p} => staff'[u].pod = staff[u].pod
             /\ u # k.head /\ u # pod[p].head => Roles(staff'[u]) = Roles(staff[u])
             /\ u = k.head => \/ LeadRoles \cap Roles(staff'[u]) = {LeadFor(lead, k.unit)}
                              \/ /\ Roles(staff'[u]) = Roles(staff[u])
                                 /\ k.head = pod[p].head /\ k.unit = pod[p].unit
             /\ \A r \in Roles(staff'[u]) : r \in Roles(staff[u]) \cup LeadRoles \cup {None}
  BY PodWriteRows DEF Keeps
<1>3. k.unit \in Units /\ k.branch \in Branches /\ k.head \in Users \cup {None}
  BY <1>1 DEF Inv, OrganisationTypeOK, Reads
<1>4. OrganisationTypeOK'
  <2>1. staff' \in [Users -> Members]  BY <1>1, <1>2
  <2>2. DOMAIN pod' \subseteq Pods
        /\ pod' \in [DOMAIN pod' -> [unit : Units, branch : Branches, head : Users \cup {None}]]
    BY <1>1, <1>3 DEF Inv, OrganisationTypeOK
  <2> QED  BY <1>1, <2>1, <2>2 DEF Inv, OrganisationTypeOK
<1>5. OneLeadPerUnit'  BY <1>1 DEF Inv, OneLeadPerUnit
<1>6. NewUnheld'
  <2> SUFFICES ASSUME NEW l \in CustomLeads, lead[l] = New, NEW u \in Users
               PROVE  l \notin Roles(staff'[u])
    BY <1>1 DEF NewUnheld
  <2> QED  BY <1>2, NewLeads
<1>7. LeadRoles = Leads(lead) /\ lead' = lead  BY <1>1, BelongsIs
<1>8. DOMAIN pod' = DOMAIN pod
      /\ \A q \in DOMAIN pod : /\ q = p => pod'[q].head = k.head /\ pod'[q].unit = k.unit
                               /\ q # p => pod'[q] = pod[q]
  BY <1>1, HeadIs DEF Inv, OrganisationTypeOK
<1>9. ASSUME NEW q \in DOMAIN pod, q # p, pod[q].head # None
      PROVE  /\ pod[q].head # k.head /\ staff'[pod[q].head].pod = q
             /\ Roles(staff'[pod[q].head]) = Roles(staff[pod[q].head])
  <2>1. pod[q].head \in Users /\ staff[pod[q].head].pod = q /\ q # None /\ pod[q].head # pod[p].head
    BY <1>9, HeadIs
  <2> QED  BY <1>2, <1>9, <2>1
<1>10. ASSUME NEW q \in DOMAIN pod', pod'[q].head # None
       PROVE  /\ staff'[pod'[q].head].pod = q
              /\ \A o \in DOMAIN pod' : pod'[o].head = pod'[q].head => o = q
              /\ Leads(lead') \cap Roles(staff'[pod'[q].head])
                   \subseteq {LeadFor(lead', pod'[q].unit)} \cup Named
  <2>1. CASE q = p
    <3>1. k.head \in Users  BY <1>3, <1>8, <1>10, <2>1
    <3>2. LeadRoles \cap Roles(staff'[k.head]) \subseteq {LeadFor(lead, k.unit)} \cup Named
      <4>1. CASE LeadRoles \cap Roles(staff'[k.head]) = {LeadFor(lead, k.unit)}  BY <4>1
      <4>2. CASE /\ Roles(staff'[k.head]) = Roles(staff[k.head])
                 /\ k.head = pod[p].head /\ k.unit = pod[p].unit
        BY <1>8, <1>10, <2>1, <4>2, HeadIs
      <4> QED  BY <1>2, <3>1, <4>1, <4>2
    <3> QED  BY <1>2, <1>7, <1>8, <1>9, <1>10, <2>1, <3>1, <3>2
  <2>2. CASE q # p
    <3>1. q \in DOMAIN pod /\ pod'[q] = pod[q] /\ pod[q].head # None  BY <1>8, <1>10, <2>2
    <3>2. /\ \A o \in DOMAIN pod : pod[o].head = pod[q].head => o = q
          /\ LeadRoles \cap Roles(staff[pod[q].head]) \subseteq {LeadFor(lead, pod[q].unit)} \cup Named
      BY <3>1, HeadIs
    <3> QED  BY <1>7, <1>8, <1>9, <2>2, <3>1, <3>2
  <2> QED  BY <2>1, <2>2
<1>11. Belongs(pod', staff', lead')  BY <1>10, Zenon DEF Belongs
<1> QED  BY <1>4, <1>5, <1>6, <1>11, BelongsIs DEF Inv

\* PodsService.update in one step: what is written is what has been read.
LEMMA UpdatePodWrites ==
    ASSUME Inv, NEW p \in Pods, NEW m \in Units \cup {Same}, NEW h \in Heading,
           NEW members \in Lists \cup {Same}, UpdatePod(p, m, h, members)
    PROVE  p \in DOMAIN pod /\ \E k : Reads(k, p) /\ PodWrite(k)
<1>1. PICK target \in ScopeUnit(p, m) : p \in DOMAIN pod /\ PodWrite(Asked(p, target, h, members))
  BY Zenon DEF UpdatePod
<1> DEFINE k == Asked(p, target, h, members)
<1>2. k.unit = target /\ k.pod = p /\ k.seen = pod[p] /\ k.members = members
      /\ k.head = (IF h = Same THEN pod[p].head ELSE h)
      /\ k.changed = (h # Same /\ h # pod[p].head)
  BY DEF Asked
<1>3. target \in DOMAIN unit
  BY <1>1, <1>2, Zenon DEF PodWrite
<1>4. pod[p].head \in Users \cup {None}  BY <1>1, HeadIs
<1>5. DOMAIN unit \subseteq Units  BY DEF Inv, OrganisationTypeOK
<1> HIDE DEF k
<1>6. Reads(k, p)  BY <1>2, <1>3, <1>4, <1>5 DEF Reads, Heading
<1>7. PodWrite(k)  BY <1>1 DEF k
<1> QED  BY <1>1, <1>6, <1>7

\* A custom Pod Lead role becomes its unit's only one; other units keep theirs.
LEMMA LeadForSet ==
    ASSUME Inv, NEW l \in CustomLeads, NEW m \in Units, NEW b,
           lead' = [lead EXCEPT ![l] = Live(m, b)],
           lead[l] = New \/ lead[l].state = "live",
           LeadFor(lead, m) \in {SystemLead, l}
    PROVE  /\ lead'[l] = Live(m, b) /\ \A k \in CustomLeads \ {l} : lead'[k] = lead[k]
           /\ LeadFor(lead', m) = l
           /\ OneLeadPerUnit'
           /\ Leads(lead') = LeadRoles \cup {l}
           /\ lead[l] = New => \A o : o # m => LeadFor(lead', o) = LeadFor(lead, o)
           /\ \A k \in CustomLeads : lead'[k] = New => lead[k] = New /\ k # l
<1>1. lead'[l] = Live(m, b) /\ \A k \in CustomLeads \ {l} : lead'[k] = lead[k]
  BY DEF Inv, OrganisationTypeOK
<1>2. /\ Live(m, b).state = "live" /\ Live(m, b).unit = m /\ New.state = "new"
  BY DEF Live, New
<1>3. \A k \in CustomLeads : lead[k].state = "live" /\ lead[k].unit = m => k = l
  <2> DEFINE own == {k \in CustomLeads : lead[k].state = "live" /\ lead[k].unit = m}
  <2>1. own # {} => LeadFor(lead, m) \in own  BY LeadForIs
  <2>2. SystemLead \notin CustomLeads  BY LeadsAre
  <2> QED  BY <2>1, <2>2 DEF Inv, OneLeadPerUnit
<1>4. OneLeadPerUnit'  BY <1>1, <1>2, <1>3 DEF Inv, OneLeadPerUnit
<1>5. LeadFor(lead', m) = l
  <2> DEFINE own == {k \in CustomLeads : lead'[k].state = "live" /\ lead'[k].unit = m}
  <2>1. own # {} => LeadFor(lead', m) \in own  BY LeadForIs
  <2>2. l \in own  BY <1>1, <1>2
  <2>3. \A k \in own : k = l  BY <1>4, <2>2 DEF OneLeadPerUnit
  <2> HIDE DEF own
  <2> QED  BY <2>1, <2>2, <2>3
<1>6. Leads(lead') = LeadRoles \cup {l}
  BY <1>1, <1>2, LeadsAre DEF Leads
<1>7. ASSUME lead[l] = New, NEW o, o # m PROVE LeadFor(lead', o) = LeadFor(lead, o)
  <2> DEFINE now == {k \in CustomLeads : lead[k].state = "live" /\ lead[k].unit = o}
             then == {k \in CustomLeads : lead'[k].state = "live" /\ lead'[k].unit = o}
  <2>1. then = now  BY <1>1, <1>2, <1>7
  <2>2. /\ LeadFor(lead, o) = IF now = {} THEN SystemLead ELSE CHOOSE k \in now : TRUE
        /\ LeadFor(lead', o) = IF then = {} THEN SystemLead ELSE CHOOSE k \in then : TRUE
    BY DEF LeadFor
  <2> HIDE DEF now, then
  <2> QED  BY <2>1, <2>2
<1>8. \A k \in CustomLeads : lead'[k] = New => lead[k] = New /\ k # l
  BY <1>1, <1>2
<1> QED  BY <1>1, <1>4, <1>5, <1>6, <1>7, <1>8

\* The heads of the unit's pods hold the role that is created for it.
LEMMA CreateLeadRows ==
    ASSUME Inv, NEW l \in CustomLeads, NEW m \in Units, CreateLead(l, m), NEW u \in Users
    PROVE  /\ Keeps(staff[u], staff'[u], LeadRoles, LeadRoles \cup {l})
           /\ staff'[u].pod = staff[u].pod
           /\ (\E p \in Heads(u) : pod[p].unit = m) =>
                (LeadRoles \cup {l}) \cap Roles(staff'[u]) = {l}
           /\ (\A p \in Heads(u) : pod[p].unit # m) => Roles(staff'[u]) = Roles(staff[u])
           /\ \A r \in Roles(staff'[u]) : r \in Roles(staff[u]) \cup {l}
<1> DEFINE leads == \E p \in Heads(u) : pod[p].unit = m
           old == staff[u]
<1>1. staff'[u] = IF leads THEN Led(old, l) ELSE old  BY DEF CreateLead
<1>2. old \in Members  BY RowIs
<1>3. lead[l] = New /\ l \in AnyRole /\ l \notin LeadRoles /\ l # None /\ l \notin Roles(old)
  BY NewLeads DEF CreateLead, AnyRole
<1>4. /\ Keeps(old, Led(old, l), LeadRoles, LeadRoles \cup {l})
      /\ Led(old, l).pod = old.pod
      /\ (LeadRoles \cup {l}) \cap Roles(Led(old, l)) = {l}
      /\ \A r \in Roles(Led(old, l)) : r \in Roles(old) \cup {l}
  BY <1>2, <1>3, LedKeeps
<1>5. Keeps(old, old, LeadRoles, LeadRoles \cup {l})
  <2>1. Own(old, LeadRoles \cup {l}) = Own(old, LeadRoles)
    <3>1. old.roles \in Seq(AnyRole) /\ l \notin ToSet(old.roles) /\ old.primary # l
      BY <1>2, <1>3 DEF Members, Roles
    <3>2. Without(old.roles, LeadRoles \cup {l}) = Without(old.roles, LeadRoles)
      BY <3>1, WithoutAbsent
    <3> QED  BY <3>1, <3>2 DEF Own
  <2> QED  BY <1>2, <1>3, <2>1 DEF Keeps
<1> HIDE DEF leads, old
<1>6. CASE leads  BY <1>1, <1>4, <1>6 DEF leads, old
<1>7. CASE ~leads  BY <1>1, <1>5, <1>7 DEF leads, old
<1> QED  BY <1>6, <1>7

LEMMA CreateLeadKeepsInv ==
    ASSUME Inv, NEW l \in CustomLeads, NEW m \in Units, CreateLead(l, m)
    PROVE  Inv'
<1>1. /\ lead[l] = New /\ m \in DOMAIN unit /\ LeadFor(lead, m) \in {SystemLead, l}
      /\ lead' = [lead EXCEPT ![l] = Live(m, unit[m])]
      /\ UNCHANGED <<branches, unit, pod, custom>>
      /\ staff' = [u \in Users |-> staff'[u]]
  BY DEF CreateLead
<1>2. ASSUME NEW u \in Users
      PROVE  /\ staff'[u] \in Members /\ staff'[u].pod = staff[u].pod
             /\ (\E p \in Heads(u) : pod[p].unit = m) =>
                  (LeadRoles \cup {l}) \cap Roles(staff'[u]) = {l}
             /\ (\A p \in Heads(u) : pod[p].unit # m) => Roles(staff'[u]) = Roles(staff[u])
             /\ \A r \in Roles(staff'[u]) : r \in Roles(staff[u]) \cup {l}
  <2>1. Keeps(staff[u], staff'[u], LeadRoles, LeadRoles \cup {l}) /\ staff'[u].pod = staff[u].pod
    BY CreateLeadRows
  <2>2. (\E p \in Heads(u) : pod[p].unit = m) =>
          (LeadRoles \cup {l}) \cap Roles(staff'[u]) = {l}
    BY CreateLeadRows
  <2>3. (\A p \in Heads(u) : pod[p].unit # m) => Roles(staff'[u]) = Roles(staff[u])
    BY CreateLeadRows
  <2>4. \A r \in Roles(staff'[u]) : r \in Roles(staff[u]) \cup {l}  BY CreateLeadRows
  <2>5. staff'[u] \in Members  BY <2>1 DEF Keeps
  <2> QED  BY <2>1, <2>2, <2>3, <2>4, <2>5
<1>3. /\ LeadFor(lead', m) = l /\ OneLeadPerUnit' /\ Leads(lead') = LeadRoles \cup {l}
      /\ \A o : o # m => LeadFor(lead', o) = LeadFor(lead, o)
      /\ \A k \in CustomLeads : lead'[k] = New => lead[k] = New /\ k # l
  BY <1>1, LeadForSet
<1>4. OrganisationTypeOK'
  <2>1. staff' \in [Users -> Members]  BY <1>1, <1>2
  <2>2. Live(m, unit[m]) \in LiveLeads
    BY <1>1 DEF Inv, OrganisationTypeOK, Live, LiveLeads
  <2>3. lead' \in [CustomLeads -> {New, Gone} \cup LiveLeads]
    BY <1>1, <2>2 DEF Inv, OrganisationTypeOK
  <2> QED  BY <1>1, <2>1, <2>3 DEF Inv, OrganisationTypeOK
<1>5. NewUnheld'
  <2> SUFFICES ASSUME NEW k \in CustomLeads, lead'[k] = New, NEW u \in Users
               PROVE  k \notin Roles(staff'[u])
    BY DEF NewUnheld
  <2>1. lead[k] = New /\ k # l  BY <1>3
  <2> QED  BY <1>2, <2>1, NewLeads
<1>6. ASSUME NEW p \in DOMAIN pod, pod[p].head # None
      PROVE  /\ staff'[pod[p].head].pod = p
             /\ \A q \in DOMAIN pod : pod[q].head = pod[p].head => q = p
             /\ Leads(lead') \cap Roles(staff'[pod[p].head])
                  \subseteq {LeadFor(lead', pod[p].unit)} \cup Named
  <2> DEFINE u == pod[p].head
  <2>1. /\ u \in Users /\ staff[u].pod = p
        /\ \A q \in DOMAIN pod : pod[q].head = u => q = p
        /\ LeadRoles \cap Roles(staff[u]) \subseteq {LeadFor(lead, pod[p].unit)} \cup Named
    BY <1>6, HeadIs
  <2>2. (\E q \in Heads(u) : pod[q].unit = m) <=> pod[p].unit = m  BY <2>1 DEF Heads
  <2> HIDE DEF u
  <2>3. CASE pod[p].unit = m  BY <1>2, <1>3, <2>1, <2>2, <2>3 DEF u
  <2>4. CASE pod[p].unit # m
    <3>1. l \notin Roles(staff[u])  BY <1>1, <2>1, NewLeads
    <3> QED  BY <1>2, <1>3, <2>1, <2>2, <2>4, <3>1 DEF u
  <2> QED  BY <2>3, <2>4
<1>7. Belongs(pod', staff', lead')  BY <1>1, <1>6, Zenon DEF Belongs
<1> QED  BY <1>3, <1>4, <1>5, <1>7, BelongsIs DEF Inv

\* When a Pod Lead role moves, every head gets the role his unit has then.
LEMMA UpdateLeadRows ==
    ASSUME Inv, NEW l \in CustomLeads, NEW m \in Units, UpdateLead(l, m)
    PROVE  /\ LeadRoles' = LeadRoles /\ Leads(lead') = LeadRoles /\ OneLeadPerUnit'
           /\ \A k \in CustomLeads : lead'[k] = New => lead[k] = New
           /\ staff' = [u \in Users |-> staff'[u]]
           /\ \A u \in Users :
                /\ Keeps(staff[u], staff'[u], LeadRoles, LeadRoles)
                /\ staff'[u].pod = staff[u].pod
                /\ \A r \in Roles(staff'[u]) : r \in Roles(staff[u]) \cup LeadRoles
                /\ \A p \in DOMAIN pod : pod[p].head = u =>
                     LeadRoles \cap Roles(staff'[u]) = {LeadFor(lead', pod[p].unit)}
<1>1. /\ lead[l].state = "live" /\ m \in DOMAIN unit /\ LeadFor(lead, m) \in {SystemLead, l}
      /\ lead' = [lead EXCEPT ![l] = Live(m, unit[m])]
  BY DEF UpdateLead
<1>2. /\ OneLeadPerUnit' /\ Leads(lead') = LeadRoles \cup {l}
      /\ \A k \in CustomLeads : lead'[k] = New => lead[k] = New /\ k # l
  BY <1>1, LeadForSet
<1>3. Leads(lead') = LeadRoles  BY <1>1, <1>2, LeadsAre
<1>4. LeadRoles' = LeadRoles  BY <1>3, BelongsIs
<1>5. PICK oldest \in [Users -> Pods] :
        /\ \A u \in Users : Heads(u) # {} => oldest[u] \in Heads(u)
        /\ staff' = [u \in Users |->
             IF Heads(u) = {} THEN staff[u]
             ELSE Led(staff[u], LeadFor(lead', pod[oldest[u]].unit))]
  BY DEF UpdateLead
<1>6. ASSUME NEW o PROVE LeadFor(lead', o) \in LeadRoles /\ LeadFor(lead', o) \in AnyRole
                         /\ LeadRoles \cup {LeadFor(lead', o)} = LeadRoles
  <2>1. LeadFor(lead', o) \in Leads(lead')  BY LeadForIs DEF Leads
  <2> QED  BY <1>3, <2>1, LeadsAre
<1>7. ASSUME NEW u \in Users
      PROVE  /\ Keeps(staff[u], staff'[u], LeadRoles, LeadRoles)
             /\ staff'[u].pod = staff[u].pod
             /\ \A r \in Roles(staff'[u]) : r \in Roles(staff[u]) \cup LeadRoles
             /\ \A p \in DOMAIN pod : pod[p].head = u =>
                  LeadRoles \cap Roles(staff'[u]) = {LeadFor(lead', pod[p].unit)}
  <2> DEFINE old == staff[u]
             role == LeadFor(lead', pod[oldest[u]].unit)
  <2>1. staff'[u] = IF Heads(u) = {} THEN old ELSE Led(old, role)  BY <1>5
  <2>2. old \in Members  BY RowIs
  <2>3. role \in LeadRoles /\ role \in AnyRole /\ LeadRoles \cup {role} = LeadRoles  BY <1>6
  <2>4. ASSUME NEW p \in DOMAIN pod, pod[p].head = u
        PROVE  Heads(u) # {} /\ role = LeadFor(lead', pod[p].unit)
    <3>1. u # None  BY RolesAssumption
    <3>2. \A q \in Heads(u) : q = p  BY <2>4, <3>1, HeadIs DEF Heads
    <3>3. p \in Heads(u)  BY <2>4 DEF Heads
    <3>4. oldest[u] = p  BY <1>5, <3>2, <3>3
    <3> QED  BY <3>3, <3>4
  <2> HIDE DEF role, old
  <2>5. /\ Keeps(old, Led(old, role), LeadRoles, LeadRoles)
        /\ Led(old, role).pod = old.pod
        /\ LeadRoles \cap Roles(Led(old, role)) = {role}
        /\ \A r \in Roles(Led(old, role)) : r \in Roles(old) \cup {role}
    BY <2>2, <2>3, LedKeeps
  <2>6. Keeps(old, old, LeadRoles, LeadRoles)  BY <2>2, SameKeeps
  <2>7. CASE Heads(u) = {}  BY <2>1, <2>4, <2>6, <2>7 DEF old
  <2>8. CASE Heads(u) # {}  BY <2>1, <2>3, <2>4, <2>5, <2>8 DEF old
  <2> QED  BY <2>7, <2>8
<1>8. staff' = [u \in Users |-> staff'[u]]  BY <1>5
<1> QED  BY <1>2, <1>3, <1>4, <1>7, <1>8

LEMMA UpdateLeadKeepsInv ==
    ASSUME Inv, NEW l \in CustomLeads, NEW m \in Units, UpdateLead(l, m)
    PROVE  Inv'
<1>1. /\ m \in DOMAIN unit /\ lead' = [lead EXCEPT ![l] = Live(m, unit[m])]
      /\ UNCHANGED <<branches, unit, pod, custom>>
  BY DEF UpdateLead
<1>2. /\ Leads(lead') = LeadRoles /\ OneLeadPerUnit'
      /\ \A k \in CustomLeads : lead'[k] = New => lead[k] = New
      /\ staff' = [u \in Users |-> staff'[u]]
      /\ \A u \in Users :
           /\ staff'[u] \in Members /\ staff'[u].pod = staff[u].pod
           /\ \A r \in Roles(staff'[u]) : r \in Roles(staff[u]) \cup LeadRoles
           /\ \A p \in DOMAIN pod : pod[p].head = u =>
                LeadRoles \cap Roles(staff'[u]) = {LeadFor(lead', pod[p].unit)}
  BY UpdateLeadRows, Zenon DEF Keeps
<1>3. OrganisationTypeOK'
  <2>1. staff' \in [Users -> Members]  BY <1>2
  <2>2. Live(m, unit[m]) \in LiveLeads
    BY <1>1 DEF Inv, OrganisationTypeOK, Live, LiveLeads
  <2>3. lead' \in [CustomLeads -> {New, Gone} \cup LiveLeads]
    BY <1>1, <2>2 DEF Inv, OrganisationTypeOK
  <2> QED  BY <1>1, <2>1, <2>3 DEF Inv, OrganisationTypeOK
<1>4. NewUnheld'
  <2> SUFFICES ASSUME NEW k \in CustomLeads, lead'[k] = New, NEW u \in Users
               PROVE  k \notin Roles(staff'[u])
    BY DEF NewUnheld
  <2>1. lead[k] = New  BY <1>2
  <2> QED  BY <1>2, <2>1, NewLeads
<1>5. ASSUME NEW p \in DOMAIN pod, pod[p].head # None
      PROVE  /\ staff'[pod[p].head].pod = p
             /\ \A q \in DOMAIN pod : pod[q].head = pod[p].head => q = p
             /\ Leads(lead') \cap Roles(staff'[pod[p].head])
                  \subseteq {LeadFor(lead', pod[p].unit)} \cup Named
  BY <1>2, <1>5, HeadIs
<1>6. Belongs(pod', staff', lead')  BY <1>1, <1>5, Zenon DEF Belongs
<1> QED  BY <1>2, <1>3, <1>4, <1>6, BelongsIs DEF Inv

-----------------------------------------------------------------------------
(* The whole system *)

LEMMA InitIsInv == Init => Inv
<1> SUFFICES ASSUME Init PROVE Inv
  OBVIOUS
<1>1. PICK b \in Branches :
        /\ branches = {b} /\ unit = [m \in Units |-> b]
        /\ lead \in [CustomLeads -> {New} \cup {Live(m, b) : m \in Units}]
        /\ \A l, k \in CustomLeads : lead[l] = lead[k] => l = k \/ lead[l] = New
        /\ pod = [p \in {} |-> None]
        /\ staff = [u \in Users |-> [branch |-> b, unit |-> None, pod |-> None,
                                     primary |-> Recruiter, roles |-> <<Recruiter>>]]
        /\ custom = TRUE
  BY DEF Init
<1>2. \A l \in CustomLeads : lead[l] = New \/ \E m \in Units : lead[l] = Live(m, b)
  BY <1>1
<1>3. \A m \in Units : /\ Live(m, b).state = "live" /\ Live(m, b).unit = m
                       /\ Live(m, b) \in LiveLeads
  BY <1>1 DEF Live, LiveLeads
<1>4. New.state = "new"  BY DEF New
<1> DEFINE one == <<Recruiter>>
<1>5. one \in Seq(AnyRole) /\ ToSet(one) = {Recruiter} /\ Recruiter \in AnyRole
      /\ Recruiter \in Plain
  BY ContentsOne, LeadsAre DEF Plain
<1> HIDE DEF one
<1>6. \A u \in Users : staff[u] \in Members /\ Roles(staff[u]) = {Recruiter}
  <2>1. \A u \in Users : staff[u] = [branch |-> b, unit |-> None, pod |-> None,
                                     primary |-> Recruiter, roles |-> one]
    BY <1>1 DEF one
  <2> QED  BY <1>1, <1>5, <2>1 DEF Members, Roles
<1>7. OrganisationTypeOK
  <2>1. lead \in [CustomLeads -> {New, Gone} \cup LiveLeads]  BY <1>1, <1>2, <1>3
  <2>2. staff \in [Users -> Members]  BY <1>1, <1>6
  <2>3. DOMAIN pod = {} /\ pod \in [DOMAIN pod -> [unit : Units, branch : Branches, head : Users \cup {None}]]
    BY <1>1
  <2> QED  BY <1>1, <2>1, <2>2, <2>3 DEF OrganisationTypeOK
<1>8. OneLeadPerUnit
  <2> SUFFICES ASSUME NEW l \in CustomLeads, NEW k \in CustomLeads, lead[l].state = "live",
                      lead[k].state = "live", lead[l].unit = lead[k].unit
               PROVE  l = k
    BY DEF OneLeadPerUnit
  <2>1. lead[l] # New /\ lead[k] # New  BY <1>4
  <2>2. PICK m \in Units, n \in Units : lead[l] = Live(m, b) /\ lead[k] = Live(n, b)
    BY <1>2, <2>1
  <2>3. m = n  BY <1>3, <2>2
  <2> QED  BY <1>1, <2>1, <2>2, <2>3
<1>9. NewUnheld  BY <1>5, <1>6, RolesAssumption DEF NewUnheld
<1>10. HeadsBelong  BY <1>1 DEF HeadsBelong
<1> QED  BY <1>7, <1>8, <1>9, <1>10 DEF Inv

LEMMA PodStepKeepsInv == Inv /\ PodStep => Inv'
<1> SUFFICES ASSUME Inv, PodStep PROVE Inv'
  OBVIOUS
<1>1. ASSUME NEW p \in Pods, NEW m \in Units, NEW h \in Users \cup {None}, NEW us \in Lists,
             CreatePod(p, m, h, us)
      PROVE  Inv'
  BY <1>1, CreatePodKeepsInv
<1>2. ASSUME NEW p \in Pods, RemovePod(p) PROVE Inv'
  BY <1>2, RemovePodKeepsInv
<1>3. ASSUME NEW l \in CustomLeads, NEW m \in Units, CreateLead(l, m) PROVE Inv'
  BY <1>3, CreateLeadKeepsInv
<1>4. ASSUME NEW l \in CustomLeads, NEW m \in Units, UpdateLead(l, m) PROVE Inv'
  BY <1>4, UpdateLeadKeepsInv
<1>5. ASSUME NEW p \in Pods, NEW m \in Units \cup {Same}, NEW h \in Heading,
             NEW us \in Lists \cup {Same}, UpdatePod(p, m, h, us)
      PROVE  Inv'
  BY <1>5, UpdatePodWrites, PodWriteKeepsInv
<1> QED  BY <1>1, <1>2, <1>3, <1>4, <1>5, Zenon DEF PodStep

LEMMA OtherStepKeepsInv == Inv /\ OtherStep => Inv'
<1> SUFFICES ASSUME Inv, OtherStep PROVE Inv'
  OBVIOUS
<1>1. ASSUME NEW b \in Branches, NEW m \in Units, CreateUnit(m, b) \/ MoveUnit(m, b) PROVE Inv'
  BY <1>1, StructureKeepsInv
<1>2. ASSUME NEW b \in Branches, CreateBranch(b) PROVE Inv'
  <2>1. /\ UNCHANGED <<unit, pod, custom, lead, staff>> /\ branches' \subseteq Branches
        /\ staff' \in [Users -> Members] /\ custom' \in BOOLEAN
        /\ DOMAIN unit' \subseteq Units /\ unit' \in [DOMAIN unit' -> Branches]
    BY <1>2 DEF CreateBranch, Inv, OrganisationTypeOK
  <2> QED  BY <2>1, MembersStep
<1>3. ASSUME NEW b \in Branches, NEW u \in Users, NEW m \in Units \cup {None},
             NEW s \in BranchRoles, AssignUser(b, u, m, s)
      PROVE  Inv'
  BY <1>3, AssignUserKeepsInv
<1>4. ASSUME NEW u \in Users, \/ \E b \in Branches : UpdateManagers(b, u)
                              \/ \E m \in Units : UpdateAdmins(m, u)
      PROVE  Inv'
  BY <1>4, AdministersKeepsInv
<1>5. ASSUME NEW b \in Branches, NEW u \in Users, NEW m \in Units \cup {None},
             \/ MoveMember(u, b, m)
             \/ \E s \in Selectable, r \in Plain \cup {None} : UpdateUserDetails(u, s, r, b, m)
      PROVE  Inv'
  BY <1>5, DetailsKeepInv
<1>6. ASSUME \/ \E m \in Units : RemoveUnit(m)
             \/ \E b \in Branches : RemoveBranch(b)
      PROVE  Inv'
  BY <1>6, CascadeKeepsInv
<1>7. ASSUME NEW m \in Units, \/ \E us \in Lists : AssignMembers(m, us)
                              \/ \E u \in Users : RemoveMember(m, u)
      PROVE  Inv'
  BY <1>7, UnitMembersKeepInv
<1>8. ASSUME NEW u \in Users, NEW s \in Selectable,
             \/ UpdateUserRoles(u, s)
             \/ \E append \in BOOLEAN : AssignUserRoles(u, s, append)
      PROVE  Inv'
  BY <1>8, SelectionKeepsInv
<1>9. ASSUME NEW u \in Users, NEW r \in Offered, BatchAssign(u, r) \/ Unassign(u, r) PROVE Inv'
  BY <1>9, SingleRoleKeepsInv
<1>10. ASSUME NEW target \in Plain, NEW replaced \in BOOLEAN, DeleteCustomRole(target, replaced)
       PROVE  Inv'
  BY <1>10, DeleteCustomKeepsInv
<1> QED
  BY <1>1, <1>2, <1>3, <1>4, <1>5, <1>6, <1>7, <1>8, <1>9, <1>10, Zenon DEF OtherStep

LEMMA NextKeepsInv == Inv /\ [Next]_vars => Inv'
<1>1. Inv /\ UNCHANGED vars => Inv'
  <2> SUFFICES ASSUME Inv, UNCHANGED vars PROVE Inv'
    OBVIOUS
  <2>1. UNCHANGED <<branches, unit, pod, custom, lead, staff>>  BY DEF vars
  <2>2. /\ branches' \subseteq Branches /\ staff' \in [Users -> Members] /\ custom' \in BOOLEAN
        /\ DOMAIN unit' \subseteq Units /\ unit' \in [DOMAIN unit' -> Branches]
    BY <2>1 DEF Inv, OrganisationTypeOK
  <2> QED  BY <2>1, <2>2, MembersStep
<1> QED  BY <1>1, PodStepKeepsInv, OtherStepKeepsInv DEF Next

LEMMA InvHolds == Spec => []Inv
<1> QED  BY InitIsInv, NextKeepsInv, PTL DEF Spec

\* Every row, pod, unit and role keeps its type: HeadsBelong and what it rests on speak
\* of rows that are there.
THEOREM OrganisationTyped == Spec => []OrganisationTypeOK
<1>1. Inv => OrganisationTypeOK  BY DEF Inv
<1> QED  BY <1>1, InvHolds, PTL

\* createCustomRole, updateCustomRole: no unit ever has two custom Pod Lead roles, so
\* the role of its heads does not depend on which of them is found first.
THEOREM OneLeadPerUnitHolds == Spec => []OneLeadPerUnit
<1>1. Inv => OneLeadPerUnit  BY DEF Inv
<1> QED  BY <1>1, InvHolds, PTL

\* validateRecruiters, promoteToPodHead: a head is a member of his pod, heads no other,
\* and of the lead roles holds the one for the pod's unit alone, but for those that
\* assignUser has been told to give him.
THEOREM HeadsBelongHolds == Spec => []HeadsBelong
<1>1. Inv => HeadsBelong  BY DEF Inv
<1> QED  BY <1>1, InvHolds, PTL

-----------------------------------------------------------------------------
(* demoteFromPodHead: the roles of a member's own *)

LEMMA OwnIs ==
    ASSUME NEW u \in Users
    PROVE  /\ OwnRole(staff[u]) = Own(staff[u], LeadRoles)
           /\ OwnRole(staff[u])' = Own(staff'[u], LeadRoles')
           /\ OwnRoles(staff[u]) = Roles(staff[u]) \ (LeadRoles \cup {None})
           /\ OwnRoles(staff[u])' = Roles(staff'[u]) \ (LeadRoles' \cup {None})
           /\ HeldLeads(staff[u])' = LeadRoles' \cap Roles(staff'[u])
  BY DEF OwnRole, OwnRoles, Own, NotLead, Roles, HeldLeads

\* What becomes of a row: it keeps a member's own roles, and a head who heads no pod any
\* more leads no more.
LEMMA PodStepRows ==
    ASSUME Inv, PodStep, NEW u \in Users
    PROVE  /\ Keeps(staff[u], staff'[u], LeadRoles, LeadRoles')
           /\ Heads(u) # {} /\ Heads(u)' = {} => LeadRoles' \cap Roles(staff'[u]) = {}
<1> DEFINE Fine == /\ Keeps(staff[u], staff'[u], LeadRoles, LeadRoles')
                   /\ Heads(u) # {} /\ Heads(u)' = {} => LeadRoles' \cap Roles(staff'[u]) = {}
<1> SUFFICES Fine
  OBVIOUS
<1>1. u # None  BY RolesAssumption
<1>2. lead' = lead => LeadRoles' = LeadRoles  BY BelongsIs
<1>3. pod' = pod => Heads(u)' = Heads(u)  BY DEF Heads
<1>4. ASSUME NEW p \in Pods, NEW m \in Units, NEW h \in Users \cup {None}, NEW us \in Lists,
             CreatePod(p, m, h, us)
      PROVE  Fine
  <2>1. p \notin DOMAIN pod /\ lead' = lead
        /\ pod' = [k \in DOMAIN pod \cup {p} |->
                     IF k = p THEN [unit |-> m, branch |-> unit[m], head |-> h] ELSE pod[k]]
    BY <1>4 DEF CreatePod
  <2>2. Heads(u) \subseteq Heads(u)'  BY <2>1 DEF Heads
  <2>3. Keeps(staff[u], staff'[u], LeadRoles, LeadRoles)  BY <1>4, CreatePodRows
  <2> QED  BY <1>2, <2>1, <2>2, <2>3
<1>5. ASSUME NEW p \in Pods, RemovePod(p) PROVE Fine
  <2>1. /\ Keeps(staff[u], staff'[u], LeadRoles, LeadRoles)
        /\ u = pod[p].head => LeadRoles \cap Roles(staff'[u]) = {}
    BY <1>5, RemovePodRows
  <2>2. p \in DOMAIN pod /\ lead' = lead /\ pod' = [k \in DOMAIN pod \ {p} |-> pod[k]]
    BY <1>5 DEF RemovePod
  <2>3. Heads(u) # {} /\ Heads(u)' = {} => u = pod[p].head  BY <2>2 DEF Heads
  <2> QED  BY <1>2, <2>1, <2>2, <2>3
<1>6. ASSUME NEW l \in CustomLeads, NEW m \in Units, CreateLead(l, m) PROVE Fine
  <2>1. /\ pod' = pod /\ lead[l] = New /\ LeadFor(lead, m) \in {SystemLead, l}
        /\ lead' = [lead EXCEPT ![l] = Live(m, unit[m])]
    BY <1>6 DEF CreateLead
  <2>2. LeadRoles' = LeadRoles \cup {l}  BY <2>1, LeadForSet, BelongsIs
  <2>3. Keeps(staff[u], staff'[u], LeadRoles, LeadRoles \cup {l})  BY <1>6, CreateLeadRows
  <2> QED  BY <1>3, <2>1, <2>2, <2>3
<1>7. ASSUME NEW l \in CustomLeads, NEW m \in Units, UpdateLead(l, m) PROVE Fine
  <2>1. pod' = pod  BY <1>7 DEF UpdateLead
  <2>2. LeadRoles' = LeadRoles /\ Keeps(staff[u], staff'[u], LeadRoles, LeadRoles)
    BY <1>7, UpdateLeadRows
  <2> QED  BY <1>3, <2>1, <2>2
<1>8. ASSUME NEW p \in Pods, NEW m \in Units \cup {Same}, NEW h \in Heading,
             NEW us \in Lists \cup {Same}, UpdatePod(p, m, h, us)
      PROVE  Fine
  <2>1. p \in DOMAIN pod /\ \E k : Reads(k, p) /\ PodWrite(k)  BY <1>8, UpdatePodWrites
  <2>2. PICK k : Reads(k, p) /\ PodWrite(k)  BY <2>1
  <2>3. /\ Keeps(staff[u], staff'[u], LeadRoles, LeadRoles)
        /\ u # k.head /\ u = pod[p].head => LeadRoles \cap Roles(staff'[u]) = {}
    BY <2>1, <2>2, PodWriteRows
  <2>4. /\ lead' = lead
        /\ pod' = [pod EXCEPT ![p] = [unit |-> k.unit, branch |-> k.branch, head |-> k.head]]
    BY <2>2 DEF PodWrite, Reads
  <2>5. pod \in [DOMAIN pod -> [unit : Units, branch : Branches, head : Users \cup {None}]]
    BY DEF Inv, OrganisationTypeOK
  <2>6. DOMAIN pod' = DOMAIN pod /\ pod'[p].head = k.head
        /\ \A q \in DOMAIN pod : q # p => pod'[q] = pod[q]
    BY <2>1, <2>4, <2>5
  <2>7. Heads(u) # {} /\ Heads(u)' = {} => u = pod[p].head /\ u # k.head
    BY <2>1, <2>6 DEF Heads
  <2> QED  BY <1>2, <2>3, <2>4, <2>7
<1> HIDE DEF Fine
<1> QED  BY <1>4, <1>5, <1>6, <1>7, <1>8, Zenon DEF PodStep

\* demoteFromPodHead: "Existing non-lead roles and primary role are preserved."
\* Whatever becomes of pods and of Pod Lead roles, each member's own role and all his
\* other own roles stay, and dismissal takes the lead roles.
THEOREM OwnRolesKeptHolds == Spec => OwnRolesKept
<1> DEFINE Kind == \A u \in Users :
                     /\ OwnRole(staff[u])' = OwnRole(staff[u])
                     /\ OwnRoles(staff[u])' = OwnRoles(staff[u])
                     /\ Heads(u) # {} /\ Heads(u)' = {} => HeldLeads(staff[u])' = {}
<1>1. Inv /\ PodStep => Kind
  <2> SUFFICES ASSUME Inv, PodStep, NEW u \in Users
               PROVE  /\ OwnRole(staff[u])' = OwnRole(staff[u])
                      /\ OwnRoles(staff[u])' = OwnRoles(staff[u])
                      /\ Heads(u) # {} /\ Heads(u)' = {} => HeldLeads(staff[u])' = {}
    OBVIOUS
  <2> QED  BY PodStepRows, OwnIs DEF Keeps
<1>2. Inv /\ [Next]_vars => [Kind \/ ~PodStep]_vars  BY <1>1
<1> QED  BY <1>2, InvHolds, PTL DEF Spec, OwnRolesKept
=============================================================================
