------------------------- MODULE ConfigProcessorProofs -------------------------
(***************************************************************************)
(* Proofs about ConfigProcessor, for any names, fields, defaults and tags, *)
(* and any number of patch items.                                          *)
(*                                                                         *)
(* Each operation on a list (append, replace, remove, push to the front)   *)
(* is first described by what is where afterwards; what it does to names,  *)
(* to the order of the other items and to the sources of fields follows    *)
(* from that, and the actions are composed of these operations.            *)
(***************************************************************************)
EXTENDS ConfigProcessor, TLAPS, SequenceTheorems, FiniteSetTheorems, WellFoundedInduction

-----------------------------------------------------------------------------
(* The operations on lists.                                                *)

LEMMA ElementIs == ASSUME NEW S, NEW list \in Seq(S), NEW i \in DOMAIN list
                   PROVE  list[i] \in S
  OBVIOUS

LEMMA FindIsThere ==
  ASSUME NEW list \in Seq(Items), NEW n
  PROVE  /\ Find(list, n) \in 0..Len(list)
         /\ Find(list, n) = 0 <=> n \notin NamesOf(list)
         /\ Find(list, n) # 0 => list[Find(list, n)].name = n
  <1>. DEFINE there == {i \in 1..Len(list) : list[i].name = n}
  <1>1. Find(list, n) = IF there # {} THEN Min(there) ELSE 0
    BY DEF Find, SelectInSeq
  <1>2. there # {} <=> n \in NamesOf(list)
    BY DEF NamesOf
  <1>3. ASSUME there # {}
        PROVE  Min(there) \in there
    <2>1. there \subseteq Nat
      OBVIOUS
    <2>2. PICK m \in there : \A i \in there : ~(<<i, m>> \in OpToRel(<, Nat))
      <3>. HIDE DEF there
      <3>. QED
        BY <1>3, <2>1, NatLessThanWellFounded, WFMin
    <2>3. \A i \in there : ~(i < m)
      BY <2>1, <2>2 DEF OpToRel
    <2>4. \A i \in there : m <= i
      BY <2>1, <2>3
    <2>. QED
      BY <2>4 DEF Min
  <1>. QED
    BY <1>1, <1>2, <1>3

LEMMA ReplaceAtIs ==
  ASSUME NEW S, NEW list \in Seq(S), NEW i \in 1..Len(list), NEW item \in S
  PROVE  /\ ReplaceAt(list, i, item) \in Seq(S)
         /\ Len(ReplaceAt(list, i, item)) = Len(list)
         /\ ReplaceAt(list, i, item)[i] = item
         /\ \A k \in 1..Len(list) : k # i => ReplaceAt(list, i, item)[k] = list[k]
  BY DEF ReplaceAt

LEMMA RemoveAtIs ==
  ASSUME NEW S, NEW list \in Seq(S), NEW i \in 1..Len(list)
  PROVE  /\ RemoveAt(list, i) \in Seq(S)
         /\ Len(RemoveAt(list, i)) = Len(list) - 1
         /\ \A k \in 1..(Len(list) - 1) :
              RemoveAt(list, i)[k] = IF k < i THEN list[k] ELSE list[k + 1]
  <1>. DEFINE before == SubSeq(list, 1, i - 1)
              behind == SubSeq(list, i + 1, Len(list))
  <1>1. /\ before \in Seq(S) /\ Len(before) = i - 1
        /\ \A k \in 1..(i - 1) : before[k] = list[k]
    <2>1. i - 1 \in Int /\ \A k \in 1..(i - 1) : list[k] \in S
      OBVIOUS
    <2>2. (i - 1) - 1 + 1 = i - 1 /\ \A k \in 1..(i - 1) : 1 + k - 1 = k
      OBVIOUS
    <2>. QED
      BY <2>1, <2>2, SubSeqProperties
  <1>2. /\ behind \in Seq(S) /\ Len(behind) = Len(list) - i
        /\ \A k \in 1..(Len(list) - i) : behind[k] = list[i + k]
    <2>1. i + 1 \in Int /\ Len(list) \in Int /\ \A k \in (i + 1)..Len(list) : list[k] \in S
      OBVIOUS
    <2>2. (IF i + 1 <= Len(list) THEN Len(list) - (i + 1) + 1 ELSE 0) = Len(list) - i
      OBVIOUS
    <2>3. /\ behind \in Seq(S)
          /\ Len(behind) = IF i + 1 <= Len(list) THEN Len(list) - (i + 1) + 1 ELSE 0
          /\ \A k \in 1..(Len(list) - (i + 1) + 1) : behind[k] = list[(i + 1) + k - 1]
      BY <2>1, SubSeqProperties
    <2>. HIDE DEF behind
    <2>4. ASSUME NEW k \in 1..(Len(list) - i)
          PROVE  behind[k] = list[i + k]
      <3>1. k \in 1..(Len(list) - (i + 1) + 1) /\ (i + 1) + k - 1 = i + k
        OBVIOUS
      <3>. QED
        BY <2>3, <3>1
    <2>. QED
      BY <2>2, <2>3, <2>4
  <1>3. RemoveAt(list, i) = before \o behind
    BY DEF RemoveAt
  <1>. HIDE DEF before, behind
  <1>4. /\ before \o behind \in Seq(S)
        /\ Len(before \o behind) = Len(before) + Len(behind)
        /\ \A k \in 1..(Len(before) + Len(behind)) :
             (before \o behind)[k] =
               IF k <= Len(before) THEN before[k] ELSE behind[k - Len(before)]
    BY <1>1, <1>2, ConcatProperties
  <1>5. Len(before) + Len(behind) = Len(list) - 1
    BY <1>1, <1>2
  <1>6. ASSUME NEW k \in 1..(Len(list) - 1)
        PROVE  RemoveAt(list, i)[k] = IF k < i THEN list[k] ELSE list[k + 1]
    <2>1. CASE k < i
      <3>1. k \in 1..(i - 1) /\ k <= Len(before)
        BY <1>1, <2>1
      <3>. QED
        BY <1>1, <1>3, <1>4, <1>5, <2>1, <3>1
    <2>2. CASE ~(k < i)
      <3>1. /\ k - (i - 1) \in 1..(Len(list) - i) /\ ~(k <= Len(before))
            /\ i + (k - (i - 1)) = k + 1
        BY <1>1, <2>2
      <3>2. RemoveAt(list, i)[k] = behind[k - (i - 1)]
        BY <1>1, <1>3, <1>4, <1>5, <3>1
      <3>. QED
        BY <1>2, <2>2, <3>1, <3>2
    <2>. QED
      BY <2>1, <2>2
  <1>. QED
    BY <1>3, <1>4, <1>5, <1>6

LEMMA PushFrontIs ==
  ASSUME NEW S, NEW list \in Seq(S), NEW item \in S
  PROVE  /\ PushFront(list, item) \in Seq(S)
         /\ Len(PushFront(list, item)) = Len(list) + 1
         /\ PushFront(list, item)[1] = item
         /\ \A k \in 1..Len(list) : PushFront(list, item)[k + 1] = list[k]
  <1>. DEFINE whole == Append(list, item)
              n == Len(list)
              first == SubSeq(whole, n + 1, n + 1)
              others == SubSeq(whole, 1, n)
  <1>1. /\ n \in Nat /\ whole \in Seq(S) /\ Len(whole) = n + 1
        /\ \A k \in 1..n : whole[k] = list[k]
        /\ whole[n + 1] = item
    BY AppendProperties
  <1>2. PushFront(list, item) = first \o others
    <2>1. Len(whole) - 1 = n /\ Len(whole) = n + 1
      BY <1>1
    <2>. QED
      BY <2>1 DEF PushFront
  <1>. HIDE DEF whole
  <1>3. first \in Seq(S) /\ Len(first) = 1 /\ first[1] = item
    <2>1. n + 1 \in Int /\ \A k \in (n + 1)..(n + 1) : whole[k] \in S
      BY <1>1
    <2>2. (n + 1) - (n + 1) + 1 = 1 /\ (n + 1) + 1 - 1 = n + 1 /\ 1 \in 1..1
      BY <1>1
    <2>. QED
      BY <1>1, <2>1, <2>2, SubSeqProperties
  <1>4. others \in Seq(S) /\ Len(others) = n /\ \A k \in 1..n : others[k] = list[k]
    <2>1. {1, n} \subseteq Int /\ \A k \in 1..n : whole[k] \in S
      BY <1>1
    <2>2. (IF 1 <= n THEN n - 1 + 1 ELSE 0) = n /\ n - 1 + 1 = n
          /\ \A k \in Int : 1 + k - 1 = k
      BY <1>1
    <2>. QED
      BY <1>1, <2>1, <2>2, SubSeqProperties
  <1>. HIDE DEF first, others
  <1>5. /\ first \o others \in Seq(S)
        /\ Len(first \o others) = Len(first) + Len(others)
        /\ \A k \in 1..(Len(first) + Len(others)) :
             (first \o others)[k] =
               IF k <= Len(first) THEN first[k] ELSE others[k - Len(first)]
    <2>1. first \in Seq(S) /\ others \in Seq(S)
      BY <1>3, <1>4
    <2>. QED
      BY <2>1, ConcatProperties
  <1>6. 1 \in 1..(1 + n) /\ \A k \in 1..n : k + 1 \in 1..(1 + n) /\ ~(k + 1 <= 1) /\ (k + 1) - 1 = k
    BY <1>1
  <1>. QED
    BY <1>1, <1>2, <1>3, <1>4, <1>5, <1>6

-----------------------------------------------------------------------------
(* What the operations do to the item of one name and to the others.       *)

\* f takes the positions of the items of other names than n to where they were.
Moved(new, old, n, f) ==
  /\ \A k \in DOMAIN new :
       new[k].name # n => f[k] \in DOMAIN old /\ new[k] = old[f[k]]
  /\ \A k, l \in DOMAIN new :
       new[k].name # n /\ new[l].name # n /\ k < l => f[k] < f[l]
  /\ \A l \in DOMAIN old :
       old[l].name # n => \E k \in DOMAIN new : f[k] = l /\ new[k] = old[l]

\* Of the name n there is the item, or none; there may be more of a name that the
\* defaults have pushed, and those were there.
Only(new, old, n, item) ==
  /\ n \notin Pushed =>
       \A k, l \in DOMAIN new : new[k].name = n /\ new[l].name = n => k = l
  /\ \A k \in DOMAIN new : new[k].name = n =>
       \/ new[k] = item
       \/ n \in Pushed /\ \E l \in DOMAIN old : new[k] = old[l]

\* new is a list that differs from old in the item of that name.
Changed(new, old, n, item) == /\ new \in Seq(Items)
                              /\ Apart(new)
                              /\ SameOthers(new, old, n)
                              /\ Only(new, old, n, item)

Others(list, n) == {i \in DOMAIN list : list[i].name # n}

\* SameOthers, unfolded.
LEMMA SameOthersIs ==
  ASSUME NEW new, NEW old, NEW n
  PROVE  SameOthers(new, old, n) <=>
           \E f \in [Others(new, n) -> Others(old, n)] :
             /\ \A k \in Others(old, n) : \E i \in Others(new, n) : f[i] = k
             /\ \A i \in Others(new, n) : new[i] = old[f[i]]
             /\ \A i, j \in Others(new, n) : i < j => f[i] < f[j]
  BY DEF SameOthers, Surjection, Others

\* Everything of another name was there, and is still there.
LEMMA OthersWereThere ==
  ASSUME NEW new, NEW old, NEW n, SameOthers(new, old, n)
  PROVE  /\ \A j \in DOMAIN new : new[j].name # n => \E k \in DOMAIN old : new[j] = old[k]
         /\ \A k \in DOMAIN old : old[k].name # n => \E j \in DOMAIN new : new[j] = old[k]
  <1>1. PICK f \in [Others(new, n) -> Others(old, n)] :
             /\ \A k \in Others(old, n) : \E i \in Others(new, n) : f[i] = k
             /\ \A i \in Others(new, n) : new[i] = old[f[i]]
    BY SameOthersIs
  <1>. QED
    BY <1>1 DEF Others

LEMMA ChangedByMoving ==
  ASSUME NEW new \in Seq(Items), NEW old \in Seq(Items), NEW n, NEW item, NEW f,
         Apart(old), Moved(new, old, n, f), Only(new, old, n, item)
  PROVE  Changed(new, old, n, item)
  <1>1. DOMAIN new \subseteq Nat /\ DOMAIN old \subseteq Nat
    OBVIOUS
  <1>2. ASSUME NEW k \in DOMAIN new, NEW l \in DOMAIN new, new[k].name = new[l].name,
               new[k].name \notin Pushed
        PROVE  k = l
    <2>1. CASE new[k].name = n
      BY <1>2, <2>1 DEF Only
    <2>2. CASE new[k].name # n
      <3>1. /\ f[k] \in DOMAIN old /\ new[k] = old[f[k]]
            /\ f[l] \in DOMAIN old /\ new[l] = old[f[l]]
        BY <1>2, <2>2 DEF Moved
      <3>2. f[k] = f[l]
        BY <1>2, <3>1 DEF Apart
      <3>3. ~(k < l) /\ ~(l < k)
        BY <1>1, <1>2, <2>2, <3>1, <3>2 DEF Moved
      <3>. QED
        BY <1>1, <3>3
    <2>. QED
      BY <2>1, <2>2
  <1>. DEFINE g == [k \in Others(new, n) |-> f[k]]
  <1>3. /\ \A k \in Others(new, n) : f[k] \in Others(old, n) /\ new[k] = old[f[k]]
        /\ \A k, l \in Others(new, n) : k < l => f[k] < f[l]
        /\ \A l \in Others(old, n) : \E k \in Others(new, n) : f[k] = l
    BY DEF Moved, Others
  <1>4. g \in [Others(new, n) -> Others(old, n)] /\ \A k \in Others(new, n) : g[k] = f[k]
    BY <1>3
  <1>. HIDE DEF g
  <1>5. SameOthers(new, old, n)
    BY <1>3, <1>4, SameOthersIs
  <1>. QED
    BY <1>2, <1>5 DEF Changed, Apart

\* Changes of the item of one name add up to one.
LEMMA ChangedTwice ==
  ASSUME NEW new, NEW mid, NEW old, NEW n, NEW item,
         Changed(new, mid, n, item), Changed(mid, old, n, item)
  PROVE  Changed(new, old, n, item)
  <1>1. PICK f \in [Others(new, n) -> Others(mid, n)] :
             /\ \A k \in Others(mid, n) : \E i \in Others(new, n) : f[i] = k
             /\ \A i \in Others(new, n) : new[i] = mid[f[i]]
             /\ \A i, j \in Others(new, n) : i < j => f[i] < f[j]
    BY SameOthersIs DEF Changed
  <1>2. PICK g \in [Others(mid, n) -> Others(old, n)] :
             /\ \A k \in Others(old, n) : \E i \in Others(mid, n) : g[i] = k
             /\ \A i \in Others(mid, n) : mid[i] = old[g[i]]
             /\ \A i, j \in Others(mid, n) : i < j => g[i] < g[j]
    BY SameOthersIs DEF Changed
  <1>. DEFINE h == [i \in Others(new, n) |-> g[f[i]]]
  <1>3. h \in [Others(new, n) -> Others(old, n)] /\ \A i \in Others(new, n) : h[i] = g[f[i]]
    BY <1>1, <1>2
  <1>. HIDE DEF h
  <1>4. \A k \in Others(old, n) : \E i \in Others(new, n) : h[i] = k
    BY <1>1, <1>2, <1>3
  <1>5. \A i \in Others(new, n) : new[i] = old[h[i]]
    BY <1>1, <1>2, <1>3
  <1>6. \A i, j \in Others(new, n) : i < j => h[i] < h[j]
    BY <1>1, <1>2, <1>3
  <1>7. SameOthers(new, old, n)
    BY <1>3, <1>4, <1>5, <1>6, SameOthersIs
  <1>8. Only(new, old, n, item)
    <2>1. ASSUME NEW k \in DOMAIN new, new[k].name = n, new[k] # item
          PROVE  n \in Pushed /\ \E l \in DOMAIN old : new[k] = old[l]
      <3>1. n \in Pushed /\ \E l \in DOMAIN mid : new[k] = mid[l]
        BY <2>1 DEF Changed, Only
      <3>. QED
        BY <2>1, <3>1 DEF Changed, Only
    <2>. QED
      BY <2>1 DEF Changed, Only
  <1>. QED
    BY <1>7, <1>8 DEF Changed

LEMMA SameItself ==
  ASSUME NEW list, NEW n
  PROVE  SameOthers(list, list, n)
  <1>. DEFINE f == [i \in Others(list, n) |-> i]
  <1>1. /\ f \in [Others(list, n) -> Others(list, n)]
        /\ \A i \in Others(list, n) : f[i] = i
    OBVIOUS
  <1>. HIDE DEF f
  <1>. QED
    BY <1>1, SameOthersIs

LEMMA AppendChanges ==
  ASSUME NEW list \in Seq(Items), NEW item \in Items,
         Apart(list), item.name \notin NamesOf(list) \/ item.name \in Pushed
  PROVE  /\ Changed(Append(list, item), list, item.name, item)
         /\ NamesOf(Append(list, item)) = NamesOf(list) \cup {item.name}
  <1>. DEFINE new == Append(list, item)
              f == [k \in DOMAIN new |-> k]
  <1>1. /\ Len(list) \in Nat /\ DOMAIN list = 1..Len(list)
        /\ new \in Seq(Items) /\ DOMAIN new = 1..(Len(list) + 1)
        /\ \A k \in 1..Len(list) : new[k] = list[k]
        /\ new[Len(list) + 1] = item
        /\ item.name \in Pushed \/ \A k \in 1..Len(list) : list[k].name # item.name
    BY AppendProperties DEF NamesOf
  <1>2. \A k \in DOMAIN new : \/ k \in 1..Len(list) /\ k \in DOMAIN list /\ new[k] = list[k]
                              \/ k = Len(list) + 1 /\ new[k] = item
    BY <1>1
  <1>3. 1..Len(list) \subseteq DOMAIN new /\ Len(list) + 1 \in DOMAIN new
    BY <1>1
  <1>. HIDE DEF new
  <1>4. Moved(new, list, item.name, f)
    BY <1>1, <1>2, <1>3 DEF Moved
  <1>5. Only(new, list, item.name, item)
    BY <1>1, <1>2 DEF Only
  <1>. HIDE DEF f
  <1>6. Changed(new, list, item.name, item)
    BY <1>1, <1>4, <1>5, ChangedByMoving
  <1>7. NamesOf(new) = NamesOf(list) \cup {item.name}
    BY <1>1, <1>2, <1>3 DEF NamesOf
  <1>. QED
    BY <1>6, <1>7 DEF new

LEMMA PushFrontChanges ==
  ASSUME NEW list \in Seq(Items), NEW item \in Items,
         Apart(list), item.name \notin NamesOf(list) \/ item.name \in Pushed
  PROVE  Changed(PushFront(list, item), list, item.name, item)
  <1>. DEFINE new == PushFront(list, item)
              f == [k \in DOMAIN new |-> k - 1]
  <1>1. /\ Len(list) \in Nat /\ DOMAIN list = 1..Len(list)
        /\ new \in Seq(Items) /\ DOMAIN new = 1..(Len(list) + 1)
        /\ \A k \in 1..Len(list) : new[k + 1] = list[k]
        /\ new[1] = item
        /\ item.name \in Pushed \/ \A k \in 1..Len(list) : list[k].name # item.name
    <2>1. /\ new \in Seq(Items) /\ Len(new) = Len(list) + 1 /\ new[1] = item
          /\ \A k \in 1..Len(list) : new[k + 1] = list[k]
      BY PushFrontIs
    <2>. HIDE DEF new
    <2>2. item.name \in Pushed \/ \A k \in 1..Len(list) : list[k].name # item.name
      BY DEF NamesOf
    <2>. QED
      BY <2>1, <2>2
  <1>2. \A k \in DOMAIN new : \/ k = 1 /\ new[k] = item
                              \/ /\ k - 1 \in DOMAIN list /\ f[k] = k - 1
                                 /\ new[k] = list[k - 1]
    <2>1. ASSUME NEW k \in DOMAIN new, k # 1
          PROVE  k - 1 \in 1..Len(list) /\ (k - 1) + 1 = k
      BY <1>1, <2>1
    <2>. QED
      BY <1>1, <2>1
  <1>3. \A l \in 1..Len(list) : l + 1 \in DOMAIN new /\ f[l + 1] = l
    BY <1>1
  <1>4. DOMAIN new \subseteq Int
    BY <1>1
  <1>. HIDE DEF new, f
  <1>5. Moved(new, list, item.name, f)
    <2>1. \A k \in DOMAIN new :
            new[k].name # item.name => f[k] \in DOMAIN list /\ new[k] = list[f[k]]
      BY <1>1, <1>2
    <2>2. \A k, l \in DOMAIN new :
            new[k].name # item.name /\ new[l].name # item.name /\ k < l => f[k] < f[l]
      BY <1>2, <1>4
    <2>3. \A l \in DOMAIN list :
            list[l].name # item.name => \E k \in DOMAIN new : f[k] = l /\ new[k] = list[l]
      BY <1>1, <1>3
    <2>. QED
      BY <2>1, <2>2, <2>3 DEF Moved
  <1>6. Only(new, list, item.name, item)
    BY <1>1, <1>2 DEF Only
  <1>7. Changed(new, list, item.name, item)
    BY <1>1, <1>5, <1>6, ChangedByMoving
  <1>. QED
    BY <1>7 DEF new

LEMMA ReplaceChanges ==
  ASSUME NEW list \in Seq(Items), NEW i \in 1..Len(list), NEW item \in Items,
         Apart(list), item.name = list[i].name
  PROVE  /\ Changed(ReplaceAt(list, i, item), list, item.name, item)
         /\ NamesOf(ReplaceAt(list, i, item)) = NamesOf(list)
  <1>. DEFINE new == ReplaceAt(list, i, item)
              f == [k \in DOMAIN new |-> k]
  <1>1. /\ new \in Seq(Items) /\ DOMAIN new = 1..Len(list) /\ DOMAIN list = 1..Len(list)
        /\ new[i] = item
        /\ \A k \in 1..Len(list) : k # i => new[k] = list[k]
    BY ReplaceAtIs
  <1>2. item.name \in Pushed \/ \A k \in 1..Len(list) : list[k].name = item.name => k = i
    BY DEF Apart
  <1>. HIDE DEF new
  <1>3. Moved(new, list, item.name, f)
    BY <1>1 DEF Moved
  <1>4. Only(new, list, item.name, item)
    BY <1>1, <1>2 DEF Only
  <1>. HIDE DEF f
  <1>5. Changed(new, list, item.name, item)
    BY <1>1, <1>3, <1>4, ChangedByMoving
  <1>6. NamesOf(new) = NamesOf(list)
    BY <1>1 DEF NamesOf
  <1>. QED
    BY <1>5, <1>6 DEF new

LEMMA RemoveChanges ==
  ASSUME NEW list \in Seq(Items), NEW i \in 1..Len(list), NEW item,
         Apart(list)
  PROVE  /\ Changed(RemoveAt(list, i), list, list[i].name, item)
         /\ \/ list[i].name \notin NamesOf(RemoveAt(list, i))
            \/ list[i].name \in Pushed
  <1>. DEFINE n == list[i].name
              new == RemoveAt(list, i)
              f == [k \in DOMAIN new |-> IF k < i THEN k ELSE k + 1]
  <1>1. /\ Len(list) \in Nat /\ i \in 1..Len(list) /\ DOMAIN list = 1..Len(list)
        /\ new \in Seq(Items) /\ DOMAIN new = 1..(Len(list) - 1)
        /\ \A k \in 1..(Len(list) - 1) : new[k] = IF k < i THEN list[k] ELSE list[k + 1]
    <2>1. /\ new \in Seq(Items) /\ Len(new) = Len(list) - 1
          /\ \A k \in 1..(Len(list) - 1) : new[k] = IF k < i THEN list[k] ELSE list[k + 1]
      BY RemoveAtIs
    <2>. HIDE DEF new
    <2>. QED
      BY <2>1
  <1>2. n \in Pushed \/ \A k \in 1..Len(list) : list[k].name = n => k = i
    BY DEF Apart
  <1>. HIDE DEF new
  <1>3. \A k \in DOMAIN new : /\ k \in Int
                              /\ f[k] \in 1..Len(list) /\ f[k] # i
                              /\ f[k] = IF k < i THEN k ELSE k + 1
                              /\ new[k] = list[f[k]]
    BY <1>1
  <1>4. \A k, l \in DOMAIN new : k < l => f[k] < f[l]
    BY <1>1, <1>3
  <1>5. ASSUME NEW l \in 1..Len(list), l # i
        PROVE  \E k \in DOMAIN new : f[k] = l /\ new[k] = list[l]
    <2>1. CASE l < i
      <3>1. l \in DOMAIN new /\ f[l] = l
        BY <1>1, <2>1
      <3>. QED
        BY <1>3, <3>1
    <2>2. CASE ~(l < i)
      <3>1. l - 1 \in DOMAIN new /\ f[l - 1] = l
        BY <1>1, <1>5, <2>2
      <3>. QED
        BY <1>3, <3>1
    <2>. QED
      BY <2>1, <2>2
  <1>. HIDE DEF f
  <1>6. n \in Pushed \/ \A k \in DOMAIN new : new[k].name # n
    BY <1>2, <1>3
  <1>. HIDE DEF n
  <1>7. Moved(new, list, n, f)
    <2>1. \A l \in DOMAIN list : list[l].name # n => l # i
      BY DEF n
    <2>. QED
      BY <1>1, <1>3, <1>4, <1>5, <2>1 DEF Moved
  <1>8. Only(new, list, n, item)
    BY <1>1, <1>3, <1>6 DEF Only
  <1>9. Changed(new, list, n, item)
    BY <1>1, <1>7, <1>8, ChangedByMoving
  <1>10. n \notin NamesOf(new) \/ n \in Pushed
    BY <1>6 DEF NamesOf
  <1>. QED
    BY <1>9, <1>10 DEF new, n

\* Names other than that of the changed item stay, and none is added.
LEMMA OtherNamesStay ==
  ASSUME NEW new, NEW old, NEW n, NEW item, Changed(new, old, n, item)
  PROVE  \A m : m # n => (m \in NamesOf(new) <=> m \in NamesOf(old))
  <1>1. /\ \A j \in DOMAIN new : new[j].name # n => \E k \in DOMAIN old : new[j] = old[k]
        /\ \A k \in DOMAIN old : old[k].name # n => \E j \in DOMAIN new : new[j] = old[k]
    BY OthersWereThere DEF Changed
  <1>. QED
    BY <1>1 DEF NamesOf

-----------------------------------------------------------------------------
(* Sources of fields.                                                      *)

\* The last source that may have set a field.
Newest == [merge |-> 2, prune |-> 2, reflect |-> 2, defaults |-> 3, before |-> 4,
           external |-> 5, user |-> 6, after |-> 7, done |-> 7]

FieldsUpTo(rank, list) ==
  \A i \in DOMAIN list : \A f \in Fields : list[i].fields[f] <= rank

\* An item that may take the place of the one of its name.
MayReplace(item, list, rank) ==
  /\ \A f \in Fields : item.fields[f] <= rank
  /\ item.name \notin Pushed =>
       \A i \in DOMAIN list : \A f \in Fields :
         list[i].name = item.name /\ item.fields[f] # Unset
         => list[i].fields[f] <= item.fields[f]

\* What LaterSourceWins says of a step.
Wins(new, old) ==
  \A i \in DOMAIN old, j \in DOMAIN new : \A f \in Fields :
    /\ old[i].name = new[j].name
    /\ old[i].name \notin Pushed
    /\ new[j].fields[f] # Unset
    => old[i].fields[f] <= new[j].fields[f]

LEMMA ChangeWins ==
  ASSUME NEW new, NEW old \in Seq(Items), NEW item \in Items, NEW rank \in Values,
         Apart(old), FieldsUpTo(rank, old), MayReplace(item, old, rank),
         Changed(new, old, item.name, item)
  PROVE  Wins(new, old) /\ FieldsUpTo(rank, new)
  <1>. DEFINE n == item.name
  <1>1. SameOthers(new, old, item.name)
    BY DEF Changed
  <1>2. \A j \in DOMAIN new : new[j].name # n => \E k \in DOMAIN old : new[j] = old[k]
    BY <1>1, OthersWereThere
  <1>3. \A j \in DOMAIN new : new[j].name = n =>
          new[j] = item \/ (n \in Pushed /\ \E k \in DOMAIN old : new[j] = old[k])
    BY DEF Changed, Only
  <1>4. \A i \in DOMAIN old : \A f \in Fields : old[i].fields[f] \in Values
    <2>1. \A i \in DOMAIN old : old[i] \in Items
      OBVIOUS
    <2>2. \A x \in Items : \A f \in Fields : x.fields[f] \in Values
      BY DEF Items
    <2>. QED
      BY <2>1, <2>2
  <1>5. ASSUME NEW i \in DOMAIN old, NEW j \in DOMAIN new, NEW f \in Fields,
               old[i].name = new[j].name, old[i].name \notin Pushed,
               new[j].fields[f] # Unset
        PROVE  old[i].fields[f] <= new[j].fields[f]
    <2>1. CASE new[j].name = n
      BY <1>3, <1>5, <2>1 DEF MayReplace
    <2>2. CASE new[j].name # n
      <3>1. PICK k \in DOMAIN old : new[j] = old[k]
        BY <1>2, <2>2
      <3>2. k = i
        BY <1>5, <3>1 DEF Apart
      <3>. QED
        BY <1>4, <3>1, <3>2 DEF Values
    <2>. QED
      BY <2>1, <2>2
  <1>6. ASSUME NEW j \in DOMAIN new, NEW f \in Fields
        PROVE  new[j].fields[f] <= rank
    BY <1>2, <1>3 DEF MayReplace, FieldsUpTo
  <1>. QED
    BY <1>5, <1>6 DEF Wins, FieldsUpTo

LEMMA ItemsOfRank ==
  ASSUME NEW rank \in Values, NEW item \in ItemsOf(rank)
  PROVE  /\ item \in Items
         /\ \A f \in Fields : item.fields[f] \in {Unset, rank}
  BY DEF ItemsOf, Item, Items, Values, Unset

LEMMA MergedItem ==
  ASSUME NEW item \in Items, NEW other \in Items
  PROVE  /\ MergeMapNode(item, other) \in Items
         /\ MergeMapNode(item, other).name = item.name
         /\ \A f \in Fields :
              MergeMapNode(item, other).fields[f] =
                IF other.fields[f] = Unset THEN item.fields[f] ELSE other.fields[f]
  BY DEF MergeMapNode, Items

\* An item of one source may take the place of an item no later source has set,
\* and so may the two merged.
LEMMA ItemMayReplace ==
  ASSUME NEW rank \in Values, NEW list \in Seq(Items), NEW item \in ItemsOf(rank),
         FieldsUpTo(rank, list)
  PROVE  MayReplace(item, list, rank)
  BY ItemsOfRank DEF MayReplace, FieldsUpTo, Values, Unset

LEMMA MergedMayReplace ==
  ASSUME NEW rank \in Values, NEW list \in Seq(Items), NEW item \in ItemsOf(rank),
         NEW i \in DOMAIN list, Apart(list), FieldsUpTo(rank, list)
  PROVE  MayReplace(MergeMapNode(list[i], item), list, rank)
  <1>. DEFINE new == MergeMapNode(list[i], item)
  <1>1. item \in Items /\ \A f \in Fields : item.fields[f] \in {Unset, rank}
    BY ItemsOfRank
  <1>2. list[i] \in Items /\ \A f \in Fields : list[i].fields[f] \in Values
    <2>1. list[i] \in Items
      OBVIOUS
    <2>. QED
      BY <2>1 DEF Items
  <1>3. /\ new.name = list[i].name
        /\ \A f \in Fields : new.fields[f] =
             IF item.fields[f] = Unset THEN list[i].fields[f] ELSE item.fields[f]
    BY <1>1, <1>2, MergedItem
  <1>. HIDE DEF new
  <1>4. \A f \in Fields : new.fields[f] <= rank /\ list[i].fields[f] <= rank
    BY <1>1, <1>3 DEF FieldsUpTo, Values
  <1>5. ASSUME NEW k \in DOMAIN list, NEW f \in Fields, list[k].name = new.name,
               new.name \notin Pushed
        PROVE  list[k].fields[f] <= new.fields[f] \/ new.fields[f] = Unset
    <2>1. k = i
      BY <1>3, <1>5 DEF Apart
    <2>. QED
      BY <1>1, <1>2, <1>3, <1>4, <2>1 DEF Values
  <1>. QED
    BY <1>4, <1>5 DEF MayReplace, new

\* An item that is taken away and added again elsewhere.
LEMMA MoveChanges ==
  ASSUME NEW list \in Seq(Items), NEW i \in 1..Len(list), NEW item \in Items,
         Apart(list), item.name = list[i].name
  PROVE  /\ Changed(PushFront(RemoveAt(list, i), item), list, item.name, item)
         /\ Changed(Append(RemoveAt(list, i), item), list, item.name, item)
  <1>. DEFINE mid == RemoveAt(list, i)
  <1>1. /\ Changed(mid, list, item.name, item)
        /\ item.name \notin NamesOf(mid) \/ item.name \in Pushed
    BY RemoveChanges
  <1>. HIDE DEF mid
  <1>2. mid \in Seq(Items) /\ Apart(mid)
    BY <1>1 DEF Changed
  <1>3. /\ Changed(PushFront(mid, item), mid, item.name, item)
        /\ Changed(Append(mid, item), mid, item.name, item)
    BY <1>1, <1>2, PushFrontChanges, AppendChanges
  <1>4. /\ Changed(PushFront(mid, item), list, item.name, item)
        /\ Changed(Append(mid, item), list, item.name, item)
    BY <1>1, <1>3, ChangedTwice
  <1>. QED
    BY <1>4 DEF mid

-----------------------------------------------------------------------------
(* The invariant.                                                          *)

\* What of the external file has been merged is in the list.
Merging == stage = "merge" => \A k \in 1..(pos - 1) : ext[k].name \in NamesOf(res)

\* All of the external file is, and there is nothing else up to the position.
Pruning == stage = "prune" =>
             /\ NamesOf(ext) \subseteq NamesOf(res)
             /\ \A k \in 1..(pos - 1) : res[k].name \in NamesOf(ext)

ConfigInv == /\ TypeOK
             /\ UniqueNames
             /\ OnlyFrom(Rank.merge, ext)
             /\ FieldsUpTo(Newest[stage], res)
             /\ Merging
             /\ Pruning

\* What a step does to the list, unless it replaces it as a whole.
OneItemChanges ==
  \E item \in Items : /\ MayReplace(item, res, Newest[stage])
                      /\ Changed(res', res, item.name, item)

LEMMA NewestIs == ASSUME ConfigInv
                  PROVE  Newest[stage] \in Values /\ res \in Seq(Items) /\ Apart(res)
                         /\ FieldsUpTo(Newest[stage], res)
  BY DEF ConfigInv, TypeOK, UniqueNames, Newest, Values, Unset, Patching

LEMMA OneItemKeeps ==
  ASSUME ConfigInv, OneItemChanges
  PROVE  /\ res' \in Seq(Items) /\ Apart(res')
         /\ FieldsUpTo(Newest[stage], res')
         /\ Wins(res', res)
         /\ \E n \in Names : SameOthers(res', res, n)
  <1>1. PICK item \in Items : /\ MayReplace(item, res, Newest[stage])
                             /\ Changed(res', res, item.name, item)
    BY DEF OneItemChanges
  <1>2. Wins(res', res) /\ FieldsUpTo(Newest[stage], res')
    BY <1>1, NewestIs, ChangeWins
  <1>3. item.name \in Names
    BY DEF Items
  <1>. QED
    BY <1>1, <1>2, <1>3 DEF Changed

-----------------------------------------------------------------------------
(* What each action does to the list.                                      *)

LEMMA MergeEffect ==
  ASSUME ConfigInv, MergeItem
  PROVE  OneItemChanges /\ NamesOf(res') = NamesOf(res) \cup {ext[pos].name}
  <1>. DEFINE item == ext[pos]
              i == Find(res, item.name)
  <1>1. /\ stage = "merge" /\ Newest[stage] = Rank.merge /\ Rank.merge \in Values
        /\ item \in ItemsOf(Rank.merge)
        /\ res' = IF i = 0 THEN Append(res, item)
                  ELSE ReplaceAt(res, i, MergeMapNode(res[i], item))
    BY DEF MergeItem, ConfigInv, OnlyFrom, Newest, Rank, Values, Unset
  <1>. HIDE DEF item
  <1>2. item \in Items
    BY <1>1, ItemsOfRank
  <1>. HIDE DEF i
  <1>3. /\ i \in 0..Len(res)
        /\ i = 0 <=> item.name \notin NamesOf(res)
        /\ i # 0 => res[i].name = item.name
    BY NewestIs, FindIsThere DEF i
  <1>4. CASE i = 0
    <2>1. /\ Changed(res', res, item.name, item)
          /\ NamesOf(res') = NamesOf(res) \cup {item.name}
      BY <1>1, <1>2, <1>3, <1>4, NewestIs, AppendChanges
    <2>2. MayReplace(item, res, Newest[stage])
      BY <1>1, NewestIs, ItemMayReplace
    <2>. QED
      BY <1>2, <2>1, <2>2 DEF OneItemChanges, item
  <1>5. CASE i # 0
    <2>. DEFINE new == MergeMapNode(res[i], item)
    <2>1. i \in 1..Len(res) /\ i \in DOMAIN res /\ res[i] \in Items
      BY <1>3, <1>5, NewestIs
    <2>2. new \in Items /\ new.name = res[i].name /\ new.name = item.name
      BY <1>2, <1>3, <1>5, <2>1, MergedItem
    <2>3. MayReplace(new, res, Newest[stage])
      BY <1>1, <2>1, NewestIs, MergedMayReplace
    <2>. HIDE DEF new
    <2>4. Changed(res', res, new.name, new) /\ NamesOf(res') = NamesOf(res)
      <3>1. res' = ReplaceAt(res, i, new)
        BY <1>1, <1>5 DEF new
      <3>. QED
        BY <2>1, <2>2, <3>1, NewestIs, ReplaceChanges
    <2>. QED
      BY <1>3, <1>5, <2>2, <2>3, <2>4 DEF OneItemChanges, item
  <1>. QED
    BY <1>4, <1>5

LEMMA PruneEffect ==
  ASSUME ConfigInv, PruneItem, res[pos].name \notin NamesOf(ext)
  PROVE  /\ OneItemChanges
         /\ \A k \in 1..(pos - 1) : res'[k] = res[k]
         /\ \A n \in NamesOf(ext) : n \in NamesOf(res) => n \in NamesOf(res')
         /\ Len(res') = Len(res) - 1
  <1>1. res' = RemoveAt(res, pos) /\ pos \in 1..Len(res) /\ res[pos] \in Items
    BY NewestIs DEF PruneItem
  <1>2. Changed(res', res, res[pos].name, res[pos])
    BY <1>1, NewestIs, RemoveChanges
  <1>3. MayReplace(res[pos], res, Newest[stage])
    <2>1. \A f \in Fields : res[pos].fields[f] \in Values
      BY <1>1 DEF Items
    <2>. QED
      BY <1>1, <2>1, NewestIs DEF MayReplace, FieldsUpTo, Apart, Values
  <1>4. \A n \in NamesOf(ext) : n \in NamesOf(res) => n \in NamesOf(res')
    BY <1>2, OtherNamesStay
  <1>5. /\ Len(res') = Len(res) - 1
        /\ \A k \in 1..(Len(res) - 1) : res'[k] = IF k < pos THEN res[k] ELSE res[k + 1]
    BY <1>1, NewestIs, RemoveAtIs
  <1>6. \A k \in 1..(pos - 1) : res'[k] = res[k]
    BY <1>1, <1>5, NewestIs
  <1>. QED
    BY <1>1, <1>2, <1>3, <1>4, <1>5, <1>6 DEF OneItemChanges

LEMMA DefaultEffect ==
  ASSUME ConfigInv, InjectDefault
  PROVE  /\ stage = "defaults" /\ pos \in DOMAIN Defaults
         /\ UNCHANGED <<ext, stage, items>>
         /\ \/ pos' = pos + 1 /\ refused' = refused
            \/ pos' = pos /\ refused' = TRUE
         /\ res' = res \/ OneItemChanges
  <1>1. /\ stage = "defaults" /\ pos \in DOMAIN Defaults
        /\ UNCHANGED <<ext, stage, items>>
        /\ \/ pos' = pos + 1 /\ refused' = refused
           \/ pos' = pos /\ refused' = TRUE
    BY DEF InjectDefault, AddIfAbsent, AddAtBack, AddAtFront, VisitFirst, DefaultIsOff,
           RefuseDefault, NextDefault
  <1>2. /\ Defaults[pos].name \in Names /\ Defaults[pos].fields \in SUBSET Fields
        /\ Defaults[pos].how \in {"back", "front"} => Defaults[pos].name \in Pushed
    <2>1. Defaults[pos] \in [how : Ways, name : Names, fields : SUBSET Fields]
      BY <1>1, ConfigAssumption, ElementIs
    <2>2. Defaults[pos].how \in {"back", "front"} => Defaults[pos].name \in Pushed
      BY <1>1 DEF Pushed
    <2>. QED
      BY <2>1, <2>2
  <1>3. DefaultItem \in ItemsOf(Newest[stage]) /\ DefaultItem.name = Defaults[pos].name
    <2>1. Newest[stage] = 3 /\ Rank.defaults = 3
      BY <1>1 DEF Newest, Rank
    <2>2. DefaultItem \in ItemsOf(3)
      BY <1>2, <2>1 DEF DefaultItem, ItemsOf
    <2>3. DefaultItem.name = Defaults[pos].name
      BY DEF DefaultItem, Item
    <2>. QED
      BY <2>1, <2>2, <2>3
  <1>4. DefaultItem \in Items /\ MayReplace(DefaultItem, res, Newest[stage])
    BY <1>3, NewestIs, ItemsOfRank, ItemMayReplace
  <1>5. CASE AddIfAbsent
    <2>1. CASE DefaultItem.name \in NamesOf(res)
      BY <1>1, <1>5, <2>1 DEF AddIfAbsent
    <2>2. CASE DefaultItem.name \notin NamesOf(res)
      <3>1. Changed(res', res, DefaultItem.name, DefaultItem)
        BY <1>4, <1>5, <2>2, NewestIs, AppendChanges DEF AddIfAbsent
      <3>. QED
        BY <1>1, <1>4, <3>1 DEF OneItemChanges
    <2>. QED
      BY <2>1, <2>2
  <1>6. CASE AddAtBack
    <2>1. DefaultItem.name \in Pushed
      BY <1>2, <1>3, <1>6 DEF AddAtBack, NextDefault
    <2>2. Changed(res', res, DefaultItem.name, DefaultItem)
      BY <1>4, <1>6, <2>1, NewestIs, AppendChanges DEF AddAtBack
    <2>. QED
      BY <1>1, <1>4, <2>2 DEF OneItemChanges
  <1>7. CASE AddAtFront
    <2>1. DefaultItem.name \in Pushed
      BY <1>2, <1>3, <1>7 DEF AddAtFront, NextDefault
    <2>2. Changed(res', res, DefaultItem.name, DefaultItem)
      BY <1>4, <1>7, <2>1, NewestIs, PushFrontChanges DEF AddAtFront
    <2>. QED
      BY <1>1, <1>4, <2>2 DEF OneItemChanges
  <1>8. CASE VisitFirst
    <2>. DEFINE i == Find(res, DefaultItem.name)
                new == MergeMapNode(res[i], DefaultItem)
    <2>1. res' = IF i = 0 THEN res ELSE ReplaceAt(res, i, new)
      BY <1>8 DEF VisitFirst
    <2>2. i \in 0..Len(res) /\ (i # 0 => res[i].name = DefaultItem.name)
      BY NewestIs, FindIsThere
    <2>. HIDE DEF i
    <2>3. CASE i = 0
      BY <1>1, <2>1, <2>3
    <2>4. CASE i # 0
      <3>1. i \in 1..Len(res) /\ i \in DOMAIN res /\ res[i] \in Items
        BY <2>2, <2>4, NewestIs
      <3>2. new \in Items /\ new.name = res[i].name /\ MayReplace(new, res, Newest[stage])
        BY <1>3, <1>4, <3>1, NewestIs, MergedItem, MergedMayReplace
      <3>. HIDE DEF new
      <3>3. Changed(ReplaceAt(res, i, new), res, new.name, new)
        BY <3>1, <3>2, NewestIs, ReplaceChanges
      <3>. QED
        BY <1>1, <2>1, <2>4, <3>2, <3>3 DEF OneItemChanges
    <2>. QED
      BY <2>3, <2>4
  <1>9. CASE DefaultIsOff \/ RefuseDefault
    BY <1>1, <1>9 DEF DefaultIsOff, RefuseDefault
  <1>. QED
    BY <1>5, <1>6, <1>7, <1>8, <1>9 DEF InjectDefault

\* What holds when a patch of an item looks for its name.
LEMMA PatchSetting ==
  ASSUME ConfigInv, stage \in Patching, NEW item \in ItemsOf(CurrentRank)
  PROVE  /\ item \in ItemsOf(Newest[stage]) /\ item \in Items
         /\ MayReplace(item, res, Newest[stage])
         /\ Find(res, item.name) \in 0..Len(res)
         /\ Find(res, item.name) = 0 <=> item.name \notin NamesOf(res)
         /\ Find(res, item.name) # 0 => res[Find(res, item.name)].name = item.name
  <1>1. CurrentRank = Newest[stage]
    BY DEF CurrentRank, Newest, Rank, Patching
  <1>2. item \in Items /\ MayReplace(item, res, Newest[stage])
    BY <1>1, NewestIs, ItemsOfRank, ItemMayReplace
  <1>. QED
    BY <1>1, <1>2, NewestIs, FindIsThere

LEMMA MissingEffect ==
  ASSUME ConfigInv, NEW item \in ItemsOf(CurrentRank), NEW tag, PatchMissing(item, tag)
  PROVE  res' = res \/ OneItemChanges
  <1>1. /\ item \in Items /\ MayReplace(item, res, Newest[stage])
        /\ item.name \notin NamesOf(res)
    BY PatchSetting DEF PatchMissing, PatchItem
  <1>2. /\ Changed(PushFront(res, item), res, item.name, item)
        /\ Changed(Append(res, item), res, item.name, item)
    BY <1>1, NewestIs, PushFrontChanges, AppendChanges
  <1>3. res' = PushFront(res, item) \/ res' = Append(res, item) \/ res' = res
    BY DEF PatchMissing
  <1>. QED
    BY <1>1, <1>2, <1>3 DEF OneItemChanges

LEMMA OverrideEffect ==
  ASSUME ConfigInv, NEW item \in ItemsOf(CurrentRank), NEW tag, PatchOverride(item, tag)
  PROVE  OneItemChanges
  <1>. DEFINE i == Find(res, item.name)
              new == Overridden(res[i], item, tag)
  <1>1. /\ i # 0
        /\ \/ res' = ReplaceAt(res, i, new)
           \/ res' = PushFront(RemoveAt(res, i), new)
           \/ res' = Append(RemoveAt(res, i), new)
    BY DEF PatchOverride
  <1>2. /\ item \in ItemsOf(Newest[stage]) /\ item \in Items
        /\ MayReplace(item, res, Newest[stage])
        /\ i \in 0..Len(res) /\ (i # 0 => res[i].name = item.name)
    BY PatchSetting DEF PatchOverride, PatchItem
  <1>. HIDE DEF i
  <1>3. i \in 1..Len(res) /\ i \in DOMAIN res /\ res[i] \in Items /\ res[i].name = item.name
    BY <1>1, <1>2, NewestIs
  <1>4. new \in Items /\ new.name = res[i].name /\ MayReplace(new, res, Newest[stage])
    BY <1>2, <1>3, NewestIs, MergedItem, MergedMayReplace DEF Overridden
  <1>. HIDE DEF new
  <1>5. /\ Changed(ReplaceAt(res, i, new), res, new.name, new)
        /\ Changed(PushFront(RemoveAt(res, i), new), res, new.name, new)
        /\ Changed(Append(RemoveAt(res, i), new), res, new.name, new)
    BY <1>3, <1>4, NewestIs, ReplaceChanges, MoveChanges
  <1>. QED
    BY <1>1, <1>4, <1>5 DEF OneItemChanges

LEMMA DeleteEffect ==
  ASSUME ConfigInv, NEW item \in ItemsOf(CurrentRank), NEW tag, PatchDelete(item, tag)
  PROVE  OneItemChanges
  <1>. DEFINE i == Find(res, item.name)
  <1>1. i # 0 /\ res' = RemoveAt(res, i)
    BY DEF PatchDelete
  <1>2. /\ item \in Items /\ MayReplace(item, res, Newest[stage])
        /\ i \in 0..Len(res) /\ (i # 0 => res[i].name = item.name)
    BY PatchSetting DEF PatchDelete, PatchItem
  <1>. HIDE DEF i
  <1>3. i \in 1..Len(res) /\ res[i].name = item.name
    BY <1>1, <1>2, NewestIs
  <1>4. Changed(res', res, item.name, item)
    BY <1>1, <1>3, NewestIs, RemoveChanges
  <1>. QED
    BY <1>2, <1>4 DEF OneItemChanges

LEMMA MergePatchEffect ==
  ASSUME ConfigInv, NEW item \in ItemsOf(CurrentRank), NEW tag, PatchMerge(item, tag)
  PROVE  OneItemChanges
  <1>. DEFINE i == Find(res, item.name)
              new == MergeMapNode(res[i], item)
  <1>1. i # 0 /\ res' = ReplaceAt(res, i, new)
    BY DEF PatchMerge
  <1>2. /\ item \in ItemsOf(Newest[stage]) /\ item \in Items
        /\ i \in 0..Len(res) /\ (i # 0 => res[i].name = item.name)
    BY PatchSetting DEF PatchMerge, PatchItem
  <1>. HIDE DEF i
  <1>3. i \in 1..Len(res) /\ i \in DOMAIN res /\ res[i] \in Items
    BY <1>1, <1>2, NewestIs
  <1>4. new \in Items /\ new.name = res[i].name /\ MayReplace(new, res, Newest[stage])
    BY <1>2, <1>3, NewestIs, MergedItem, MergedMayReplace
  <1>. HIDE DEF new
  <1>5. Changed(ReplaceAt(res, i, new), res, new.name, new)
    BY <1>3, <1>4, NewestIs, ReplaceChanges
  <1>. QED
    BY <1>1, <1>4, <1>5 DEF OneItemChanges

\* A list that replaces the whole list.
LEMMA WholeListEffect ==
  ASSUME ConfigInv, stage \in Patching, NEW n \in Names,
         res' = <<Item(n, Fields, CurrentRank)>>
  PROVE  /\ res' \in Seq(Items) /\ Apart(res')
         /\ FieldsUpTo(Newest[stage], res')
         /\ Wins(res', res)
         /\ OnlyFrom(CurrentRank, res')
  <1>. DEFINE item == Item(n, Fields, CurrentRank)
  <1>1. CurrentRank = Newest[stage]
    BY DEF CurrentRank, Newest, Rank, Patching
  <1>2. item \in ItemsOf(CurrentRank)
    BY DEF ItemsOf
  <1>. HIDE DEF item
  <1>3. item \in Items /\ MayReplace(item, res, Newest[stage])
    BY <1>1, <1>2, NewestIs, ItemsOfRank, ItemMayReplace
  <1>4. res' = <<item>> /\ DOMAIN res' = {1} /\ res'[1] = item
    BY DEF item
  <1>. QED
    BY <1>1, <1>2, <1>3, <1>4 DEF MayReplace, FieldsUpTo, Wins, OnlyFrom, Apart

\* A step of a patch changes one item, or replaces the list, or changes nothing.
LEMMA PatchEffect ==
  ASSUME ConfigInv, Patch
  PROVE  /\ stage \in Patching
         /\ UNCHANGED <<ext, stage, pos>>
         /\ items' \in 0..MaxItems /\ refused' \in BOOLEAN
         /\ \/ res' = res
            \/ OneItemChanges
            \/ \E n \in Names : res' = <<Item(n, Fields, CurrentRank)>>
  <1>1. items \in 0..MaxItems /\ refused \in BOOLEAN /\ MaxItems \in Nat
    BY ConfigAssumption DEF ConfigInv, TypeOK
  <1>2. ASSUME NEW tag, PatchItem(tag)
        PROVE  stage \in Patching /\ UNCHANGED <<ext, stage, pos>> /\ items' \in 0..MaxItems
    BY <1>1, <1>2 DEF PatchItem
  <1>3. ASSUME NEW item \in ItemsOf(CurrentRank), NEW tag \in Tags,
               \/ PatchMissing(item, tag) \/ PatchOverride(item, tag)
               \/ PatchSkip(item, tag) \/ PatchDelete(item, tag) \/ PatchMerge(item, tag)
        PROVE  PatchItem(tag) /\ refused' = refused /\ (res' = res \/ OneItemChanges)
    <2>1. PatchItem(tag) /\ refused' = refused
      BY <1>3 DEF PatchMissing, PatchOverride, PatchSkip, PatchDelete, PatchMerge
    <2>2. CASE PatchMissing(item, tag)
      BY <2>1, <2>2, MissingEffect
    <2>3. CASE PatchOverride(item, tag)
      BY <2>1, <2>3, OverrideEffect
    <2>4. CASE PatchSkip(item, tag)
      BY <2>1, <2>4 DEF PatchSkip
    <2>5. CASE PatchDelete(item, tag)
      BY <2>1, <2>5, DeleteEffect
    <2>6. CASE PatchMerge(item, tag)
      BY <2>1, <2>6, MergePatchEffect
    <2>. QED
      BY <1>3, <2>2, <2>3, <2>4, <2>5, <2>6
  <1>4. ASSUME NEW item, NEW tag, PatchRefused(item, tag)
        PROVE  /\ stage \in Patching /\ UNCHANGED <<ext, stage, pos>>
               /\ items' = items /\ refused' = TRUE /\ res' = res
    BY <1>4 DEF PatchRefused
  <1>5. ASSUME NEW n \in Names, PatchWholeList(<<Item(n, Fields, CurrentRank)>>)
        PROVE  /\ PatchItem({}) /\ refused' = refused
               /\ res' = <<Item(n, Fields, CurrentRank)>>
    BY <1>5 DEF PatchWholeList
  <1>6. CASE \E item \in ItemsOf(CurrentRank), tag \in Tags : PatchRefused(item, tag)
    BY <1>1, <1>4, <1>6
  <1>7. CASE \E item \in ItemsOf(CurrentRank), tag \in Tags :
               \/ PatchMissing(item, tag) \/ PatchOverride(item, tag)
               \/ PatchSkip(item, tag) \/ PatchDelete(item, tag) \/ PatchMerge(item, tag)
    BY <1>1, <1>2, <1>3, <1>7
  <1>8. CASE \E n \in Names : PatchWholeList(<<Item(n, Fields, CurrentRank)>>)
    BY <1>1, <1>2, <1>5, <1>8
  <1>. QED
    BY <1>6, <1>7, <1>8 DEF Patch

-----------------------------------------------------------------------------
(* The invariant holds at first and is kept.                               *)

LEMMA ListsAre ==
  ASSUME NEW rank \in Values, NEW list \in Lists(rank)
  PROVE  list \in Seq(Items) /\ Apart(list) /\ OnlyFrom(rank, list)
  <1>1. Cardinality(Names) \in Nat
    BY ConfigAssumption, FS_CardinalityType
  <1>2. DistinctNames(list) /\ list \in Seq(ItemsOf(rank))
    BY <1>1 DEF Lists, BoundedSeq, SeqOf
  <1>3. \A i \in DOMAIN list : list[i] \in ItemsOf(rank) /\ list[i] \in Items
    BY <1>2, ItemsOfRank
  <1>. QED
    BY <1>2, <1>3 DEF OnlyFrom, DistinctNames, Apart

\* What one source may have set at most, so may a later one.
LEMMA FieldsUpToLater ==
  ASSUME NEW list \in Seq(Items), NEW rank \in Nat, NEW later \in Nat,
         rank <= later, FieldsUpTo(rank, list)
  PROVE  FieldsUpTo(later, list)
  <1>1. \A i \in DOMAIN list : list[i] \in Items
    OBVIOUS
  <1>2. \A i \in DOMAIN list : \A f \in Fields : list[i].fields[f] \in Nat
    BY <1>1 DEF Items, Values, Unset
  <1>. QED
    BY <1>2 DEF FieldsUpTo

LEMMA InitInv == ASSUME Init
                 PROVE  ConfigInv
  <1>1. /\ res \in Seq(Items) /\ Apart(res) /\ OnlyFrom(1, res)
        /\ ext \in Seq(Items) /\ OnlyFrom(2, ext)
    BY ListsAre DEF Init, Rank, Values, Unset
  <1>2. FieldsUpTo(Newest[stage], res)
    <2>1. \A i \in DOMAIN res : \A f \in Fields : res[i].fields[f] \in {0, 1}
      BY <1>1, ItemsOfRank DEF OnlyFrom, Values, Unset
    <2>2. Newest[stage] = 2
      BY DEF Init, Newest
    <2>. QED
      BY <2>1, <2>2 DEF FieldsUpTo
  <1>3. TypeOK
    <2>1. /\ stage \in {"merge", "reflect"} /\ pos = 1
          /\ items = 0 /\ refused = FALSE
      BY DEF Init
    <2>2. Len(ext) \in Nat /\ Len(Defaults) \in Nat /\ MaxItems \in Nat
      BY <1>1, ConfigAssumption
    <2>3. pos \in 1..1 + Len(CASE stage = "merge" -> ext
                              [] stage = "prune" -> res
                              [] OTHER           -> Defaults)
      <3>1. CASE stage = "merge"
        BY <2>1, <2>2, <3>1
      <3>2. CASE stage = "reflect"
        BY <2>1, <2>2, <3>2
      <3>. QED
        BY <2>1, <3>1, <3>2
    <2>4. items \in 0..MaxItems
      BY <2>1, <2>2
    <2>5. refused \in BOOLEAN
      BY <2>1
    <2>. QED
      BY <1>1, <2>1, <2>3, <2>4, <2>5 DEF TypeOK
  <1>. QED
    BY <1>1, <1>2, <1>3 DEF Init, ConfigInv, UniqueNames, Merging, Pruning, Rank

LEMMA StepInv == ASSUME ConfigInv, [Next]_vars
                 PROVE  ConfigInv'
  <1>1. CASE MergeItem
    <2>1. /\ res' \in Seq(Items) /\ Apart(res') /\ FieldsUpTo(Newest[stage], res')
          /\ NamesOf(res') = NamesOf(res) \cup {ext[pos].name}
      BY <1>1, MergeEffect, OneItemKeeps
    <2>2. /\ stage = "merge" /\ pos \in 1..Len(ext) /\ pos' = pos + 1
          /\ ext' = ext /\ stage' = stage /\ items' = items /\ refused' = refused
      BY <1>1 DEF MergeItem, ConfigInv, TypeOK
    <2>3. \A k \in 1..(pos' - 1) : ext[k].name \in NamesOf(res')
      <3>1. \A k \in 1..(pos' - 1) : k \in 1..(pos - 1) \/ k = pos
        BY <2>2
      <3>. QED
        BY <2>1, <2>2, <3>1 DEF ConfigInv, Merging
    <2>4. TypeOK'
      BY <2>1, <2>2 DEF ConfigInv, TypeOK
    <2>. QED
      BY <2>1, <2>2, <2>3, <2>4 DEF ConfigInv, UniqueNames, Merging, Pruning
  <1>2. CASE MergeEnd
    <2>1. /\ stage = "merge" /\ pos = Len(ext) + 1 /\ stage' = "prune" /\ pos' = 1
          /\ res' = res /\ ext' = ext /\ items' = items /\ refused' = refused
          /\ ext \in Seq(Items)
      BY <1>2 DEF MergeEnd, ConfigInv, TypeOK
    <2>2. NamesOf(ext) \subseteq NamesOf(res)
      <3>1. \A k \in DOMAIN ext : k \in 1..(pos - 1)
        BY <2>1
      <3>. QED
        BY <2>1, <3>1 DEF ConfigInv, Merging, NamesOf
    <2>3. TypeOK'
      BY <2>1 DEF ConfigInv, TypeOK
    <2>. QED
      BY <2>1, <2>2, <2>3 DEF ConfigInv, UniqueNames, Merging, Pruning, Newest
  <1>3. CASE PruneItem /\ res[pos].name \in NamesOf(ext)
    <2>1. /\ stage = "prune" /\ pos \in 1..Len(res) /\ pos' = pos + 1 /\ stage' = stage
          /\ res' = res /\ ext' = ext /\ items' = items /\ refused' = refused
      BY <1>3 DEF PruneItem, ConfigInv, TypeOK
    <2>2. \A k \in 1..(pos' - 1) : res[k].name \in NamesOf(ext)
      <3>1. \A k \in 1..(pos' - 1) : k \in 1..(pos - 1) \/ k = pos
        BY <2>1
      <3>. QED
        BY <1>3, <2>1, <3>1 DEF ConfigInv, Pruning
    <2>3. TypeOK'
      BY <2>1 DEF ConfigInv, TypeOK
    <2>. QED
      BY <2>1, <2>2, <2>3 DEF ConfigInv, UniqueNames, Merging, Pruning
  <1>4. CASE PruneItem /\ res[pos].name \notin NamesOf(ext)
    <2>1. /\ stage = "prune" /\ pos \in 1..Len(res) /\ pos' = pos /\ stage' = stage
          /\ ext' = ext /\ items' = items /\ refused' = refused
      BY <1>4 DEF PruneItem, ConfigInv, TypeOK
    <2>2. /\ OneItemChanges
          /\ \A k \in 1..(pos - 1) : res'[k] = res[k]
          /\ \A n \in NamesOf(ext) : n \in NamesOf(res) => n \in NamesOf(res')
          /\ Len(res') = Len(res) - 1
      BY <1>4, PruneEffect
    <2>3. res' \in Seq(Items) /\ Apart(res') /\ FieldsUpTo(Newest[stage], res')
      BY <2>2, OneItemKeeps
    <2>4. TypeOK'
      BY <2>1, <2>2, <2>3 DEF ConfigInv, TypeOK
    <2>5. Pruning'
      BY <2>1, <2>2 DEF ConfigInv, Pruning
    <2>. QED
      BY <2>1, <2>3, <2>4, <2>5 DEF ConfigInv, UniqueNames, Merging
  <1>5. CASE PruneEnd
    <2>1. /\ stage = "prune" /\ stage' = "reflect" /\ pos' = 1
          /\ res' = res /\ ext' = ext /\ items' = items /\ refused' = refused
      BY <1>5 DEF PruneEnd
    <2>2. TypeOK'
      BY <2>1, ConfigAssumption DEF ConfigInv, TypeOK
    <2>3. FieldsUpTo(Newest[stage'], res)
      <3>1. /\ Newest[stage] \in Nat /\ Newest[stage'] \in Nat
            /\ Newest[stage] <= Newest[stage']
        BY <2>1 DEF Newest
      <3>. QED
        BY <3>1, NewestIs, FieldsUpToLater
    <2>. QED
      BY <2>1, <2>2, <2>3 DEF ConfigInv, UniqueNames, Merging, Pruning
  <1>6. CASE InjectDefault
    <2>1. /\ stage = "defaults" /\ pos \in 1..Len(Defaults) /\ pos' \in {pos, pos + 1}
          /\ stage' = stage /\ ext' = ext /\ items' = items /\ refused' \in BOOLEAN
      <3>1. DOMAIN Defaults = 1..Len(Defaults)
        BY ConfigAssumption
      <3>2. refused \in BOOLEAN
        BY DEF ConfigInv, TypeOK
      <3>. QED
        BY <1>6, <3>1, <3>2, DefaultEffect
    <2>2. res' \in Seq(Items) /\ Apart(res') /\ FieldsUpTo(Newest[stage], res')
      BY <1>6, DefaultEffect, OneItemKeeps, NewestIs
    <2>3. TypeOK'
      BY <2>1, <2>2, ConfigAssumption DEF ConfigInv, TypeOK
    <2>. QED
      BY <2>1, <2>2, <2>3 DEF ConfigInv, UniqueNames, Merging, Pruning
  <1>7. CASE DefaultsEnd
    <2>1. /\ stage = "defaults" /\ stage' = "before" /\ pos' = pos
          /\ res' = res /\ ext' = ext /\ items' = items /\ refused' = refused
      BY <1>7 DEF DefaultsEnd
    <2>2. TypeOK'
      BY <2>1 DEF ConfigInv, TypeOK, Patching
    <2>3. FieldsUpTo(Newest[stage'], res)
      <3>1. /\ Newest[stage] \in Nat /\ Newest[stage'] \in Nat
            /\ Newest[stage] <= Newest[stage']
        BY <2>1 DEF Newest
      <3>. QED
        BY <3>1, NewestIs, FieldsUpToLater
    <2>. QED
      BY <2>1, <2>2, <2>3 DEF ConfigInv, UniqueNames, Merging, Pruning
  <1>8. CASE Patch
    <2>1. /\ stage \in Patching /\ stage' = stage /\ ext' = ext /\ pos' = pos
          /\ items' \in 0..MaxItems /\ refused' \in BOOLEAN
      BY <1>8, PatchEffect
    <2>2. res' \in Seq(Items) /\ Apart(res') /\ FieldsUpTo(Newest[stage], res')
      BY <1>8, PatchEffect, OneItemKeeps, NewestIs, WholeListEffect
    <2>3. TypeOK'
      BY <2>1, <2>2 DEF ConfigInv, TypeOK, Patching
    <2>. QED
      BY <2>1, <2>2, <2>3 DEF ConfigInv, UniqueNames, Merging, Pruning, Patching
  <1>9. CASE PatchEnd
    <2>1. /\ stage \in Patching /\ stage' = NextStage[stage] /\ pos' = pos
          /\ res' = res /\ ext' = ext /\ items' = items /\ refused' = refused
      BY <1>9 DEF PatchEnd
    <2>2. TypeOK'
      BY <2>1 DEF ConfigInv, TypeOK, Patching, NextStage
    <2>3. /\ Newest[stage] \in Nat /\ Newest[stage'] \in Nat
          /\ Newest[stage] <= Newest[stage']
      BY <2>1 DEF Patching, NextStage, Newest
    <2>4. FieldsUpTo(Newest[stage'], res)
      BY <2>3, NewestIs, FieldsUpToLater
    <2>. QED
      BY <2>1, <2>2, <2>4 DEF ConfigInv, UniqueNames, Merging, Pruning, Patching, NextStage
  <1>10. CASE Reflect
    <2>1. /\ stage = "reflect" /\ stage' \in {"reflect", "defaults"} /\ pos' = pos
          /\ res' = res /\ ext' = ext /\ items' = items /\ refused' \in BOOLEAN
      BY <1>10 DEF Reflect, ConfigInv, TypeOK
    <2>2. TypeOK'
      BY <2>1 DEF ConfigInv, TypeOK
    <2>3. FieldsUpTo(Newest[stage'], res)
      <3>1. /\ Newest[stage] \in Nat /\ Newest[stage'] \in Nat
            /\ Newest[stage] <= Newest[stage']
        BY <2>1 DEF Newest
      <3>. QED
        BY <3>1, NewestIs, FieldsUpToLater
    <2>. QED
      BY <2>1, <2>2, <2>3 DEF ConfigInv, UniqueNames, Merging, Pruning
  <1>11. CASE UNCHANGED vars
    BY <1>11 DEF vars, ConfigInv, TypeOK, UniqueNames, Merging, Pruning
  <1>. QED
    BY <1>1, <1>2, <1>3, <1>4, <1>5, <1>6, <1>7, <1>8, <1>9, <1>10, <1>11 DEF Next

-----------------------------------------------------------------------------
(* The theorems.                                                           *)

\* The invariant of DumpFile(), for any names, fields and patches.
THEOREM ConfigInvariant == Spec => []ConfigInv
  <1>. QED
    BY InitInv, StepInv, PTL DEF Spec

\* The loops of DumpFile() stay within their lists, though one removes from
\* the list it walks over.
THEOREM TypeCorrect == Spec => []TypeOK
  <1>1. ConfigInv => TypeOK
    BY DEF ConfigInv
  <1>. QED
    BY <1>1, ConfigInvariant, PTL

\* Merges, patches and the defaults that ask first make no second item of a name;
\* whatever has two is a name that another default has pushed.
THEOREM NamesStayUnique == Spec => []UniqueNames
  <1>1. ConfigInv => UniqueNames
    BY DEF ConfigInv
  <1>. QED
    BY <1>1, ConfigInvariant, PTL

\* MergeListNode() leaves exactly the items of the external file.
THEOREM ExternalFileDecides == Spec => ExternalDecides
  <1>1. ASSUME ConfigInv, [Next]_vars
        PROVE  [stage = "prune" /\ stage' = "reflect" => NamesOf(res) = NamesOf(ext)]_vars
    <2>. SUFFICES ASSUME stage = "prune", stage' = "reflect"
                  PROVE  NamesOf(res) = NamesOf(ext)
      OBVIOUS
    <2>1. PruneEnd
      <3>1. ~(stage \in Patching) /\ ~UNCHANGED vars
        BY DEF Patching, vars
      <3>2. ~Patch /\ ~InjectDefault
        BY <1>1, <3>1, PatchEffect, DefaultEffect
      <3>. QED
        BY <1>1, <3>1, <3>2
        DEF Next, MergeItem, MergeEnd, PruneItem, Reflect, DefaultsEnd, PatchEnd
    <2>2. pos = Len(res) + 1 /\ Len(res) \in Nat
      BY <1>1, <2>1 DEF ConfigInv, TypeOK, PruneEnd
    <2>3. \A k \in DOMAIN res : k \in 1..(pos - 1)
      BY <1>1, <2>2 DEF ConfigInv, TypeOK
    <2>. QED
      BY <1>1, <2>3 DEF ConfigInv, Pruning, NamesOf
  <1>. QED
    BY <1>1, ConfigInvariant, PTL DEF Spec, ExternalDecides

\* A patch of an item leaves the others as they are and in their order.
THEOREM PatchesAreLocal == Spec => PatchIsLocal
  <1>1. ASSUME ConfigInv, [Next]_vars
        PROVE  [CurrentRank # Unset => \/ \E n \in Names : SameOthers(res', res, n)
                                       \/ OnlyFrom(CurrentRank, res')]_vars
    <2>. SUFFICES ASSUME Next, CurrentRank # Unset
                  PROVE  \/ \E n \in Names : SameOthers(res', res, n)
                         \/ OnlyFrom(CurrentRank, res')
      BY <1>1
    <2>1. stage \in Patching
      BY DEF CurrentRank
    <2>2. CASE res' = res
      <3>1. CASE Names = {}
        <4>1. \A i \in DOMAIN res : res[i] \in Items
          BY <1>1, NewestIs
        <4>. QED
          BY <2>2, <3>1, <4>1 DEF OnlyFrom, Items
      <3>2. CASE Names # {}
        BY <1>1, <2>2, <3>2, NewestIs, SameItself
      <3>. QED
        BY <3>1, <3>2
    <2>3. CASE Patch
      BY <1>1, <2>1, <2>2, <2>3, PatchEffect, OneItemKeeps, WholeListEffect
    <2>4. ~InjectDefault
      BY <1>1, <2>1, DefaultEffect DEF Patching
    <2>. QED
      BY <2>1, <2>2, <2>3, <2>4
      DEF Next, MergeItem, MergeEnd, PruneItem, PruneEnd, Reflect, DefaultsEnd,
          PatchEnd, Patching
  <1>. QED
    BY <1>1, ConfigInvariant, PTL DEF Spec, PatchIsLocal

\* A field never goes back to the value of an earlier source, but for the names
\* that defaults push.
THEOREM LaterSourcesWin == Spec => LaterSourceWins
  <1>1. ASSUME ConfigInv, [Next]_vars
        PROVE  [Wins(res', res)]_vars
    <2>. SUFFICES ASSUME Next
                  PROVE  Wins(res', res)
      BY <1>1
    <2>1. CASE res' = res
      <3>1. res \in Seq(Items) /\ Apart(res)
        BY <1>1, NewestIs
      <3>2. \A i \in DOMAIN res : res[i] \in Items
        BY <3>1
      <3>3. \A i \in DOMAIN res : \A f \in Fields : res[i].fields[f] \in Nat
        BY <3>2 DEF Items, Values, Unset
      <3>. QED
        BY <2>1, <3>1, <3>3 DEF Wins, Apart
    <2>2. CASE MergeItem
      BY <1>1, <2>2, MergeEffect, OneItemKeeps
    <2>3. CASE PruneItem
      <3>1. CASE res[pos].name \in NamesOf(ext)
        BY <2>1, <2>3, <3>1 DEF PruneItem
      <3>2. CASE res[pos].name \notin NamesOf(ext)
        BY <1>1, <2>3, <3>2, PruneEffect, OneItemKeeps
      <3>. QED
        BY <3>1, <3>2
    <2>4. CASE InjectDefault
      BY <1>1, <2>1, <2>4, DefaultEffect, OneItemKeeps
    <2>5. CASE Patch
      BY <1>1, <2>1, <2>5, PatchEffect, OneItemKeeps, WholeListEffect
    <2>. QED
      BY <2>1, <2>2, <2>3, <2>4, <2>5
      DEF Next, MergeEnd, PruneEnd, Reflect, DefaultsEnd, PatchEnd
  <1>. QED
    BY <1>1, ConfigInvariant, PTL DEF Spec, LaterSourceWins, Wins
================================================================================
