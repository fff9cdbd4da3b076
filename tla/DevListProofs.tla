--------------------------- MODULE DevListProofs ---------------------------
(***************************************************************************)
(* What the operations on the list of devices keep, for every set of logos *)
(* and every heap: no logo and no address is in the list twice, only a     *)
(* mounted entry is valid (Good), a device that is mounted stays so unless *)
(* the operation is about it, and a lookup answers with an entry or NULL.  *)
(***************************************************************************)
EXTENDS DevList, TLAPS, WellFoundedInduction, FiniteSetTheorems

Distinct(m) == \A i, j \in Places(m) :
                 i # j => m.list[i].logo # m.list[j].logo /\ m.list[i].addr # m.list[j].addr
ValidIsUp(m) == \A i \in Places(m) : m.list[i].valid => m.list[i].mounted
Typed(m) == m \in [list: Seq(Entry), counter: Nat]
Good(m) == Typed(m) /\ Distinct(m) /\ ValidIsUp(m)

-----------------------------------------------------------------------------
(***************************************************************************)
(* A set of places with one member: the first match is that member.        *)
(***************************************************************************)
LEMMA LowestOfOne ==
  ASSUME NEW m, Typed(m), NEW S \in SUBSET Places(m), NEW i \in S, \A j \in S : j = i
  PROVE  Lowest(S) = i
<1>1. i \in Nat
  BY DEF Places, Typed, Entry
<1>2. \A j \in S : i <= j
  BY <1>1
<1>3. \A k \in S : (\A j \in S : k <= j) => k = i
  OBVIOUS
<1> QED BY <1>2, <1>3 DEF Lowest

\* The place of a logo, and the mounted place of an address, are unique.
LEMMA PlaceOfLogo ==
  ASSUME NEW m, Good(m), NEW l, NEW S \in SUBSET OfLogo(m, l), S # {}
  PROVE  Lowest(S) \in S /\ Lowest(S) \in Places(m) /\ m.list[Lowest(S)].logo = l
<1>1. PICK i \in S : TRUE
  OBVIOUS
<1>2. S \subseteq Places(m) /\ m.list[i].logo = l
  BY <1>1 DEF OfLogo
<1>3. \A j \in S : j = i
  BY <1>1 DEF OfLogo, Good, Distinct
<1>4. Lowest(S) = i
  BY <1>1, <1>2, <1>3, LowestOfOne DEF Good
<1> QED BY <1>1, <1>2, <1>4

LEMMA PlaceOfAddr ==
  ASSUME NEW m, Good(m), NEW a, Online(m, a)
  PROVE  /\ Lowest(SeenAt(m, a)) \in Places(m)
         /\ m.list[Lowest(SeenAt(m, a))].addr = a /\ m.list[Lowest(SeenAt(m, a))].mounted
<1>1. PICK i \in SeenAt(m, a) : TRUE
  BY DEF Online
<1>2. SeenAt(m, a) \subseteq Places(m) /\ m.list[i].addr = a /\ m.list[i].mounted
  BY <1>1 DEF SeenAt, Seen
<1>3. \A j \in SeenAt(m, a) : j = i
  BY <1>1 DEF SeenAt, Seen, Good, Distinct
<1>4. Lowest(SeenAt(m, a)) = i
  BY <1>1, <1>2, <1>3, LowestOfOne DEF Good
<1> QED BY <1>1, <1>2, <1>4

-----------------------------------------------------------------------------
(***************************************************************************)
(* Each hold of the mutex keeps a good list good.                          *)
(***************************************************************************)
LEMMA InsertGood ==
  ASSUME NEW m, Good(m), NEW l \in Logo, NEW a \in Addr, NEW up \in BOOLEAN,
         ~InList(m, l), a \notin Used(m)
  PROVE  Good(Insert(m, l, a, up))
<1> DEFINE e == [addr |-> a, logo |-> l, mounted |-> up, valid |-> up,
                 stamp |-> m.counter, life |-> m.counter]
           s == m.list
           t == Append(s, e)
           r == Insert(m, l, a, up)
<1>1. s \in Seq(Entry) /\ m.counter \in Nat
  BY DEF Good, Typed
<1>2. e \in Entry
  BY <1>1 DEF Entry
<1>3. t \in Seq(Entry) /\ Len(t) = Len(s) + 1 /\ DOMAIN t = 1..Len(t)
  BY <1>1, <1>2
<1>4. \A i \in 1..Len(s) : t[i] = s[i]
  BY <1>1, <1>2
<1>5. t[Len(s) + 1] = e
  BY <1>1, <1>2
<1>6. r = [list |-> t, counter |-> m.counter + 1]
  BY DEF Insert
<1>7. Places(r) = 1..(Len(s) + 1) /\ Places(m) = 1..Len(s) /\ Len(s) \in Nat
  BY <1>1, <1>3, <1>6 DEF Places
<1>8. \A i \in 1..Len(s) : s[i].logo # l /\ s[i].addr # a
  BY <1>7 DEF InList, OfLogo, Used
<1>9. e.logo = l /\ e.addr = a /\ (e.valid => e.mounted)
  OBVIOUS
<1> HIDE DEF e, t, r
<1>10. \A i \in 1..(Len(s) + 1) : i \in 1..Len(s) \/ i = Len(s) + 1
  BY <1>7
<1>11. Distinct(r)
  BY <1>4, <1>5, <1>6, <1>7, <1>8, <1>9, <1>10 DEF Good, Distinct
<1>12. ValidIsUp(r)
  BY <1>4, <1>5, <1>6, <1>7, <1>9, <1>10 DEF Good, ValidIsUp
<1> QED BY <1>1, <1>3, <1>6, <1>11, <1>12 DEF Good, Typed, r

LEMMA RemoveGood ==
  ASSUME NEW m, Good(m), NEW l
  PROVE  /\ Good(Remove(m, l))
         /\ \A k : ~InList(m, k) => ~InList(Remove(m, l), k)
         /\ Used(Remove(m, l)) \subseteq Used(m)
<1>0. CASE ~InList(m, l)
  BY <1>0 DEF Remove
<1>1. CASE InList(m, l)
  <2> DEFINE s == m.list
             k == Lowest(OfLogo(m, l))
             t == Without(s, k)
             r == Remove(m, l)
  <2>1. s \in Seq(Entry) /\ Len(s) \in Nat /\ Places(m) = 1..Len(s)
    BY DEF Good, Typed, Places
  <2>2. k \in 1..Len(s)
    BY <1>1, <2>1, PlaceOfLogo DEF InList
  <2>3. r = [list |-> t, counter |-> m.counter]
    BY <1>1 DEF Remove, Good, Typed
  <2>4. t = [i \in 1..(Len(s) - 1) |-> IF i < k THEN s[i] ELSE s[i + 1]]
    BY DEF Without
  <2> DEFINE from(i) == IF i < k THEN i ELSE i + 1
  <2> HIDE DEF k, t, r, s
  <2>5. \A i \in 1..(Len(s) - 1) : from(i) \in 1..Len(s) /\ t[i] = s[from(i)]
    BY <2>1, <2>2, <2>4
  <2>6. \A i, j \in 1..(Len(s) - 1) : i # j => from(i) # from(j)
    BY <2>1, <2>2
  <2>7. Len(s) - 1 \in Nat
    BY <2>1, <2>2
  <2>8. \A i \in 1..(Len(s) - 1) : t[i] \in Entry
    BY <2>1, <2>5
  <2>9. t \in Seq(Entry) /\ Places(r) = 1..(Len(s) - 1)
    BY <2>3, <2>4, <2>7, <2>8 DEF Places
  <2> HIDE DEF from
  <2>10. Distinct(r)
    <3> SUFFICES ASSUME NEW i \in 1..(Len(s) - 1), NEW j \in 1..(Len(s) - 1), i # j
                 PROVE  t[i].logo # t[j].logo /\ t[i].addr # t[j].addr
      BY <2>3, <2>9 DEF Distinct
    <3>1. from(i) \in Places(m) /\ from(j) \in Places(m) /\ from(i) # from(j)
      BY <2>1, <2>5, <2>6
    <3>2. s[from(i)].logo # s[from(j)].logo /\ s[from(i)].addr # s[from(j)].addr
      BY <3>1 DEF Good, Distinct, s
    <3> QED BY <2>5, <3>2
  <2>11. ValidIsUp(r)
    BY <2>1, <2>3, <2>5, <2>9 DEF Good, ValidIsUp, s
  <2>12. \A q : ~InList(m, q) => ~InList(r, q)
    BY <2>1, <2>3, <2>5, <2>9 DEF InList, OfLogo, s
  <2>13. Used(r) \subseteq Used(m)
    BY <2>1, <2>3, <2>5, <2>9 DEF Used, s
  <2> QED BY <2>3, <2>9, <2>10, <2>11, <2>12, <2>13 DEF Good, Typed, r
<1> QED BY <1>0, <1>1

\* A change that leaves the logo and the address of every entry alone.
Same(m, r) == /\ Typed(r) /\ Places(r) = Places(m)
              /\ \A i \in Places(m) : r.list[i].logo = m.list[i].logo /\ r.list[i].addr = m.list[i].addr

LEMMA SameKeeps ==
  ASSUME NEW m, NEW r, Good(m), Same(m, r), ValidIsUp(r)
  PROVE  /\ Good(r)
         /\ \A k : ~InList(m, k) => ~InList(r, k)
<1>1. Distinct(r)
  BY DEF Same, Good, Distinct
<1>2. \A k : ~InList(m, k) => ~InList(r, k)
  BY DEF Same, InList, OfLogo
<1> QED BY <1>1, <1>2 DEF Good, Same

LEMMA WithIsEntry ==
  ASSUME NEW e \in Entry, NEW up \in BOOLEAN, NEW ok \in BOOLEAN
  PROVE  /\ With(e, up, ok) \in Entry
         /\ With(e, up, ok).logo = e.logo /\ With(e, up, ok).addr = e.addr
         /\ With(e, up, ok).valid = ok /\ With(e, up, ok).mounted = up
  BY DEF With, Entry

\* The common form of mount, unmount and the marks: one entry changes.
LEMMA SetEntryGood ==
  ASSUME NEW m, Good(m), NEW i \in Places(m), NEW up \in BOOLEAN, NEW ok \in BOOLEAN, ok => up
  PROVE  /\ Good(SetEntry(m, i, up, ok))
         /\ \A k : ~InList(m, k) => ~InList(SetEntry(m, i, up, ok), k)
<1> DEFINE s == m.list
           e == With(s[i], up, ok)
           t == [s EXCEPT ![i] = e]
           r == SetEntry(m, i, up, ok)
<1>1. s \in Seq(Entry) /\ Len(s) \in Nat /\ Places(m) = 1..Len(s) /\ m.counter \in Nat
  BY DEF Good, Typed, Places
<1>2. s[i] \in Entry
  BY <1>1
<1>3. /\ e \in Entry /\ e.logo = s[i].logo /\ e.addr = s[i].addr
      /\ e.valid = ok /\ e.mounted = up
  BY <1>2, WithIsEntry
<1>4. m = [list |-> s, counter |-> m.counter]
  BY DEF Good, Typed
<1>5. r = [list |-> t, counter |-> m.counter]
  <2>1. r = [m EXCEPT !.list = t]
    BY <1>4 DEF SetEntry
  <2>2. ASSUME NEW x, NEW c PROVE [[list |-> x, counter |-> c] EXCEPT !.list = t] = [list |-> t, counter |-> c]
    OBVIOUS
  <2> QED BY <1>4, <2>1, <2>2
<1> HIDE DEF e, r
<1>6. t \in Seq(Entry) /\ DOMAIN t = 1..Len(s)
  BY <1>1, <1>3
<1>7. \A j \in 1..Len(s) : t[j] = IF j = i THEN e ELSE s[j]
  BY <1>1
<1> HIDE DEF t
<1>8. Typed(r) /\ Places(r) = Places(m)
  BY <1>1, <1>5, <1>6 DEF Typed, Places
<1>9. Same(m, r)
  BY <1>1, <1>3, <1>5, <1>7, <1>8 DEF Same
<1>10. ValidIsUp(r)
  BY <1>1, <1>3, <1>5, <1>7, <1>8 DEF ValidIsUp, Good
<1> QED BY <1>9, <1>10, SameKeeps DEF r

LEMMA MountGood ==
  ASSUME NEW m, Good(m), NEW l, NEW up \in BOOLEAN
  PROVE  Good(Mount(m, l, up)) /\ \A k : ~InList(m, k) => ~InList(Mount(m, l, up), k)
<1>1. CASE InList(m, l) /\ ~m.list[Lowest(OfLogo(m, l))].mounted
  <2>1. Lowest(OfLogo(m, l)) \in Places(m)
    BY <1>1, PlaceOfLogo DEF InList
  <2>2. Mount(m, l, up) = SetEntry(m, Lowest(OfLogo(m, l)), up, up)
    BY <1>1 DEF Mount
  <2> QED BY <2>1, <2>2, SetEntryGood
<1>2. CASE ~(InList(m, l) /\ ~m.list[Lowest(OfLogo(m, l))].mounted)
  BY <1>2 DEF Mount
<1> QED BY <1>1, <1>2

LEMMA UnmountGood ==
  ASSUME NEW m, Good(m), NEW l
  PROVE  Good(Unmount(m, l)) /\ \A k : ~InList(m, k) => ~InList(Unmount(m, l), k)
<1> DEFINE S == SeenOfLogo(m, l, FALSE)
<1>1. CASE S # {}
  <2>1. S \in SUBSET OfLogo(m, l)
    BY DEF SeenOfLogo
  <2>2. Lowest(S) \in Places(m)
    BY <1>1, <2>1, PlaceOfLogo
  <2>3. Unmount(m, l) = SetEntry(m, Lowest(S), FALSE, FALSE)
    BY <1>1 DEF Unmount
  <2> QED BY <2>2, <2>3, SetEntryGood
<1>2. CASE S = {}
  BY <1>2 DEF Unmount
<1> QED BY <1>1, <1>2

LEMMA SetValidGood ==
  ASSUME NEW m, Good(m), NEW a, NEW flag \in BOOLEAN
  PROVE  Good(SetValid(m, a, flag)) /\ \A k : ~InList(m, k) => ~InList(SetValid(m, a, flag), k)
<1>1. CASE Online(m, a)
  <2>1. Lowest(SeenAt(m, a)) \in Places(m)
    BY <1>1, PlaceOfAddr
  <2>2. SetValid(m, a, flag) = SetEntry(m, Lowest(SeenAt(m, a)), TRUE, flag)
    BY <1>1 DEF SetValid
  <2> QED BY <2>1, <2>2, SetEntryGood
<1>2. CASE ~Online(m, a)
  BY <1>2 DEF SetValid
<1> QED BY <1>1, <1>2

LEMMA CheckMountGood ==
  ASSUME NEW m, Good(m), NEW ups
  PROVE  Good(CheckMount(m, ups)) /\ \A k : ~InList(m, k) => ~InList(CheckMount(m, ups), k)
<1> DEFINE s == m.list
           e(i) == With(s[i], i \in ups, i \in ups)
           t == [i \in Places(m) |-> e(i)]
           r == CheckMount(m, ups)
<1>1. s \in Seq(Entry) /\ Len(s) \in Nat /\ Places(m) = 1..Len(s) /\ m.counter \in Nat
  BY DEF Good, Typed, Places
<1>2. \A i \in Places(m) : /\ e(i) \in Entry /\ e(i).logo = s[i].logo /\ e(i).addr = s[i].addr
                           /\ e(i).valid => e(i).mounted
  <2> SUFFICES ASSUME NEW i \in Places(m)
               PROVE  /\ e(i) \in Entry /\ e(i).logo = s[i].logo /\ e(i).addr = s[i].addr
                      /\ e(i).valid => e(i).mounted
    OBVIOUS
  <2> DEFINE up == i \in ups
  <2>1. s[i] \in Entry
    BY <1>1
  <2>2. up \in BOOLEAN
    OBVIOUS
  <2> HIDE DEF up
  <2> QED BY <2>1, <2>2, WithIsEntry DEF up
<1>3. r = [list |-> t, counter |-> m.counter]
  BY DEF CheckMount, Good, Typed
<1> HIDE DEF e, r
<1>4. t \in Seq(Entry) /\ DOMAIN t = Places(m) /\ \A i \in Places(m) : t[i] = e(i)
  BY <1>1, <1>2
<1> HIDE DEF t
<1>5. Same(m, r)
  BY <1>1, <1>2, <1>3, <1>4 DEF Same, Typed, Places
<1>6. ValidIsUp(r)
  BY <1>2, <1>3, <1>4 DEF ValidIsUp, Places
<1> QED BY <1>5, <1>6, SameKeeps DEF r

LEMMA SetActiveGood ==
  ASSUME NEW m, Good(m), NEW a
  PROVE  Good(SetActive(m, a)) /\ \A k : ~InList(m, k) => ~InList(SetActive(m, a), k)
<1>1. CASE ~Online(m, a)
  BY <1>1 DEF SetActive
<1>2. CASE Online(m, a)
  <2> DEFINE s == m.list
             i == Lowest(SeenAt(m, a))
             q == s[i]
             c == m.counter
             e == [q EXCEPT !.stamp = c]
             t == [s EXCEPT ![i] = e]
             r == SetActive(m, a)
  <2>1. s \in Seq(Entry) /\ Len(s) \in Nat /\ Places(m) = 1..Len(s) /\ m.counter \in Nat
    BY DEF Good, Typed, Places
  <2>2. i \in Places(m)
    BY <1>2, PlaceOfAddr
  <2>3. r = [list |-> t, counter |-> m.counter + 1]
    BY <1>2 DEF SetActive, Stamped
  <2> HIDE DEF i, r
  <2>9. q \in Entry /\ c \in Nat
    BY <2>1, <2>2
  <2> HIDE DEF q, c
  <2>4. /\ e \in Entry /\ e.logo = q.logo /\ e.addr = q.addr
        /\ e.valid = q.valid /\ e.mounted = q.mounted
    BY <2>9 DEF Entry
  <2> HIDE DEF e
  <2>5. t \in Seq(Entry) /\ DOMAIN t = 1..Len(s)
    BY <2>1, <2>2, <2>4
  <2>6. \A j \in 1..Len(s) : t[j] = IF j = i THEN e ELSE s[j]
    BY <2>1
  <2> HIDE DEF t
  <2>7. Same(m, r)
    BY <2>1, <2>3, <2>4, <2>5, <2>6, <2>9 DEF Same, Typed, Places, q, c
  <2>8. ValidIsUp(r)
    BY <2>1, <2>3, <2>4, <2>5, <2>6 DEF ValidIsUp, Good, Places, q, c
  <2> QED BY <2>7, <2>8, SameKeeps DEF r
<1> QED BY <1>1, <1>2

-----------------------------------------------------------------------------
(***************************************************************************)
(* The lookups.                                                            *)
(***************************************************************************)
LEMMA LeastNatural ==
  ASSUME NEW S \in SUBSET Nat, S # {}
  PROVE  \E n \in S : \A k \in S : n <= k
<1>1. PICK n \in S : \A k \in S : <<k, n>> \notin OpToRel(<, Nat)
  BY NatLessThanWellFounded, WFMin
<1>2. \A k \in S : ~(k < n)
  BY <1>1 DEF OpToRel
<1> QED BY <1>2

LEMMA LowestIsIn ==
  ASSUME NEW m, Typed(m), NEW S \in SUBSET Places(m), S # {}
  PROVE  Lowest(S) \in S
<1>1. S \in SUBSET Nat
  BY DEF Typed, Places
<1>2. \E n \in S : \A k \in S : n <= k
  BY <1>1, LeastNatural
<1> QED BY <1>2 DEF Lowest

LEMMA HighestIsIn ==
  ASSUME NEW m, Typed(m), NEW S \in SUBSET Places(m), S # {}
  PROVE  Highest(S) \in S
<1> DEFINE n == Len(m.list)
           T == {k \in Nat : n - k \in S}
<1>1. n \in Nat /\ S \in SUBSET (1..n)
  BY DEF Typed, Places
<1>2. T # {}
  <2>1. PICK i \in S : TRUE
    OBVIOUS
  <2>2. n - i \in Nat /\ n - (n - i) = i
    BY <1>1, <2>1
  <2> QED BY <2>1, <2>2
<1>3. PICK k \in T : \A j \in T : k <= j
  BY <1>2, LeastNatural
<1>4. ASSUME NEW i \in S PROVE i <= n - k
  <2>1. n - i \in Nat /\ n - (n - i) = i
    BY <1>1
  <2>2. n - i \in T
    BY <2>1
  <2>3. k <= n - i /\ k \in Nat
    BY <1>3, <2>2
  <2> HIDE DEF T
  <2> QED BY <1>1, <2>3
<1>5. n - k \in S /\ \A i \in S : i <= n - k
  BY <1>3, <1>4
<1> QED BY <1>5 DEF Highest

\* The answer for mounted places is a mounted device.
Known(m, a) == a = NoAddr \/ (a \in Addr /\ Online(m, a))

LEMMA AnswerKnown ==
  ASSUME NEW m, Typed(m), NEW S \in SUBSET Seen(m, FALSE), NEW i, S # {} => i \in S
  PROVE  Known(m, Answer(m, S, i))
<1>1. CASE S = {}
  BY <1>1 DEF Answer, Known
<1>2. CASE S # {}
  <2>1. i \in Places(m) /\ m.list[i].mounted
    BY <1>2 DEF Seen
  <2>2. m.list[i].addr \in Addr
    <3>1. m.list[i] \in Entry
      BY <2>1 DEF Typed, Places
    <3> QED BY <3>1 DEF Entry
  <2>3. i \in SeenAt(m, m.list[i].addr)
    BY <1>2 DEF SeenAt
  <2>4. Answer(m, S, i) = m.list[i].addr
    BY <1>2 DEF Answer
  <2> QED BY <2>2, <2>3, <2>4 DEF Known, Online
<1> QED BY <1>1, <1>2

LEMMA SeenPlaces ==
  ASSUME NEW m, NEW valid
  PROVE  Seen(m, valid) \subseteq Seen(m, FALSE) /\ Seen(m, FALSE) \subseteq Places(m)
  BY DEF Seen

LEMMA LowestKnown ==
  ASSUME NEW m, Typed(m), NEW valid, NEW S \in SUBSET Seen(m, valid)
  PROVE  Known(m, Answer(m, S, Lowest(S)))
<1>1. S \in SUBSET Seen(m, FALSE) /\ S \in SUBSET Places(m)
  BY SeenPlaces
<1>2. S # {} => Lowest(S) \in S
  BY <1>1, LowestIsIn
<1> QED BY <1>1, <1>2, AnswerKnown

\* Every lookup answers NULL or a device that is mounted.
THEOREM LookupsKnown ==
  ASSUME NEW m, Typed(m), NEW valid
  PROVE  /\ Known(m, FindFirst(m, valid)) /\ Known(m, FindLast(m, valid)) /\ Known(m, FindActive(m, valid))
         /\ \A l : Known(m, FindSpec(m, l, valid))
         /\ \A k : Known(m, FindByIndex(m, k, valid))
         /\ \A a : Known(m, FindPrev(m, a, valid)) /\ Known(m, FindNext(m, a, valid))
<1>1. Known(m, FindFirst(m, valid))
  BY LowestKnown DEF FindFirst
<1>2. Known(m, FindLast(m, valid))
  <2> DEFINE S == Seen(m, valid)
  <2>1. S \in SUBSET Seen(m, FALSE) /\ S \in SUBSET Places(m)
    BY SeenPlaces
  <2> HIDE DEF S
  <2>2. S # {} => Highest(S) \in S
    BY <2>1, HighestIsIn
  <2>3. Known(m, Answer(m, S, Highest(S)))
    BY <2>1, <2>2, AnswerKnown
  <2> QED BY <2>3 DEF FindLast, S
<1>3. Known(m, FindActive(m, valid))
  <2> DEFINE S == {i \in Seen(m, valid) : \A j \in Seen(m, valid) : m.list[j].stamp <= m.list[i].stamp}
  <2>1. S \in SUBSET Seen(m, valid)
    OBVIOUS
  <2>2. FindActive(m, valid) = Answer(m, S, Lowest(S))
    BY DEF FindActive
  <2> HIDE DEF S
  <2> QED BY <2>1, <2>2, LowestKnown
<1>4. ASSUME NEW l PROVE Known(m, FindSpec(m, l, valid))
  <2>1. SeenOfLogo(m, l, valid) \in SUBSET Seen(m, valid)
    BY DEF SeenOfLogo
  <2> QED BY <2>1, LowestKnown DEF FindSpec
<1>5. ASSUME NEW k PROVE Known(m, FindByIndex(m, k, valid))
  <2> DEFINE S == {i \in Seen(m, valid) : Cardinality({j \in Seen(m, valid) : j < i}) = k}
  <2>1. S \in SUBSET Seen(m, valid)
    OBVIOUS
  <2>2. FindByIndex(m, k, valid) = Answer(m, S, Lowest(S))
    BY DEF FindByIndex
  <2> HIDE DEF S
  <2> QED BY <2>1, <2>2, LowestKnown
<1>6. ASSUME NEW a, NEW steps PROVE Known(m, Nearest(m, a, valid, steps))
  <2>1. CASE ~Online(m, a)
    BY <2>1, <1>3 DEF Nearest
  <2>2. CASE Online(m, a)
    <3> DEFINE here == Lowest(SeenAt(m, a))
               far(i) == (steps * (i - here)) % Len(m.list)
               others == Seen(m, valid) \ {here}
               S == {i \in others : \A j \in others : far(i) <= far(j)}
    <3>1. S \in SUBSET Seen(m, valid)
      OBVIOUS
    <3>2. Nearest(m, a, valid, steps) = Answer(m, S, Lowest(S))
      BY <2>2 DEF Nearest
    <3> HIDE DEF S
    <3> QED BY <3>1, <3>2, LowestKnown
  <2> QED BY <2>1, <2>2
<1>7. ASSUME NEW a PROVE Known(m, FindPrev(m, a, valid)) /\ Known(m, FindNext(m, a, valid))
  <2>1. Known(m, NoAddr)
    BY DEF Known
  <2> QED BY <2>1, <1>6 DEF FindPrev, FindNext
<1> QED BY <1>1, <1>2, <1>3, <1>4, <1>5, <1>7

-----------------------------------------------------------------------------
(***************************************************************************)
(* A device stays mounted through what is done about others.               *)
(***************************************************************************)
LEMMA OnlineAt ==
  ASSUME NEW m, NEW i \in Places(m), m.list[i].mounted
  PROVE  Online(m, m.list[i].addr)
<1>1. i \in SeenAt(m, m.list[i].addr)
  BY DEF SeenAt, Seen
<1> QED BY <1>1 DEF Online

LEMMA PlaceOnline ==
  ASSUME NEW m, NEW a, Online(m, a)
  PROVE  \E i \in Places(m) : m.list[i].mounted /\ m.list[i].addr = a
BY DEF Online, SeenAt, Seen

LEMMA LogoIsLogo ==
  ASSUME NEW m, Good(m), NEW a, Online(m, a)
  PROVE  LogoOf(m, a) \in Logo
<1>1. Lowest(SeenAt(m, a)) \in Places(m)
  BY PlaceOfAddr
<1>2. m.list[Lowest(SeenAt(m, a))] \in Entry
  BY <1>1 DEF Good, Typed, Places
<1> QED BY <1>2 DEF LogoOf, Entry

LEMMA InsertKeepsOnline ==
  ASSUME NEW m, Typed(m), NEW l, NEW b, NEW up, NEW a, Online(m, a)
  PROVE  Online(Insert(m, l, b, up), a)
<1> DEFINE s == m.list
           e == [addr |-> b, logo |-> l, mounted |-> up, valid |-> up,
                 stamp |-> m.counter, life |-> m.counter]
           t == Append(s, e)
           r == Insert(m, l, b, up)
<1>1. PICK i \in Places(m) : s[i].mounted /\ s[i].addr = a
  BY PlaceOnline
<1>2. s \in Seq(Entry) /\ i \in 1..Len(s) /\ Len(s) \in Nat
  BY <1>1 DEF Typed, Places
<1>3. r.list = t
  BY DEF Insert
<1> HIDE DEF e, r
<1>4. i \in DOMAIN t /\ t[i] = s[i]
  BY <1>2
<1> HIDE DEF t
<1>5. i \in Places(r) /\ r.list[i].mounted /\ r.list[i].addr = a
  BY <1>1, <1>3, <1>4 DEF Places
<1> QED BY <1>5, OnlineAt DEF r

\* A change that keeps addresses and unmounts nothing of a.
LEMMA SameKeepsOnline ==
  ASSUME NEW m, NEW r, Same(m, r), NEW a, Online(m, a),
         \A i \in Places(m) : m.list[i].addr = a /\ m.list[i].mounted => r.list[i].mounted
  PROVE  Online(r, a)
<1>1. PICK i \in Places(m) : m.list[i].mounted /\ m.list[i].addr = a
  BY PlaceOnline
<1>2. i \in Places(r) /\ r.list[i].mounted /\ r.list[i].addr = a
  BY <1>1 DEF Same
<1> QED BY <1>2, OnlineAt

LEMMA RemoveKeepsOnline ==
  ASSUME NEW m, Good(m), NEW l, NEW a, Online(m, a), LogoOf(m, a) # l
  PROVE  Online(Remove(m, l), a)
<1>0. CASE ~InList(m, l)
  BY <1>0 DEF Remove
<1>1. CASE InList(m, l)
  <2> DEFINE s == m.list
             k == Lowest(OfLogo(m, l))
             t == Without(s, k)
             r == Remove(m, l)
             i == Lowest(SeenAt(m, a))
  <2>1. s \in Seq(Entry) /\ Len(s) \in Nat /\ Places(m) = 1..Len(s)
    BY DEF Good, Typed, Places
  <2>2. k \in 1..Len(s) /\ s[k].logo = l
    BY <1>1, <2>1, PlaceOfLogo DEF InList
  <2>3. i \in 1..Len(s) /\ s[i].addr = a /\ s[i].mounted
    BY <2>1, PlaceOfAddr
  <2>4. i # k
    BY <2>2 DEF LogoOf
  <2>5. r = [list |-> t, counter |-> m.counter]
    BY <1>1 DEF Remove, Good, Typed
  <2>6. t = [j \in 1..(Len(s) - 1) |-> IF j < k THEN s[j] ELSE s[j + 1]]
    BY DEF Without
  <2> HIDE DEF k, t, r, s, i
  <2>7. \E j \in 1..(Len(s) - 1) : t[j] = s[i]
    <3>1. CASE i < k
      <4>1. i \in 1..(Len(s) - 1) /\ t[i] = s[i]
        BY <2>1, <2>2, <2>3, <2>6, <3>1
      <4> QED BY <4>1
    <3>2. CASE k < i
      <4>1. i - 1 \in 1..(Len(s) - 1) /\ ~(i - 1 < k) /\ (i - 1) + 1 = i
        BY <2>1, <2>2, <2>3, <3>2
      <4>2. t[i - 1] = s[i]
        BY <2>6, <4>1
      <4> QED BY <4>1, <4>2
    <3> QED BY <2>2, <2>3, <2>4, <3>1, <3>2
  <2>8. PICK j \in 1..(Len(s) - 1) : t[j] = s[i]
    BY <2>7
  <2>9. j \in Places(r) /\ r.list[j].mounted /\ r.list[j].addr = a
    BY <2>3, <2>5, <2>6, <2>8 DEF Places
  <2> QED BY <2>9, OnlineAt DEF r
<1> QED BY <1>0, <1>1

LEMMA SetEntryKeepsOnline ==
  ASSUME NEW m, Good(m), NEW i \in Places(m), NEW ok, NEW a, Online(m, a)
  PROVE  Online(SetEntry(m, i, TRUE, ok), a)
<1> DEFINE r == SetEntry(m, i, TRUE, ok)
           e == With(m.list[i], TRUE, ok)
<1>1. PICK j \in Places(m) : m.list[j].mounted /\ m.list[j].addr = a
  BY PlaceOnline
<1>2. m.list \in Seq(Entry) /\ j \in 1..Len(m.list) /\ i \in 1..Len(m.list)
  BY <1>1 DEF Good, Typed, Places
<1>3. r.list = [m.list EXCEPT ![i] = e]
  BY DEF SetEntry, Good, Typed
<1>4. m.list[i] \in Entry
  BY <1>2
<1>5. e.mounted /\ e.addr = m.list[i].addr
  BY <1>4 DEF With, Entry
<1> HIDE DEF r, e
<1>6. r.list[j] = IF j = i THEN e ELSE m.list[j]
  BY <1>2, <1>3
<1>7. j \in Places(r)
  BY <1>2, <1>3 DEF Places
<1>8. r.list[j].mounted /\ r.list[j].addr = a
  BY <1>1, <1>5, <1>6
<1> QED BY <1>7, <1>8, OnlineAt DEF r

LEMMA SetValidKeepsOnline ==
  ASSUME NEW m, Good(m), NEW b, NEW flag, NEW a, Online(m, a)
  PROVE  Online(SetValid(m, b, flag), a)
<1>1. CASE Online(m, b)
  <2>1. Lowest(SeenAt(m, b)) \in Places(m)
    BY <1>1, PlaceOfAddr
  <2>2. SetValid(m, b, flag) = SetEntry(m, Lowest(SeenAt(m, b)), TRUE, flag)
    BY <1>1 DEF SetValid
  <2> QED BY <2>1, <2>2, SetEntryKeepsOnline
<1>2. CASE ~Online(m, b)
  BY <1>2 DEF SetValid
<1> QED BY <1>1, <1>2

LEMMA SetActiveKeepsOnline ==
  ASSUME NEW m, Good(m), NEW b, NEW a, Online(m, a)
  PROVE  Online(SetActive(m, b), a)
<1>1. CASE ~Online(m, b)
  BY <1>1 DEF SetActive
<1>2. CASE Online(m, b)
  <2> DEFINE r == SetActive(m, b)
             i == Lowest(SeenAt(m, b))
             c == m.counter
  <2>1. PICK j \in Places(m) : m.list[j].mounted /\ m.list[j].addr = a
    BY PlaceOnline
  <2>2. m.list \in Seq(Entry) /\ j \in 1..Len(m.list)
    BY <2>1 DEF Good, Typed, Places
  <2>3. r.list = [m.list EXCEPT ![i].stamp = c]
    BY <1>2 DEF SetActive, Stamped
  <2> HIDE DEF r, i, c
  <2>4. r.list[j] = IF j = i THEN [m.list[j] EXCEPT !.stamp = c] ELSE m.list[j]
    BY <2>2, <2>3
  <2>5. m.list[j] \in Entry
    BY <2>2
  <2>6. r.list[j].mounted /\ r.list[j].addr = a
    BY <2>1, <2>4, <2>5 DEF Entry
  <2>7. j \in Places(r)
    BY <2>2, <2>3 DEF Places
  <2> QED BY <2>6, <2>7, OnlineAt DEF r
<1> QED BY <1>1, <1>2

=============================================================================
