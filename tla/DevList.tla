------------------------------ MODULE DevList ------------------------------
(***************************************************************************)
(* The list of storage devices of apps/common/dev_manager/dev_manager.c,   *)
(* as functions: what each piece of work done under one hold of            *)
(* dev_mg.mutex makes of the list, and what each lookup answers.  The      *)
(* modules DevManager and MusicPlayer give these functions to the tasks.   *)
(*                                                                         *)
(* A manager is a record of the list, in the order of the links, and of    *)
(* the counter that gives active_stamp its values.  An entry is a struct   *)
(* __dev: addr is where it lies, and life, which is not in the code, is    *)
(* the value of the counter when it was added; the address of an entry     *)
(* that was freed can be given to a later one, its life cannot.  The       *)
(* counter is u32: 2^32 additions and activations are out of reach.        *)
(***************************************************************************)
EXTENDS Integers, Sequences, FiniteSets

CONSTANTS Logo,    \* the logos of dev_reg
          Addr,    \* where the heap can put a struct __dev
          NoAddr   \* NULL

ASSUME AddrAssumption == NoAddr \notin Addr

Entry == [addr: Addr, logo: Logo, mounted: BOOLEAN, valid: BOOLEAN, stamp: Nat, life: Nat]

Empty == [list |-> <<>>, counter |-> 0]

Places(m) == DOMAIN m.list
Lowest(S) == CHOOSE i \in S : \A j \in S : i <= j
Highest(S) == CHOOSE i \in S : \A j \in S : j <= i

OfLogo(m, l) == {i \in Places(m) : m.list[i].logo = l}
InList(m, l) == OfLogo(m, l) # {}
Used(m) == {m.list[i].addr : i \in Places(m)}

-----------------------------------------------------------------------------
\* What the lookups see: entries without a mount are passed over, and with
\* valid also those that have no file to play.
Seen(m, valid) == {i \in Places(m) : m.list[i].mounted /\ (valid => m.list[i].valid)}
SeenAt(m, a) == {i \in Seen(m, FALSE) : m.list[i].addr = a}
SeenOfLogo(m, l, valid) == Seen(m, valid) \cap OfLogo(m, l)

Online(m, a) == SeenAt(m, a) # {}
OnlineValid(m, a) == \E i \in SeenAt(m, a) : m.list[i].valid
LogoOf(m, a) == m.list[Lowest(SeenAt(m, a))].logo

\* The answer for a set of places: the entry the choice falls on, or NULL.
Answer(m, S, i) == IF S = {} THEN NoAddr ELSE m.list[i].addr

FindFirst(m, valid) == Answer(m, Seen(m, valid), Lowest(Seen(m, valid)))
FindLast(m, valid) == Answer(m, Seen(m, valid), Highest(Seen(m, valid)))
FindSpec(m, l, valid) == Answer(m, SeenOfLogo(m, l, valid), Lowest(SeenOfLogo(m, l, valid)))
FindByIndex(m, k, valid) ==
  LET S == {i \in Seen(m, valid) : Cardinality({j \in Seen(m, valid) : j < i}) = k}
  IN Answer(m, S, Lowest(S))

FindActive(m, valid) ==
  LET stamp(i) == m.list[i].stamp
      latest == {i \in Seen(m, valid) : \A j \in Seen(m, valid) : stamp(j) <= stamp(i)}
  IN Answer(m, latest, Lowest(latest))

\* The nearest other entry when the ring of the list is followed from a with
\* the links (steps = 1) or against them (steps = -1).
Nearest(m, a, valid, steps) ==
  LET here == Lowest(SeenAt(m, a))
      far(i) == (steps * (i - here)) % Len(m.list)
      others == Seen(m, valid) \ {here}
      near == {i \in others : \A j \in others : far(i) <= far(j)}
  IN IF Online(m, a) THEN Answer(m, near, Lowest(near)) ELSE FindActive(m, valid)

FindPrev(m, a, valid) == IF a = NoAddr THEN NoAddr ELSE Nearest(m, a, valid, 1)
FindNext(m, a, valid) == IF a = NoAddr THEN NoAddr ELSE Nearest(m, a, valid, -1)

-----------------------------------------------------------------------------
\* What a hold of the mutex does.
\* an addition that takes its stamp from a counter running down
InsertCountsDown(m, l, a, up) ==
  [list |-> Append(m.list, [addr |-> a, logo |-> l, mounted |-> up, valid |-> up,
                            stamp |-> m.counter, life |-> m.counter]),
   counter |-> m.counter - 1]
Insert(m, l, a, up) ==
  [list |-> Append(m.list, [addr |-> a, logo |-> l, mounted |-> up, valid |-> up,
                            stamp |-> m.counter, life |-> m.counter]),
   counter |-> m.counter + 1]

Without(s, k) == [i \in 1..(Len(s) - 1) |-> IF i < k THEN s[i] ELSE s[i + 1]]
Remove(m, l) ==
  IF InList(m, l) THEN [m EXCEPT !.list = Without(@, Lowest(OfLogo(m, l)))] ELSE m

With(e, up, ok) == [e EXCEPT !.mounted = up, !.valid = ok]
SetEntry(m, i, up, ok) == [m EXCEPT !.list[i] = With(@, up, ok)]

MountAnswer(m, l) == InList(m, l) /\ m.list[Lowest(OfLogo(m, l))].valid
Mount(m, l, up) ==
  LET i == Lowest(OfLogo(m, l))
  IN IF InList(m, l) /\ ~m.list[i].mounted THEN SetEntry(m, i, up, up) ELSE m

Unmount(m, l) ==
  LET S == SeenOfLogo(m, l, FALSE)
  IN IF S = {} THEN m ELSE SetEntry(m, Lowest(S), FALSE, FALSE)

\* dev_manager_list_check_mount: every entry is unmounted and mounted again.
CheckMount(m, ups) ==
  [m EXCEPT !.list = [i \in Places(m) |-> With(m.list[i], i \in ups, i \in ups)]]

SetValid(m, a, flag) ==
  IF Online(m, a) THEN SetEntry(m, Lowest(SeenAt(m, a)), TRUE, flag) ELSE m
SetValidByLogo(m, l, flag) == SetValid(m, FindSpec(m, l, FALSE), flag)

Stamped(m, i) == [list |-> [m.list EXCEPT ![i].stamp = m.counter], counter |-> m.counter + 1]
SetActive(m, a) == IF Online(m, a) THEN Stamped(m, Lowest(SeenAt(m, a))) ELSE m
=============================================================================
