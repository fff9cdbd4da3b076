------------------------- MODULE MusicPlayerProofs -------------------------
(***************************************************************************)
(* What is proved of music mode for every set of slots, media and keys,    *)
(* any number of files and of events: the break flag of one scan never     *)
(* reaches the next; a decoder reads from a mounted device; and a scan     *)
(* keeps the device it scans.                                              *)
(***************************************************************************)
EXTENDS MusicPlayer, DevListProofs

\* The two shapes in which a handler ends: with an error dealt with, or with
\* a scan begun.  The first leaves app_core idle, and the flag it leaves
\* stands only if it stood before and the error was not of a scan.
LEMMA ErrDealEnds ==
  ASSUME NEW err, NEW m, NEW p, NEW q, brk \in BOOLEAN, ErrDeal(err, m, p, q)
  PROVE  /\ job' = NoJob
         /\ brk' = (brk /\ err \notin {"scan", "noFile"})
BY DEF ErrDeal, BreakEnds, Interrupted

LEMMA GoOnLeaves ==
  ASSUME NEW at, NEW how, NEW p, NEW q, GoOn(at, how, p, q)
  PROVE  brk' = brk /\ job'.at = at
BY DEF GoOn

Flag == brk \in BOOLEAN /\ BreakIsConsumed

\* A way to play, chosen while app_core is idle, finds the flag down and
\* leaves it down.
LEMMA PlayingLeavesTheFlagDown ==
  ASSUME brk = FALSE, NEW q,
         \/ PlayHere(q)
         \/ \E l, how : PlayOn(l, how, q)
         \/ \E next : PlayNeighbour(next, q)
  PROVE  brk' = FALSE
<1>1. ASSUME NEW err, NEW m, NEW p, ErrDeal(err, m, p, q)
      PROVE  brk' = FALSE
  <2>1. brk \in BOOLEAN
    OBVIOUS
  <2> QED BY <1>1, <2>1, ErrDealEnds
<1>2. ASSUME PlayHere(q)
      PROVE  brk' = FALSE
  BY <1>1, <1>2, GoOnLeaves DEF PlayHere
<1>3. ASSUME NEW l, NEW how, PlayOn(l, how, q)
      PROVE  brk' = FALSE
  BY <1>1, <1>3, GoOnLeaves DEF PlayOn
<1>4. ASSUME NEW next, PlayNeighbour(next, q)
      PROVE  brk' = FALSE
  BY <1>2, <1>3, <1>4 DEF PlayNeighbour, PlayAround
<1> QED BY <1>2, <1>3, <1>4

\* The handlers of the message loop.
LEMMA MusicLoopKeepsFlag ==
  ASSUME Flag, MusicLoop
  PROVE  Flag'
<1>1. brk = FALSE
  BY DEF Flag, BreakIsConsumed, MusicLoop, Start, ChangeDev, PlayNext, PlayPrev, PlayFirst, End,
         DecErr, PlayPause, Leave, CardIn, CardOut, Take
<1>2. ASSUME NEW err, NEW m, NEW p, NEW q, ErrDeal(err, m, p, q)
      PROVE  brk' = FALSE
  <2>1. brk \in BOOLEAN
    BY DEF Flag
  <2> QED BY <1>1, <1>2, <2>1, ErrDealEnds
<1>3. CASE Start
  BY <1>1, <1>2, <1>3, PlayingLeavesTheFlagDown DEF Start, Flag, BreakIsConsumed
<1>4. CASE ChangeDev
  BY <1>1, <1>2, <1>4, PlayingLeavesTheFlagDown DEF ChangeDev, Flag, BreakIsConsumed
<1>5. CASE PlayNext \/ PlayPrev \/ PlayFirst
  BY <1>1, <1>5, PlayingLeavesTheFlagDown DEF PlayNext, PlayPrev, PlayFirst, Flag, BreakIsConsumed
<1>6. CASE End
  <2> DEFINE msg == Head(queue)
  <2>1. \/ msg.err = "none" /\ PlayNeighbour(TRUE, Rest)
        \/ \E err : ErrDeal(err, mgr, ply, Rest)
    BY <1>6 DEF End
  <2> QED BY <2>1, <1>1, <1>2, PlayingLeavesTheFlagDown DEF Flag, BreakIsConsumed
<1>7. CASE DecErr \/ PlayPause
  BY <1>2, <1>7 DEF DecErr, PlayPause, Flag, BreakIsConsumed
<1>8. CASE Leave \/ CardIn \/ CardOut
  BY <1>1, <1>8 DEF Leave, CardIn, CardOut, Flag, BreakIsConsumed
<1> QED BY <1>3, <1>4, <1>5, <1>6, <1>7, <1>8 DEF MusicLoop

\* A scan or a search that was interrupted ends with the error that takes
\* the flag down; one that was not has none to take down.
LEMMA ScanningKeepsFlag ==
  ASSUME Flag, Scanning
  PROVE  Flag'
<1>1. ASSUME NEW err, NEW m, NEW p, NEW q, ErrDeal(err, m, p, q), brk => err \in {"scan", "noFile"}
      PROVE  Flag'
  <2>1. brk \in BOOLEAN
    BY DEF Flag
  <2>2. job' = NoJob /\ brk' = (brk /\ err \notin {"scan", "noFile"})
    BY <1>1, <2>1, ErrDealEnds
  <2>3. brk' = FALSE
    BY <1>1, <2>1, <2>2
  <2> QED BY <2>3 DEF Flag, BreakIsConsumed
<1>2. ASSUME NEW how, NEW p, NEW q, GoOn("select", how, p, q)
      PROVE  Flag'
  BY <1>2, GoOnLeaves DEF Flag, BreakIsConsumed, Looking
<1>3. CASE ScanDone
  BY <1>1, <1>2, <1>3 DEF ScanDone
<1>4. CASE SelectDone
  BY <1>1, <1>4 DEF SelectDone, DecodeStart
<1> QED BY <1>3, <1>4 DEF Scanning

\* Outside a scan scandisk_break is down.
THEOREM BreakIsConsumedAlways == Spec => []BreakIsConsumed
<1>1. Init => Flag
  BY DEF Init, Flag, BreakIsConsumed
<1>2. ASSUME Flag, [Next]_vars
      PROVE  Flag'
  <2>1. CASE MusicLoop
    BY <2>1, <1>2, MusicLoopKeepsFlag
  <2>2. CASE Scanning
    BY <2>2, <1>2, ScanningKeepsFlag
  <2>3. CASE ScanBreak
    <3>1. brk' \in BOOLEAN /\ job' = job /\ Looking
      BY <2>3 DEF ScanBreak, Breaks, PlaysOn, Online
    <3> QED BY <3>1 DEF Flag, BreakIsConsumed, Looking
  <2>4. CASE OtherMode \/ ToneEnd \/ DecoderRuns
    BY <2>4, <1>2 DEF OtherMode, ToneEnd, DecoderRuns, Flag, BreakIsConsumed, Looking
  <2>5. CASE Outside
    <3>1. ASSUME NEW l, PutIn(l) \/ TakeOut(l)
          PROVE  brk' = brk /\ job' = job
      BY <3>1 DEF PutIn, TakeOut
    <3>2. ASSUME NEW k, Press(k)
          PROVE  brk' = brk /\ job' = job
      BY <3>2 DEF Press
    <3>3. ASSUME NEW err, DecoderEnds(err)
          PROVE  brk' = brk /\ job' = job
      BY <3>3 DEF DecoderEnds
    <3>4. brk' = brk /\ job' = job
      BY <2>5, <3>1, <3>2, <3>3 DEF Outside
    <3> QED BY <3>4, <1>2 DEF Flag, BreakIsConsumed, Looking
  <2>6. CASE UNCHANGED vars
    BY <2>6, <1>2 DEF vars, Flag, BreakIsConsumed, Looking
  <2> QED BY <2>1, <2>2, <2>3, <2>4, <2>5, <2>6, <1>2 DEF Next, AppCore
<1>3. Flag => BreakIsConsumed
  BY DEF Flag
<1> QED BY <1>1, <1>2, <1>3, PTL DEF Spec

-----------------------------------------------------------------------------
(***************************************************************************)
(* Dropping the keys: by induction on the length of the queue, as the      *)
(* least counterexample.                                                   *)
(***************************************************************************)
LEMMA KeysDropped ==
  ASSUME NEW M, NEW q \in Seq(M)
  PROVE  WithoutKeys(q) \in Seq({msg \in M : ~IsKey(msg)})
<1> DEFINE K == {msg \in M : ~IsKey(msg)}
           n == Len(q)
           val(f, i) == IF i = 0 THEN <<>> ELSE IF IsKey(q[i]) THEN f[i - 1] ELSE Append(f[i - 1], q[i])
           defined(k) == \E f : f = [i \in 0..k |-> val(f, i)]
           undefined == {k \in 0..n : ~defined(k)}
<1>1. n \in Nat
  OBVIOUS
<1>2. undefined = {}
  <2> SUFFICES ASSUME undefined # {} PROVE FALSE
    OBVIOUS
  <2>1. PICK k \in undefined : \A j \in undefined : k <= j
    <3>1. undefined \in SUBSET Nat
      BY <1>1
    <3> QED BY <3>1, LeastNatural
  <2>2. CASE k = 0
    <3> DEFINE f == [i \in 0..k |-> <<>>]
    <3>1. f = [i \in 0..k |-> val(f, i)]
      BY <2>2
    <3> QED BY <2>1, <3>1
  <2>3. CASE k # 0
    <3>1. k \in Nat /\ k <= n /\ k - 1 \in 0..n /\ ~(k <= k - 1)
      BY <1>1, <2>1, <2>3
    <3>2. k - 1 \notin undefined
      BY <2>1, <3>1
    <3>3. defined(k - 1)
      BY <3>1, <3>2
    <3>4. PICK f : f = [i \in 0..(k - 1) |-> val(f, i)]
      BY <3>3
    <3> DEFINE g == [i \in 0..k |-> IF i = k THEN val(f, k) ELSE f[i]]
    <3>5. \A i \in 0..k : g[i] = val(g, i)
      <4> SUFFICES ASSUME NEW i \in 0..k PROVE g[i] = val(g, i)
        OBVIOUS
      <4>1. i = 0 \/ (i # 0 /\ i - 1 \in 0..k /\ i - 1 # k)
        BY <3>1
      <4>2. i # 0 => g[i - 1] = f[i - 1]
        BY <4>1
      <4>3. i # k => i \in 0..(k - 1)
        BY <3>1
      <4>4. i # k => f[i] = val(f, i)
        BY <3>4, <4>3
      <4>5. g[i] = val(f, i)
        BY <4>4
      <4> QED BY <4>2, <4>5
    <3>6. g = [i \in 0..k |-> val(g, i)]
      BY <3>5
    <3>7. defined(k)
      BY <3>6
    <3> QED BY <2>1, <3>7
  <2> QED BY <2>2, <2>3
<1>3. defined(n)
  <2> HIDE DEF defined
  <2>1. n \in 0..n /\ n \notin undefined
    BY <1>1, <1>2
  <2> QED BY <2>1
<1> DEFINE h == CHOOSE f : f = [i \in 0..n |-> val(f, i)]
<1>4. h = [i \in 0..n |-> val(h, i)]
  BY <1>3
<1>5. WithoutKeys(q) = h[n]
  BY DEF WithoutKeys
<1> HIDE DEF h
<1>6. \A i \in 0..n : h[i] = val(h, i)
  BY <1>4
<1> DEFINE bad == {k \in 0..n : h[k] \notin Seq(K)}
<1>7. bad = {}
  <2> SUFFICES ASSUME bad # {} PROVE FALSE
    OBVIOUS
  <2>1. PICK k \in bad : \A j \in bad : k <= j
    <3>1. bad \in SUBSET Nat
      BY <1>1
    <3> QED BY <3>1, LeastNatural
  <2>2. CASE k = 0
    <3>1. h[k] = <<>>
      BY <1>1, <1>6, <2>2
    <3>2. <<>> \in Seq(K)
      OBVIOUS
    <3> QED BY <2>1, <3>1, <3>2
  <2>3. CASE k # 0
    <3>1. k \in 1..n /\ k - 1 \in 0..n /\ ~(k <= k - 1)
      BY <1>1, <2>1, <2>3
    <3>2. h[k - 1] \in Seq(K)
      BY <2>1, <3>1
    <3>3. h[k] = IF IsKey(q[k]) THEN h[k - 1] ELSE Append(h[k - 1], q[k])
      BY <1>6, <2>3, <3>1
    <3>4. q[k] \in M
      BY <3>1
    <3>5. ~IsKey(q[k]) => q[k] \in K
      BY <3>4
    <3> HIDE DEF K
    <3>6. h[k] \in Seq(K)
      BY <3>2, <3>3, <3>5
    <3> QED BY <2>1, <3>6
  <2> QED BY <2>2, <2>3
<1> QED BY <1>1, <1>5, <1>7

-----------------------------------------------------------------------------
(***************************************************************************)
(* The list with ranks is as good, and what is mounted in it is the same.  *)
(***************************************************************************)
LEMMA RankedSame ==
  ASSUME NEW m, Good(m)
  PROVE  /\ Good(Ranked(m))
         /\ \A a : Online(m, a) => Online(Ranked(m), a)
<1> DEFINE s == m.list
           rank(i) == Cardinality({j \in Places(m) : s[j].stamp < s[i].stamp})
           e(i) == [s[i] EXCEPT !.stamp = rank(i), !.life = 0]
           t == [i \in Places(m) |-> e(i)]
           r == Ranked(m)
<1>1. s \in Seq(Entry) /\ Len(s) \in Nat /\ Places(m) = 1..Len(s)
  BY DEF Good, Typed, Places
<1>2. ASSUME NEW i \in Places(m)
      PROVE  /\ e(i) \in Entry /\ e(i).logo = s[i].logo /\ e(i).addr = s[i].addr
             /\ e(i).valid = s[i].valid /\ e(i).mounted = s[i].mounted
  <2> DEFINE c == rank(i)
             x == s[i]
  <2>1. c \in Nat
    <3> DEFINE B == {j \in Places(m) : s[j].stamp < s[i].stamp}
    <3>1. IsFiniteSet(Places(m))
      BY <1>1, FS_Interval
    <3>2. B \in SUBSET Places(m)
      OBVIOUS
    <3> HIDE DEF B
    <3>3. IsFiniteSet(B)
      BY <3>1, <3>2, FS_Subset
    <3>4. Cardinality(B) \in Nat
      BY <3>3, FS_CardinalityType
    <3> QED BY <3>4 DEF B
  <2>2. x \in Entry
    BY <1>1
  <2>3. e(i) = [x EXCEPT !.stamp = c, !.life = 0]
    OBVIOUS
  <2> HIDE DEF c, x, e
  <2> DEFINE w == [addr |-> x.addr, logo |-> x.logo, mounted |-> x.mounted, valid |-> x.valid,
                   stamp |-> c, life |-> 0]
  <2>4. e(i) = w
    BY <2>2, <2>3 DEF Entry
  <2>5. /\ e(i) \in Entry /\ e(i).logo = x.logo /\ e(i).addr = x.addr
        /\ e(i).valid = x.valid /\ e(i).mounted = x.mounted
    BY <2>1, <2>2, <2>4 DEF Entry
  <2> QED BY <2>5 DEF x
<1>3. r = [list |-> t, counter |-> Len(s)]
  BY DEF Ranked
<1> HIDE DEF e, r
<1>4. t \in Seq(Entry) /\ DOMAIN t = Places(m) /\ \A i \in Places(m) : t[i] = e(i)
  BY <1>1, <1>2
<1> HIDE DEF t
<1>5. Same(m, r)
  BY <1>1, <1>2, <1>3, <1>4 DEF Same, Typed, Places
<1>6. ValidIsUp(r)
  BY <1>2, <1>3, <1>4 DEF ValidIsUp, Places, Good
<1>7. \A i \in Places(m) : r.list[i].mounted = s[i].mounted
  BY <1>2, <1>3, <1>4
<1>8. ASSUME NEW a, Online(m, a) PROVE Online(r, a)
  BY <1>5, <1>7, <1>8, SameKeepsOnline
<1> QED BY <1>5, <1>6, <1>8, SameKeeps DEF r

-----------------------------------------------------------------------------
(***************************************************************************)
(* What holds of the player besides the types: what is decoded is decoded  *)
(* from a mounted device and has a file; while the medium is looked at     *)
(* nothing is decoded; another mode decodes nothing; and while a decoder   *)
(* may be waiting for the tone, no end of an earlier file is in the queue, *)
(* since none has been decoded since the keys were dropped.                *)
(***************************************************************************)
Player == [dev: Addr \cup {NoAddr}, fsn: BOOLEAN, file: BOOLEAN,
           dec: {"stop", "wait", "play", "pause", "ended"}, magic: 0..(Handles - 1)]
HowTo == {"none", "first", "breakpoint", "here"}
JobType == [at: {"idle", "scan", "select"}, how: HowTo]

PlayerOK(m, p) == p \in Player /\ (p.dec # "stop" => Online(m, p.dev) /\ p.file)
NoEnds(q) == \A i \in DOMAIN q : q[i].k # "end"

Core == /\ Good(mgr) /\ PlayerOK(mgr, ply) /\ queue \in Seq(Messages)
        /\ job \in JobType /\ brk \in BOOLEAN /\ errs \in 0..Files
        /\ Looking => Online(mgr, ply.dev) /\ ply.dec = "stop"

Around == /\ slot \in Cards /\ mode \in {"music", "other"}
          /\ tone \in BOOLEAN /\ back \in BOOLEAN
          /\ magic \in 0..(Handles - 1) /\ inputs \in 0..Inputs

Settled == /\ mode = "other" => ply.dec = "stop" /\ ~Looking
           /\ tone \/ ply.dec = "wait" => ply.dec \in {"stop", "wait"} /\ NoEnds(queue)

MInv == Core /\ Around /\ Settled

LEMMA KeyInQueue ==
  ASSUME NEW q \in Seq(Messages), NEW msg \in Messages
  PROVE  /\ Append(q, msg) \in Seq(Messages)
         /\ NoEnds(q) /\ msg.k # "end" => NoEnds(Append(q, msg))
<1>1. Append(q, msg) \in Seq(Messages)
  OBVIOUS
<1>2. ASSUME NoEnds(q), msg.k # "end", NEW i \in DOMAIN Append(q, msg)
      PROVE  Append(q, msg)[i].k # "end"
  <2>1. CASE i \in 1..Len(q)
    BY <1>2, <2>1 DEF NoEnds
  <2>2. CASE i = Len(q) + 1
    BY <1>2, <2>2
  <2> QED BY <1>2, <2>1, <2>2
<1> QED BY <1>1, <1>2 DEF NoEnds

LEMMA KeyIsMessage ==
  ASSUME NEW k \in KeyNames
  PROVE  Key(k) \in Messages /\ Key(k).k = k
BY DEF Key, Messages

\* The head of the queue is a message, the rest has no end if all has none.
LEMMA RestOfQueue ==
  ASSUME NEW q \in Seq(Messages), q # <<>>
  PROVE  /\ Head(q) \in Messages /\ Tail(q) \in Seq(Messages)
         /\ NoEnds(q) => Head(q).k # "end" /\ NoEnds(Tail(q))
<1>1. Head(q) \in Messages /\ Tail(q) \in Seq(Messages) /\ Len(q) \in Nat /\ Len(q) > 0
  OBVIOUS
<1>2. ASSUME NoEnds(q) PROVE Head(q).k # "end"
  BY <1>1, <1>2 DEF NoEnds
<1>3. ASSUME NoEnds(q), NEW i \in DOMAIN Tail(q) PROVE Tail(q)[i].k # "end"
  <2>1. i \in 1..(Len(q) - 1)
    BY <1>1, <1>3
  <2>2. i + 1 \in DOMAIN q /\ Tail(q)[i] = q[i + 1]
    BY <1>1, <2>1
  <2> QED BY <1>3, <2>2 DEF NoEnds
<1> QED BY <1>1, <1>2, <1>3 DEF NoEnds

-----------------------------------------------------------------------------
(***************************************************************************)
(* Errors.                                                                 *)
(***************************************************************************)
LEMMA MarkedGood ==
  ASSUME NEW err, NEW m, NEW p, Good(m)
  PROVE  /\ Good(Marked(err, m, p))
         /\ ~(Lost(err) /\ OnlineValid(m, p.dev)) =>
              \A a : Online(m, a) => Online(Marked(err, m, p), a)
<1>1. CASE WornOut(err, p) \/ (Lost(err) /\ err = "scan" /\ OnlineValid(m, p.dev))
  <2>1. Marked(err, m, p) = SetValid(m, p.dev, FALSE)
    BY <1>1 DEF Marked
  <2> QED BY <2>1, SetValidGood, SetValidKeepsOnline
<1>2. CASE ~(WornOut(err, p) \/ (Lost(err) /\ err = "scan" /\ OnlineValid(m, p.dev)))
  <2>1. CASE Lost(err) /\ OnlineValid(m, p.dev)
    <3>1. Marked(err, m, p) = Unmount(m, LogoOf(m, p.dev))
      BY <1>2, <2>1 DEF Marked
    <3> QED BY <2>1, <3>1, UnmountGood
  <2>2. CASE ~(Lost(err) /\ OnlineValid(m, p.dev))
    BY <1>2, <2>2 DEF Marked
  <2> QED BY <2>1, <2>2
<1> QED BY <1>1, <1>2

LEMMA StoppedOK ==
  ASSUME NEW m, NEW p \in Player
  PROVE  /\ Stopped(p) \in Player /\ Released(p) \in Player
         /\ Stopped(p).dec = "stop" /\ Released(p).dec = "stop"
         /\ Stopped(p).dev = p.dev /\ Released(p).dev = p.dev
BY DEF Stopped, Released, Player

\* An error leaves no decoder on the device it unmounts.
LEMMA ErrDealKeeps ==
  ASSUME NEW err, NEW m, NEW p, NEW q \in Seq(Messages),
         Good(m), PlayerOK(m, p), errs \in 0..Files, brk \in BOOLEAN,
         err \in {"scan", "devRead", "offline"} => p.dec # "wait",
         ErrDeal(err, m, p, q)
  PROVE  /\ Core' /\ ~Looking' /\ ply'.dec \in {"stop", p.dec}
         /\ NoEnds(q) => NoEnds(queue')
<1> DEFINE m1 == Marked(err, m, p)
           k == Answered(err, m1, p)
<1>1. /\ mgr' = Ranked(m1)
      /\ ply' = IF Lost(err) /\ HasPlace(m, p) THEN Stopped(p) ELSE p
      /\ queue' = IF k = "none" THEN q ELSE Append(q, Key(k))
      /\ errs' = CASE err = "decode" -> IF WornOut(err, p) THEN 0 ELSE errs + 1
                  [] err = "null" -> errs
                  [] OTHER -> 0
      /\ BreakEnds(err) /\ job' = NoJob
  BY DEF ErrDeal
<1>2. Good(mgr')
  BY <1>1, MarkedGood, RankedSame
<1>3. p \in Player
  BY DEF PlayerOK
<1>4. PlayerOK(mgr', ply') /\ ply'.dec \in {"stop", p.dec}
  <2>1. CASE Lost(err) /\ HasPlace(m, p)
    BY <1>1, <1>3, <2>1, StoppedOK DEF PlayerOK
  <2>2. CASE ~(Lost(err) /\ HasPlace(m, p))
    <3>1. ply' = p
      BY <1>1, <2>2
    <3>2. ASSUME p.dec # "stop" PROVE Online(mgr', p.dev) /\ p.file
      <4>1. Online(m, p.dev) /\ p.file
        BY <3>2 DEF PlayerOK
      <4>2. ~(Lost(err) /\ OnlineValid(m, p.dev))
        <5> SUFFICES ASSUME Lost(err), OnlineValid(m, p.dev) PROVE FALSE
          OBVIOUS
        <5>1. p.dec # "wait"
          BY DEF Lost
        <5>2. p.dec \in {"play", "pause", "ended"}
          BY <1>3, <3>2, <5>1 DEF Player
        <5> QED BY <2>2, <4>1, <5>2 DEF HasPlace
      <4>3. Online(m1, p.dev)
        BY <4>1, <4>2, MarkedGood
      <4> QED BY <1>1, <4>1, <4>3, MarkedGood, RankedSame
    <3> QED BY <1>3, <3>1, <3>2 DEF PlayerOK
  <2> QED BY <2>1, <2>2
<1>5. k \in {"none", "quit", "prev", "next", "start", "first", "nextDev"}
  BY DEF Answered, QuitOr
<1>6. queue' \in Seq(Messages) /\ (NoEnds(q) => NoEnds(queue'))
  <2>1. CASE k = "none"
    BY <1>1, <2>1
  <2>2. CASE k # "none"
    <3> HIDE DEF k
    <3>1. k \in KeyNames /\ k # "end"
      BY <1>5, <2>2 DEF KeyNames
    <3> QED BY <1>1, <2>2, <3>1, KeyIsMessage, KeyInQueue
  <2> QED BY <2>1, <2>2
<1>7. errs' \in 0..Files
  <2>1. CASE err = "decode" /\ ~WornOut(err, p)
    <3>1. errs' = errs + 1
      BY <1>1, <2>1
    <3>2. ~(errs >= (IF p.fsn THEN Files ELSE 0))
      BY <2>1 DEF WornOut
    <3>3. Files \in Nat
      BY MusicAssumption
    <3> QED BY <3>1, <3>2, <3>3
  <2>2. CASE ~(err = "decode" /\ ~WornOut(err, p))
    <3>1. errs' \in {0, errs}
      BY <1>1, <2>2
    <3> QED BY <3>1, MusicAssumption
  <2> QED BY <2>1, <2>2
<1>8. brk' \in BOOLEAN
  BY <1>1 DEF BreakEnds
<1>9. job' \in JobType /\ ~Looking'
  BY <1>1 DEF NoJob, JobType, HowTo, Looking
<1> QED BY <1>2, <1>4, <1>6, <1>7, <1>8, <1>9 DEF Core

\* Going on to look at a medium that is mounted.
LEMMA GoOnKeeps ==
  ASSUME Core, NEW at \in {"scan", "select"}, NEW how \in HowTo, NEW p \in Player,
         NEW q \in Seq(Messages), p.dec = "stop", Online(mgr, p.dev), GoOn(at, how, p, q)
  PROVE  Core' /\ ply'.dec = "stop" /\ queue' = q
<1>1. mgr' = mgr /\ ply' = p /\ queue' = q /\ brk' = brk /\ errs' = errs /\ job' = [at |-> at, how |-> how]
  BY DEF GoOn
<1>2. job' \in JobType
  BY <1>1 DEF JobType
<1> QED BY <1>1, <1>2 DEF Core, PlayerOK

\* What a way to play leaves: nothing is decoded, and q stands in the queue
\* with at most a key behind it.
Begun(q) == Core' /\ ply'.dec = "stop" /\ (NoEnds(q) => NoEnds(queue'))

LEMMA PlayHereKeeps ==
  ASSUME Core, NEW q \in Seq(Messages), PlayHere(q)
  PROVE  Begun(q)
<1> DEFINE p == Stopped(ply)
<1>1. p \in Player /\ p.dec = "stop" /\ PlayerOK(mgr, p)
  BY StoppedOK DEF Core, PlayerOK
<1>2. ASSUME NEW err \in {"offline", "scan"}, ErrDeal(err, mgr, p, q) PROVE Begun(q)
  <2>1. Core' /\ ply'.dec \in {"stop", p.dec} /\ (NoEnds(q) => NoEnds(queue'))
    BY <1>1, <1>2, ErrDealKeeps DEF Core
  <2> QED BY <1>1, <2>1 DEF Begun
<1>3. ASSUME OnlineValid(mgr, p.dev), GoOn("select", "here", p, q) PROVE Begun(q)
  <2>1. Online(mgr, p.dev)
    BY <1>3 DEF OnlineValid, Online
  <2> QED BY <1>1, <1>3, <2>1, GoOnKeeps DEF Begun, HowTo
<1> QED BY <1>2, <1>3 DEF PlayHere

LEMMA PlayOnKeeps ==
  ASSUME Core, NEW l, NEW how \in HowTo, NEW q \in Seq(Messages), PlayOn(l, how, q)
  PROVE  Begun(q)
<1> DEFINE a == FindSpec(mgr, l, TRUE)
           p == [Released(ply) EXCEPT !.dev = a]
<1>1. Known(mgr, a)
  BY LookupsKnown DEF Core, Good
<1>2. a \in Addr \cup {NoAddr}
  BY <1>1 DEF Known
<1>3. p \in Player /\ p.dec = "stop" /\ p.dev = a
  <2>1. Released(ply) \in Player /\ Released(ply).dec = "stop"
    BY StoppedOK DEF Core, PlayerOK
  <2> HIDE DEF a
  <2> QED BY <1>2, <2>1 DEF Player
<1>4. CASE a = NoAddr
  <2>1. ErrDeal("noDev", mgr, p, q)
    BY <1>3, <1>4 DEF PlayOn
  <2>2. PlayerOK(mgr, p)
    BY <1>3 DEF PlayerOK
  <2>3. Core' /\ ply'.dec \in {"stop", p.dec} /\ (NoEnds(q) => NoEnds(queue'))
    BY <2>1, <2>2, ErrDealKeeps DEF Core
  <2> QED BY <1>3, <2>3 DEF Begun
<1>5. CASE a # NoAddr
  <2>1. GoOn("scan", how, p, q)
    BY <1>3, <1>5 DEF PlayOn
  <2>2. Online(mgr, a)
    BY <1>1, <1>5 DEF Known
  <2> QED BY <1>3, <2>1, <2>2, GoOnKeeps DEF Begun
<1> QED BY <1>4, <1>5

LEMMA PlayNeighbourKeeps ==
  ASSUME Core, NEW next, NEW q \in Seq(Messages), PlayNeighbour(next, q)
  PROVE  Begun(q)
<1>1. \/ PlayHere(q)
      \/ \E l : PlayOn(l, "first", q)
  BY DEF PlayNeighbour, PlayAround
<1> QED BY <1>1, PlayHereKeeps, PlayOnKeeps DEF HowTo

-----------------------------------------------------------------------------
(***************************************************************************)
(* The message loop.                                                       *)
(***************************************************************************)
\* While a message of music mode is handled.
LEMMA Taken ==
  ASSUME MInv, NEW k, Take(k)
  PROVE  /\ mode = "music" /\ ~Looking /\ Head(queue) \in Messages /\ Head(queue).k = k
         /\ Rest \in Seq(Messages)
         /\ NoEnds(queue) => NoEnds(Rest) /\ k # "end"
BY RestOfQueue DEF Take, Rest, MInv, Core

\* The ways a handler ends: something else is begun, or what was decoded goes
\* on or is paused.
LEMMA BegunKeeps ==
  ASSUME MInv, mode = "music", NEW q, NoEnds(queue) => NoEnds(q), Begun(q),
         UNCHANGED <<slot, mode, tone, magic, inputs>>, back' \in BOOLEAN
  PROVE  MInv'
<1>1. Core' /\ Around'
  BY DEF MInv, Begun, Around
<1>2. Settled'
  BY DEF MInv, Begun, Settled
<1> QED BY <1>1, <1>2 DEF MInv

LEMMA DealtKeeps ==
  ASSUME MInv, mode = "music", NEW err, NEW p, NEW q \in Seq(Messages), NoEnds(queue) => NoEnds(q),
         PlayerOK(mgr, p), err \in {"scan", "devRead", "offline"} => p.dec # "wait",
         (p.dec = "wait") <=> (ply.dec = "wait"), (p.dec = "stop") <=> (ply.dec = "stop"),
         ErrDeal(err, mgr, p, q),
         UNCHANGED <<slot, mode, tone, magic, inputs>>, back' \in BOOLEAN
  PROVE  MInv'
<1>1. /\ Core' /\ ~Looking' /\ ply'.dec \in {"stop", p.dec}
      /\ NoEnds(q) => NoEnds(queue')
  BY ErrDealKeeps DEF MInv, Core
<1>2. Around'
  BY DEF MInv, Around
<1>3. Settled'
  BY <1>1 DEF MInv, Settled
<1> QED BY <1>1, <1>2, <1>3 DEF MInv

\* A queue without keys.
LEMMA NoKeysLeft ==
  ASSUME NEW q \in Seq(Messages)
  PROVE  WithoutKeys(q) \in Seq(Messages) /\ NoEnds(WithoutKeys(q))
<1> DEFINE K == {msg \in Messages : ~IsKey(msg)}
           r == WithoutKeys(q)
<1>1. r \in Seq(K)
  BY KeysDropped
<1> HIDE DEF r
<1>2. \A msg \in K : msg.k # "end" /\ msg \in Messages
  BY DEF IsKey
<1> HIDE DEF K
<1>3. Len(r) \in Nat /\ DOMAIN r = 1..Len(r) /\ r = [i \in 1..Len(r) |-> r[i]]
      /\ \A i \in 1..Len(r) : r[i] \in K
  BY <1>1
<1>4. r \in Seq(Messages)
  BY <1>2, <1>3
<1>5. NoEnds(r)
  BY <1>2, <1>3 DEF NoEnds
<1> QED BY <1>4, <1>5 DEF r

LEMMA NobodyPlays == NoPlayer \in Player /\ NoPlayer.dec = "stop" /\ 0 \in 0..(Handles - 1)
  BY MusicAssumption DEF NoPlayer, Player

\* The messages of a card name its slot.
LEMMA CardMessage ==
  ASSUME NEW msg \in Messages, msg.k \in {"in", "out"}
  PROVE  msg.d \in Logo
BY DEF Messages, KeyNames

LEMMA AddKeeps ==
  ASSUME Good(mgr), NEW l \in Logo, Add(l)
  PROVE  Good(mgr') /\ \A a : Online(mgr, a) => Online(mgr', a)
<1>1. CASE InList(mgr, l)
  BY <1>1 DEF Add
<1>2. CASE ~InList(mgr, l)
  <2>1. PICK b \in Addr \ Used(mgr) : mgr' = Ranked(Insert(mgr, l, b, Mounts(l)))
    BY <1>2 DEF Add
  <2>2. Mounts(l) \in BOOLEAN
    BY DEF Mounts
  <2>3. Good(Insert(mgr, l, b, Mounts(l)))
    BY <1>2, <2>1, <2>2, InsertGood
  <2>4. \A a : Online(mgr, a) => Online(Insert(mgr, l, b, Mounts(l)), a)
    BY InsertKeepsOnline DEF Good
  <2> QED BY <2>1, <2>3, <2>4, RankedSame
<1> QED BY <1>1, <1>2

LEMMA RemoveKeeps ==
  ASSUME Good(mgr), NEW l, mgr' = Ranked(Remove(mgr, l))
  PROVE  Good(mgr') /\ \A a : Online(mgr, a) /\ LogoOf(mgr, a) # l => Online(mgr', a)
<1>1. Good(Remove(mgr, l))
  BY RemoveGood
<1>2. \A a : Online(mgr, a) /\ LogoOf(mgr, a) # l => Online(Remove(mgr, l), a)
  BY RemoveKeepsOnline
<1> QED BY <1>1, <1>2, RankedSame

LEMMA StartBehind ==
  ASSUME NEW q \in Seq(Messages), NEW r, r = Append(q, Key("start")) \/ r = q
  PROVE  r \in Seq(Messages) /\ (NoEnds(q) => NoEnds(r))
BY KeyIsMessage, KeyInQueue DEF KeyNames

LEMMA MusicLoopKeeps ==
  ASSUME MInv, MusicLoop
  PROVE  MInv'
<1>0. Core /\ back \in BOOLEAN /\ PlayerOK(mgr, ply) /\ ply \in Player
  BY DEF MInv, Core, Around, PlayerOK
<1>1. CASE Start
  <2> DEFINE a == FindActive(mgr, TRUE)
  <2>1. Take("start") /\ UNCHANGED back /\ KeepMode
    BY <1>1 DEF Start
  <2>2. mode = "music" /\ Rest \in Seq(Messages) /\ (NoEnds(queue) => NoEnds(Rest))
    BY <2>1, Taken
  <2>3. \/ PlayHere(Rest)
        \/ ErrDeal("null", mgr, ply, Rest)
        \/ \E how \in HowTo : PlayOn(LogoOf(mgr, a), how, Rest)
    BY <1>1 DEF Start, HowTo
  <2>4. CASE ErrDeal("null", mgr, ply, Rest)
    BY <1>0, <2>1, <2>2, <2>4, DealtKeeps DEF KeepMode
  <2>5. CASE PlayHere(Rest) \/ \E how \in HowTo : PlayOn(LogoOf(mgr, a), how, Rest)
    <3>1. Begun(Rest)
      BY <1>0, <2>2, <2>5, PlayHereKeeps, PlayOnKeeps
    <3> QED BY <1>0, <2>1, <2>2, <3>1, BegunKeeps DEF KeepMode
  <2> QED BY <2>3, <2>4, <2>5
<1>2. CASE ChangeDev
  <2> DEFINE a == FindNext(mgr, ply.dev, TRUE)
  <2>1. (Take("nextDev") \/ Take("changeDev")) /\ UNCHANGED back /\ KeepMode
    BY <1>2 DEF ChangeDev
  <2>2. mode = "music" /\ Rest \in Seq(Messages) /\ (NoEnds(queue) => NoEnds(Rest))
    BY <2>1, Taken
  <2>3. \/ ErrDeal("null", mgr, ply, Rest)
        \/ \E how \in HowTo : PlayOn(LogoOf(mgr, a), how, Rest)
    BY <1>2 DEF ChangeDev, HowTo
  <2>4. CASE ErrDeal("null", mgr, ply, Rest)
    BY <1>0, <2>1, <2>2, <2>4, DealtKeeps DEF KeepMode
  <2>5. CASE \E how \in HowTo : PlayOn(LogoOf(mgr, a), how, Rest)
    <3>1. Begun(Rest)
      BY <1>0, <2>2, <2>5, PlayOnKeeps
    <3> QED BY <1>0, <2>1, <2>2, <3>1, BegunKeeps DEF KeepMode
  <2> QED BY <2>3, <2>4, <2>5
<1>3. ASSUME NEW k, Take(k), PlayHere(Rest) \/ \E next : PlayNeighbour(next, Rest),
             back' \in BOOLEAN, KeepMode
      PROVE  MInv'
  <2>1. mode = "music" /\ Rest \in Seq(Messages) /\ (NoEnds(queue) => NoEnds(Rest))
    BY <1>3, Taken
  <2>2. Begun(Rest)
    BY <1>0, <1>3, <2>1, PlayHereKeeps, PlayNeighbourKeeps
  <2> QED BY <1>3, <2>1, <2>2, BegunKeeps DEF KeepMode
<1>4. CASE PlayNext \/ PlayPrev \/ PlayFirst
  BY <1>0, <1>3, <1>4 DEF PlayNext, PlayPrev, PlayFirst
<1>5. CASE End
  <2> DEFINE msg == Head(queue)
  <2>1. Take("end") /\ UNCHANGED back /\ KeepMode
    BY <1>5 DEF End
  <2>2. mode = "music" /\ Rest \in Seq(Messages) /\ (NoEnds(queue) => NoEnds(Rest)) /\ ~NoEnds(queue)
    BY <2>1, Taken
  <2>3. ply.dec # "wait"
    BY <2>2 DEF MInv, Settled
  <2>4. PlayNeighbour(TRUE, Rest) \/ \E err : ErrDeal(err, mgr, ply, Rest)
    BY <1>5 DEF End
  <2>5. ASSUME NEW err, ErrDeal(err, mgr, ply, Rest) PROVE MInv'
    BY <1>0, <2>1, <2>2, <2>3, <2>5, DealtKeeps DEF KeepMode
  <2> QED BY <1>0, <1>3, <2>1, <2>4, <2>5
<1>6. CASE DecErr
  <2>1. mode = "music" /\ Rest \in Seq(Messages) /\ (NoEnds(queue) => NoEnds(Rest))
    BY <1>6, Taken DEF DecErr
  <2> QED BY <1>0, <1>6, <2>1, DealtKeeps DEF DecErr, KeepMode
<1>7. CASE PlayPause
  <2> DEFINE dec == CASE ply.dec = "play" -> "pause" [] ply.dec = "pause" -> "play" [] OTHER -> ply.dec
             p == [ply EXCEPT !.dec = dec]
  <2>1. mode = "music" /\ Rest \in Seq(Messages) /\ (NoEnds(queue) => NoEnds(Rest))
    BY <1>7, Taken DEF PlayPause
  <2>2. ErrDeal("null", mgr, p, Rest)
    BY <1>7 DEF PlayPause
  <2>3. /\ dec \in {"stop", "wait", "play", "pause", "ended"}
        /\ (dec = "wait") <=> (ply.dec = "wait")
        /\ (dec = "stop") <=> (ply.dec = "stop")
    BY <1>0 DEF Player
  <2> HIDE DEF dec
  <2>4. p \in Player /\ p.dec = dec /\ p.dev = ply.dev /\ p.file = ply.file
    BY <1>0, <2>3 DEF Player
  <2>5. PlayerOK(mgr, p)
    BY <1>0, <2>3, <2>4 DEF PlayerOK
  <2> QED BY <1>0, <1>7, <2>1, <2>2, <2>3, <2>4, <2>5, DealtKeeps DEF PlayPause, KeepMode
<1>8. CASE Leave
  <2>1. Rest \in Seq(Messages)
    BY <1>8, Taken DEF Leave
  <2>2. /\ mode' = "other" /\ tone' = FALSE /\ ply' = NoPlayer /\ queue' = WithoutKeys(Rest)
        /\ brk' = FALSE /\ errs' = 0 /\ back' = FALSE /\ job' = NoJob
        /\ UNCHANGED <<mgr, slot, magic, inputs>>
    BY <1>8 DEF Leave
  <2>3. job' \in JobType /\ ~Looking'
    BY <2>2 DEF NoJob, JobType, HowTo, Looking
  <2>4. Core'
    <3>1. Good(mgr')
      BY <2>2 DEF MInv, Core
    <3>2. PlayerOK(mgr', ply')
      BY <2>2, NobodyPlays DEF PlayerOK
    <3>3. queue' \in Seq(Messages)
      BY <2>1, <2>2, NoKeysLeft
    <3>4. brk' \in BOOLEAN
      BY <2>2
    <3>5. errs' \in 0..Files
      <4>1. Files \in Nat /\ errs' = 0
        BY <2>2, MusicAssumption
      <4> QED BY <4>1
    <3> QED BY <2>3, <3>1, <3>2, <3>3, <3>4, <3>5 DEF Core
  <2>5. Around' /\ Settled'
    BY <2>2, <2>3, NobodyPlays DEF MInv, Around, Settled
  <2> QED BY <2>4, <2>5 DEF MInv
<1>9. CASE CardIn \/ CardOut
  <2> DEFINE l == Head(queue).d
  <2>1. PICK k \in {"in", "out"} : Take(k)
    BY <1>9 DEF CardIn, CardOut
  <2>2. /\ mode = "music" /\ ~Looking /\ Head(queue) \in Messages /\ Head(queue).k = k
        /\ Rest \in Seq(Messages) /\ (NoEnds(queue) => NoEnds(Rest))
    BY <2>1, Taken
  <2>3. l \in Logo
    BY <2>2, CardMessage
  <2>4. UNCHANGED <<slot, mode, tone, magic, job, brk, errs, back, inputs>> /\ ply' \in {ply, Released(ply)}
    BY <1>9 DEF CardIn, CardOut
  <2>5. queue' = Append(Rest, Key("start")) \/ queue' = Rest
    BY <1>9 DEF CardIn, CardOut
  <2>6. queue' \in Seq(Messages) /\ (NoEnds(queue) => NoEnds(queue'))
    BY <2>2, <2>5, StartBehind
  <2>7. Good(mgr') /\ (ply'.dec # "stop" => Online(mgr', ply'.dev))
    <3>0. Good(mgr) /\ Released(ply).dec = "stop" /\ (ply.dec # "stop" => Online(mgr, ply.dev))
      BY <1>0, StoppedOK DEF Core, PlayerOK
    <3>1. CASE CardIn
      BY <2>3, <2>4, <3>0, <3>1, AddKeeps DEF CardIn
    <3>2. CASE CardOut
      <4>1. mgr' = Ranked(Remove(mgr, l)) /\ ply' = IF PlaysOn(l) THEN Released(ply) ELSE ply
        BY <3>2 DEF CardOut
      <4> HIDE DEF l
      <4> QED BY <3>0, <4>1, RemoveKeeps DEF PlaysOn
    <3> QED BY <1>9, <3>1, <3>2
  <2>8. /\ ply' \in Player /\ ply'.dec \in {"stop", ply.dec}
        /\ ply'.dec # "stop" => ply' = ply
    BY <1>0, <2>4, StoppedOK
  <2>9. PlayerOK(mgr', ply')
    BY <1>0, <2>7, <2>8 DEF PlayerOK
  <2>10. Core'
    BY <2>2, <2>4, <2>6, <2>7, <2>9 DEF MInv, Core, Looking
  <2>11. Around' /\ Settled'
    BY <2>2, <2>4, <2>6, <2>8 DEF MInv, Around, Settled
  <2> QED BY <2>10, <2>11 DEF MInv
<1> QED BY <1>1, <1>2, <1>4, <1>5, <1>6, <1>7, <1>8, <1>9 DEF MusicLoop

-----------------------------------------------------------------------------
(***************************************************************************)
(* The scan, the other modes and what comes from outside.                  *)
(***************************************************************************)
LEMMA ScanningKeeps ==
  ASSUME MInv, Scanning
  PROVE  MInv'
<1>0. /\ Core /\ Looking /\ Online(mgr, ply.dev) /\ ply.dec = "stop" /\ mode # "other"
      /\ ply \in Player /\ Handles \in Nat \ {0} /\ Good(mgr)
  BY MusicAssumption DEF Scanning, ScanDone, SelectDone, Looking, MInv, Core, Settled, PlayerOK
<1>1. PlayerOK(mgr, ply)
  BY <1>0 DEF PlayerOK
\* an error of the scan or of the search
<1>2. ASSUME NEW err, NEW p \in Player, p.dec = "stop", p.dev = ply.dev, ErrDeal(err, mgr, p, queue),
             UNCHANGED <<slot, mode, tone, magic, back, inputs>>
      PROVE  MInv'
  <2>1. PlayerOK(mgr, p)
    BY <1>2 DEF PlayerOK
  <2>2. queue \in Seq(Messages)
    BY <1>0 DEF Core
  <2>3. Core' /\ ~Looking' /\ ply'.dec \in {"stop", p.dec} /\ (NoEnds(queue) => NoEnds(queue'))
    BY <1>0, <1>2, <2>1, <2>2, ErrDealKeeps DEF Core
  <2> QED BY <1>0, <1>2, <2>3 DEF MInv, Around, Settled
<1>3. CASE ScanDone
  <2> DEFINE p == [ply EXCEPT !.fsn = TRUE]
  <2>1. p \in Player /\ p.dec = "stop" /\ p.dev = ply.dev
    BY <1>0 DEF Player
  <2>2. UNCHANGED <<slot, mode, tone, magic, back, inputs>>
    BY <1>3 DEF ScanDone
  <2>3. \/ ErrDeal("scan", mgr, ply, queue)
        \/ ErrDeal("parm", mgr, p, queue)
        \/ GoOn("select", job.how, p, queue)
    BY <1>3 DEF ScanDone
  <2>4. CASE ErrDeal("scan", mgr, ply, queue) \/ ErrDeal("parm", mgr, p, queue)
    BY <1>0, <1>2, <2>1, <2>2, <2>4
  <2>5. CASE GoOn("select", job.how, p, queue)
    <3>1. job.how \in HowTo /\ queue \in Seq(Messages)
      BY <1>0 DEF Core, JobType
    <3>2. Core' /\ ply'.dec = "stop" /\ queue' = queue
      BY <1>0, <2>1, <2>5, <3>1, GoOnKeeps
    <3> QED BY <1>0, <2>2, <3>2 DEF MInv, Around, Settled
  <2> QED BY <2>3, <2>4, <2>5
<1>4. ASSUME NEW err, DecodeStart(err), err = "ok" \/ err = "decode" \/ err = "noRam",
             UNCHANGED <<slot, mode, tone, back, inputs>>
      PROVE  MInv'
  <2> DEFINE dec == IF err # "ok" THEN "stop" ELSE IF tone THEN "wait" ELSE "play"
             p == [dev |-> ply.dev, fsn |-> ply.fsn, file |-> TRUE, dec |-> dec, magic |-> magic]
             m == IF err = "ok" THEN SetActive(mgr, ply.dev) ELSE mgr
  <2>1. ErrDeal(err, m, p, queue)
    BY <1>4 DEF DecodeStart
  <2>2. Good(m) /\ Online(m, ply.dev)
    BY <1>0, SetActiveGood, SetActiveKeepsOnline
  <2>3. dec \in {"stop", "wait", "play"}
    OBVIOUS
  <2>4. magic \in 0..(Handles - 1)
    BY DEF MInv, Around
  <2>5. p \in Player /\ p.dec = dec /\ p.dev = ply.dev /\ p.file = TRUE
    <3> HIDE DEF dec
    <3> QED BY <1>0, <2>3, <2>4 DEF Player
  <2>6. PlayerOK(m, p)
    BY <2>2, <2>5 DEF PlayerOK
  <2>7. queue \in Seq(Messages)
    BY <1>0 DEF Core
  <2>8. Core' /\ ~Looking' /\ ply'.dec \in {"stop", dec} /\ (NoEnds(queue) => NoEnds(queue'))
    <3>1. err \notin {"scan", "devRead", "offline"}
      BY <1>4
    <3> HIDE DEF p, m
    <3> QED BY <1>0, <2>1, <2>2, <2>5, <2>6, <2>7, <3>1, ErrDealKeeps DEF Core
  <2>9. magic' \in 0..(Handles - 1)
    <3>1. magic' = magic \/ magic' = (magic + 1) % Handles
      BY <1>4 DEF DecodeStart
    <3> QED BY <1>0, <2>4, <3>1
  <2>10. Settled'
    <3>1. ply'.dec = "wait" => tone
      BY <2>8
    <3>2. tone => NoEnds(queue)
      BY DEF MInv, Settled
    <3>3. tone => dec \in {"stop", "wait"}
      OBVIOUS
    <3> HIDE DEF dec
    <3> QED BY <1>0, <1>4, <2>8, <3>1, <3>2, <3>3 DEF Settled
  <2> QED BY <1>4, <2>8, <2>9, <2>10 DEF MInv, Around
<1>5. CASE SelectDone
  <2> DEFINE p == [ply EXCEPT !.file = TRUE]
  <2>1. p \in Player /\ p.dec = "stop" /\ p.dev = ply.dev
    BY <1>0 DEF Player
  <2>2. UNCHANGED <<slot, mode, tone, back, inputs>>
    BY <1>5 DEF SelectDone
  <2>3. \/ ErrDeal("noFile", mgr, ply, queue) /\ UNCHANGED magic
        \/ ErrDeal("parm", mgr, p, queue) /\ UNCHANGED magic
        \/ \E err \in DecoderAnswers : DecodeStart(err)
    BY <1>5 DEF SelectDone
  <2>4. DecoderAnswers \subseteq {"ok", "decode", "noRam"}
    BY DEF DecoderAnswers
  <2> QED BY <1>0, <1>2, <1>4, <2>1, <2>2, <2>3, <2>4
<1> QED BY <1>3, <1>5 DEF Scanning

\* The callback of the scan deletes a device that is not the player's.
LEMMA ScanBreakKeeps ==
  ASSUME MInv, ScanBreak
  PROVE  MInv'
<1> DEFINE msg == Head(queue)
           l == msg.d
<1>1. /\ Looking /\ queue # <<>> /\ brk' = Breaks(msg)
      /\ queue' = IF Breaks(msg) THEN Append(Rest, msg) ELSE Rest
      /\ mgr' = IF msg.k = "out" /\ ~Breaks(msg) THEN Ranked(Remove(mgr, l)) ELSE mgr
      /\ UNCHANGED <<slot, mode, tone, ply, magic, job, errs, back, inputs>>
  BY DEF ScanBreak
<1>2. Core /\ Around /\ Good(mgr) /\ Online(mgr, ply.dev) /\ ply.dec = "stop" /\ ply \in Player
  BY <1>1 DEF MInv, Core, PlayerOK
<1>3. /\ msg \in Messages /\ Rest \in Seq(Messages)
      /\ NoEnds(queue) => msg.k # "end" /\ NoEnds(Rest)
  BY <1>1, RestOfQueue DEF MInv, Core, Rest
<1>4. queue' \in Seq(Messages) /\ (NoEnds(queue) => NoEnds(queue'))
  BY <1>1, <1>3, KeyInQueue
<1>5. Good(mgr') /\ Online(mgr', ply.dev)
  <2>1. CASE msg.k = "out" /\ ~Breaks(msg)
    <3>1. LogoOf(mgr, ply.dev) # l
      BY <1>2, <2>1 DEF Breaks, PlaysOn
    <3>2. mgr' = Ranked(Remove(mgr, l))
      BY <1>1, <2>1
    <3> HIDE DEF l
    <3> QED BY <1>2, <3>1, <3>2, RemoveKeeps
  <2>2. CASE ~(msg.k = "out" /\ ~Breaks(msg))
    BY <1>1, <1>2, <2>2
  <2> QED BY <2>1, <2>2
<1>6. brk' \in BOOLEAN
  BY <1>1 DEF Breaks, PlaysOn, Online
<1>7. Core'
  BY <1>1, <1>2, <1>4, <1>5, <1>6 DEF Core, PlayerOK, Looking
<1>8. Around' /\ Settled'
  BY <1>1, <1>2, <1>4 DEF MInv, Around, Settled, Looking
<1> QED BY <1>7, <1>8 DEF MInv

LEMMA OtherModeKeeps ==
  ASSUME MInv, OtherMode
  PROVE  MInv'
<1> DEFINE msg == Head(queue)
<1>1. /\ mode = "other" /\ queue # <<>>
      /\ UNCHANGED <<slot, ply, magic, job, brk, errs, back, inputs>>
  BY DEF OtherMode
<1>2. /\ Core /\ Around /\ Good(mgr) /\ ply.dec = "stop" /\ ~Looking /\ ply \in Player
  BY <1>1 DEF MInv, Core, Settled, PlayerOK
<1>3. /\ msg \in Messages /\ Rest \in Seq(Messages)
      /\ NoEnds(queue) => NoEnds(Rest)
  BY <1>1, RestOfQueue DEF MInv, Core, Rest
\* all that is needed of a step of another mode
<1>4. ASSUME Good(mgr'), queue' \in Seq(Messages), NoEnds(queue) => NoEnds(queue'),
             \/ UNCHANGED <<mode, tone>>
             \/ mode' = "music" /\ tone' = TRUE /\ NoEnds(queue')
      PROVE  MInv'
  <2>1. Core'
    BY <1>1, <1>2, <1>4 DEF Core, PlayerOK, Looking
  <2>2. Around'
    BY <1>1, <1>2, <1>4 DEF Around
  <2>3. Settled'
    BY <1>1, <1>2, <1>4 DEF MInv, Settled, Looking
  <2> QED BY <2>1, <2>2, <2>3 DEF MInv
<1>5. ASSUME EnterMusic(Rest)
      PROVE  mode' = "music" /\ tone' = TRUE /\ queue' \in Seq(Messages) /\ NoEnds(queue')
  BY <1>3, <1>5, NoKeysLeft DEF EnterMusic
<1>6. CASE msg.k = "in" /\ Add(msg.d)
           /\ \/ AddSucceeds(msg.d) /\ EnterMusic(Rest)
              \/ /\ UNCHANGED <<mode, tone>>
                 /\ queue' = IF AddSucceeds(msg.d) THEN Append(Rest, Key("start")) ELSE Rest
  <2>1. Good(mgr')
    BY <1>2, <1>3, <1>6, CardMessage, AddKeeps
  <2>2. CASE EnterMusic(Rest)
    BY <1>4, <1>5, <2>1, <2>2
  <2>3. CASE UNCHANGED <<mode, tone>> /\ (queue' = Append(Rest, Key("start")) \/ queue' = Rest)
    <3>1. queue' \in Seq(Messages) /\ (NoEnds(queue) => NoEnds(queue'))
      BY <1>3, <2>3, StartBehind
    <3> QED BY <1>4, <2>1, <2>3, <3>1
  <2> QED BY <1>6, <2>2, <2>3
<1>7. CASE msg.k = "out" /\ mgr' = Ranked(Remove(mgr, msg.d)) /\ queue' = Rest /\ UNCHANGED <<mode, tone>>
  <2>1. Good(mgr')
    BY <1>2, <1>7, RemoveKeeps
  <2> QED BY <1>3, <1>4, <1>7, <2>1
<1>8. CASE EnterMusic(Rest) /\ UNCHANGED mgr
  BY <1>2, <1>4, <1>5, <1>8
<1>9. CASE queue' = Rest /\ UNCHANGED <<mgr, mode, tone>>
  BY <1>2, <1>3, <1>4, <1>9
<1> QED BY <1>6, <1>7, <1>8, <1>9 DEF OtherMode

LEMMA OutsideKeeps ==
  ASSUME MInv, Outside \/ ToneEnd \/ DecoderRuns
  PROVE  MInv'
<1>0. /\ Core /\ Around /\ PlayerOK(mgr, ply) /\ ply \in Player /\ queue \in Seq(Messages) /\ Good(mgr)
      /\ inputs \in 0..Inputs /\ Inputs \in Nat
  BY MusicAssumption DEF MInv, Core, Around, PlayerOK
\* An event that is posted without the player being touched.
<1>1. ASSUME NEW msg \in Messages, msg.k # "end", slot' \in Cards, queue' = Append(queue, msg),
             inputs' \in 0..Inputs, tone' \in {tone, FALSE},
             UNCHANGED <<mgr, mode, ply, magic, job, brk, errs, back>>
      PROVE  MInv'
  <2>1. queue' \in Seq(Messages) /\ (NoEnds(queue) => NoEnds(queue'))
    BY <1>0, <1>1, KeyInQueue
  <2>2. Core'
    BY <1>0, <1>1, <2>1 DEF Core, Looking
  <2>3. Around'
    BY <1>0, <1>1 DEF Around
  <2>4. Settled'
    <3>1. tone' => tone
      BY <1>1
    <3>2. tone' \/ ply'.dec = "wait" => ply'.dec \in {"stop", "wait"} /\ NoEnds(queue')
      BY <1>1, <2>1, <3>1 DEF MInv, Settled
    <3>3. mode' = "other" => ply'.dec = "stop" /\ ~Looking'
      BY <1>1 DEF MInv, Settled, Looking
    <3> QED BY <3>2, <3>3 DEF Settled
  <2> QED BY <2>2, <2>3, <2>4 DEF MInv
<1>2. ASSUME NEW msg, Post(msg) PROVE inputs' \in 0..Inputs /\ queue' = Append(queue, msg)
  BY <1>0, <1>2 DEF Post
<1>3. ASSUME NEW l \in Logo, PutIn(l) \/ TakeOut(l) PROVE MInv'
  <2>1. PICK k \in {"in", "out"} : Post([k |-> k, d |-> l])
    BY <1>3 DEF PutIn, TakeOut
  <2>2. [k |-> k, d |-> l] \in Messages /\ [k |-> k, d |-> l].k # "end"
    BY DEF Messages
  <2>3. PICK medium \in {"none"} \cup Media : slot' = [slot EXCEPT ![l] = medium]
    BY <1>3 DEF PutIn, TakeOut
  <2>4. slot' \in Cards
    BY <1>0, <2>3 DEF Around, Cards
  <2>5. UNCHANGED <<mgr, mode, tone, ply, magic, job, brk, errs, back>>
    BY <1>3 DEF PutIn, TakeOut
  <2> QED BY <1>1, <1>2, <2>1, <2>2, <2>4, <2>5
<1>4. ASSUME NEW k \in Keys, Press(k) PROVE MInv'
  <2>1. k \in KeyNames /\ k # "end"
    BY MusicAssumption DEF KeyNames
  <2>2. Key(k) \in Messages /\ Key(k).k # "end"
    BY <2>1, KeyIsMessage
  <2>3. Post(Key(k)) /\ UNCHANGED <<mgr, slot, mode, tone, ply, magic, job, brk, errs, back>>
    BY <1>4 DEF Press
  <2> QED BY <1>0, <1>1, <1>2, <2>2, <2>3 DEF Around
<1>5. CASE ToneEnd
  <2>1. Key("start") \in Messages /\ Key("start").k # "end"
    BY KeyIsMessage DEF KeyNames
  <2>2. /\ queue' = Append(queue, Key("start")) /\ tone' = FALSE
        /\ UNCHANGED <<mgr, slot, mode, ply, magic, job, brk, errs, back, inputs>>
    BY <1>5 DEF ToneEnd
  <2> QED BY <1>0, <1>1, <2>1, <2>2 DEF Around
<1>6. ASSUME NEW err \in ReadErrors, DecoderEnds(err) PROVE MInv'
  <2> DEFINE msg == [k |-> "end", err |-> err, magic |-> ply.magic, d |-> Medium]
  <2>1. /\ ply.dec = "play" /\ ply' = [ply EXCEPT !.dec = "ended"] /\ Post(msg)
        /\ UNCHANGED <<mgr, slot, mode, tone, magic, job, brk, errs, back>>
    BY <1>6 DEF DecoderEnds
  <2>2. Online(mgr, ply.dev) /\ ply.file
    BY <1>0, <2>1 DEF PlayerOK
  <2>3. Medium \in Logo
    BY <1>0, <2>2, LogoIsLogo DEF Medium
  <2>4. msg \in Messages
    <3> DEFINE c == Medium
    <3>1. c \in Logo
      BY <2>3
    <3> HIDE DEF c
    <3>2. [k |-> "end", err |-> err, magic |-> ply.magic, d |-> c] \in Messages
      BY <1>0, <3>1 DEF Messages, Player
    <3> QED BY <3>2 DEF c
  <2> HIDE DEF msg
  <2>5. queue' \in Seq(Messages) /\ inputs' \in 0..Inputs
    BY <1>0, <1>2, <2>1, <2>4
  <2>6. ply' \in Player /\ ply'.dec = "ended" /\ ply'.dev = ply.dev /\ ply'.file = ply.file
    BY <1>0, <2>1 DEF Player
  <2>7. ~Looking /\ mode # "other" /\ ~tone
    BY <2>1 DEF MInv, Core, Settled
  <2>8. Core'
    BY <1>0, <2>1, <2>2, <2>5, <2>6, <2>7 DEF Core, PlayerOK, Looking
  <2>9. Around'
    BY <1>0, <2>1, <2>5 DEF Around
  <2>10. Settled'
    BY <2>1, <2>6, <2>7 DEF Settled
  <2> QED BY <2>8, <2>9, <2>10 DEF MInv
<1>7. CASE DecoderRuns
  <2>1. /\ ply.dec = "wait" /\ UNCHANGED <<mgr, slot, mode, tone, magic, job, brk, errs, back, inputs>>
        /\ ~tone
        /\ \/ ply' = [ply EXCEPT !.dec = "play"] /\ UNCHANGED queue
           \/ ply' = [ply EXCEPT !.dec = "stop"] /\ queue' = Append(queue, Key("decErr"))
    BY <1>7 DEF DecoderRuns
  <2>2. queue' \in Seq(Messages)
    BY <1>0, <2>1, KeyIsMessage, KeyInQueue DEF KeyNames
  <2>3. ply' \in Player /\ ply'.dec \in {"play", "stop"} /\ ply'.dev = ply.dev /\ ply'.file = ply.file
    BY <1>0, <2>1 DEF Player
  <2>4. ~Looking /\ mode # "other"
    BY <2>1 DEF MInv, Core, Settled
  <2>5. Core'
    BY <1>0, <2>1, <2>2, <2>3, <2>4 DEF Core, PlayerOK, Looking
  <2>6. Around' /\ Settled'
    BY <1>0, <2>1, <2>3, <2>4 DEF Around, Settled
  <2> QED BY <2>5, <2>6 DEF MInv
<1> QED BY <1>3, <1>4, <1>5, <1>6, <1>7 DEF Outside

-----------------------------------------------------------------------------
LEMMA InitKeeps == Init => MInv
<1> SUFFICES ASSUME Init PROVE MInv
  OBVIOUS
<1>1. Good(mgr)
  <2>1. Typed(mgr) /\ Places(mgr) = {}
    BY DEF Init, Empty, Typed, Places
  <2> QED BY <2>1 DEF Good, Distinct, ValidIsUp
<1>2. PlayerOK(mgr, ply) /\ job \in JobType /\ ~Looking /\ ply.dec = "stop"
  BY NobodyPlays DEF Init, PlayerOK, NoJob, JobType, HowTo, Looking
<1>3. queue \in Seq(Messages) /\ brk \in BOOLEAN /\ slot \in Cards
  <2>1. slot \in Cards
    BY DEF Init, Cards
  <2>2. queue = <<>> /\ brk = FALSE
    BY DEF Init
  <2>3. queue \in Seq(Messages)
    BY <2>2
  <2> QED BY <2>1, <2>2, <2>3
<1>4. errs \in 0..Files /\ magic \in 0..(Handles - 1) /\ inputs \in 0..Inputs
  <2>1. Files \in Nat /\ Inputs \in Nat
    BY MusicAssumption
  <2> QED BY <2>1, NobodyPlays DEF Init
<1>5. mode = "other" /\ tone = FALSE /\ back = FALSE
  BY DEF Init
<1> QED BY <1>1, <1>2, <1>3, <1>4, <1>5 DEF MInv, Core, Around, Settled

\* The inductive invariant: list, player, scan, mode and queue agree.
THEOREM PlayerSound == Spec => []MInv
<1>1. MInv /\ [Next]_vars => MInv'
  <2> SUFFICES ASSUME MInv, [Next]_vars PROVE MInv'
    OBVIOUS
  <2>1. CASE MusicLoop
    BY <2>1, MusicLoopKeeps
  <2>2. CASE Scanning
    BY <2>2, ScanningKeeps
  <2>3. CASE ScanBreak
    BY <2>3, ScanBreakKeeps
  <2>4. CASE OtherMode
    BY <2>4, OtherModeKeeps
  <2>5. CASE Outside \/ ToneEnd \/ DecoderRuns
    BY <2>5, OutsideKeeps
  <2>6. CASE UNCHANGED vars
    BY <2>6 DEF vars, MInv, Core, Around, Settled, Looking
  <2> QED BY <2>1, <2>2, <2>3, <2>4, <2>5, <2>6 DEF Next, AppCore
<1> QED BY <1>1, InitKeeps, PTL DEF Spec

\* Types.
THEOREM TypeCorrect == Spec => []TypeOK
<1>1. MInv => TypeOK
  <2> SUFFICES ASSUME MInv PROVE TypeOK
    OBVIOUS
  <2>1. mgr \in [list: Seq(Entry), counter: Nat]
    BY DEF MInv, Core, Good, Typed
  <2>2. {tone, brk, back} \subseteq BOOLEAN
    BY DEF MInv, Core, Around
  <2> QED BY <2>1, <2>2 DEF TypeOK, MInv, Core, Around, PlayerOK, Player, JobType, HowTo
<1> QED BY <1>1, PlayerSound, PTL

\* A decoder reads only from a device whose file system is mounted, and a scan
\* never deletes the device it scans (music_player_err_deal unmounts,
\* dev_status_event_filter deletes, also for music_player_scandisk_break).
THEOREM UsesWhatIsMountedAlways == Spec => []UsesWhatIsMounted
<1>1. MInv => PlaysWhatIsMounted
  BY DEF MInv, Core, PlayerOK, PlaysWhatIsMounted
<1>2. MInv => ScanKeepsItsDevice
  BY DEF MInv, Core, ScanKeepsItsDevice
<1>3. MInv => UsesWhatIsMounted
  BY <1>1, <1>2 DEF UsesWhatIsMounted
<1> QED BY <1>3, PlayerSound, PTL

=============================================================================
