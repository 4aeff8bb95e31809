-------------------------- MODULE AdvertiseProofs ---------------------------
(***************************************************************************)
(* For any number of peers, prefixes, routes, filters, threads and failing *)
(* sends: no peer is told its own route or one that is denied to it, and   *)
(* every peer learns the best routes, with the excuses of PeersTold.       *)
(*                                                                         *)
(* For the first, the decision to send is taken when a frame is pushed and *)
(* the message leaves later; the inductive invariant AInv says of every    *)
(* frame on every stack that waits to send that its message may be sent.   *)
(* For the second, TellInv says that a peer which does not yet know the    *)
(* best route to a prefix has a frame on some stack that is going to tell  *)
(* it, and that on a thread which no other overlaps an event is about the  *)
(* best route there is unless it is known to be late, however deep in      *)
(* other publications it is being published.                               *)
(***************************************************************************)
EXTENDS Advertise, TLAPS

Elems(s) == {s[i] : i \in 1..Len(s)}

EventSet ==
    {ev \in [type : {"added", "withdrawn"}, pfx : Prefixes, src : Peers \cup {Local},
             route : Routes \cup {NoRoute}] :
        IF ev.type = "added" THEN ev.route \in Routes /\ ev.src = ev.route.src
        ELSE ev.route = NoRoute}

\* The peer d may be told what the event says.
Permitted(d, ev) ==
    ev.type = "added" => ev.route.src # d /\ ev.route \notin Denied[d]

Ops == {"publish", "deliver", "send", "discard", "dump", "dumping"}

FrameSet == [op : Ops, who : Peers \cup {NoOne}, gen : Nat,
             evs : Seq(EventSet), todo : Seq(Peers), late : SUBSET Prefixes]

\* No two events of a dump are about the same prefix.
Distinct(evs) == \A i, j \in 1..Len(evs) : evs[i].pfx = evs[j].pfx => i = j

\* What can be said of the parts of a frame, and that it has something to do.
Sound(f) ==
    /\ f.op \in {"send", "deliver"} => f.evs # <<>> /\ Elems(f.evs) = {Head(f.evs)}
    /\ f.op = "send" => Permitted(f.who, Head(f.evs))
    /\ f.op \notin {"publish", "deliver"} => f.who \in Peers
    /\ f.op = "dumping" => Distinct(f.evs)

Frames == {f \in FrameSet : Sound(f) /\ ~Done(f)}

Stacks == [Peers -> Seq(Frames)]

AInv ==
    /\ table \subseteq Routes
    /\ gen \in [Peers -> Nat]
    /\ stack \in Stacks
    /\ told \in [Peers -> [Prefixes -> Routes \cup {NoRoute}]]
    /\ PolicyKept

-----------------------------------------------------------------------------
(* Sequences and routes. *)

\* A sequence with an element put in front.
LEMMA Cons ==
    ASSUME NEW S, NEW s \in Seq(S), NEW e \in S
    PROVE  /\ <<e>> \o s \in Seq(S) /\ <<e>> \o s # <<>>
           /\ Elems(<<e>> \o s) = {e} \cup Elems(s)
           /\ Head(<<e>> \o s) = e /\ Tail(<<e>> \o s) = s
<1>. DEFINE z == <<e>> \o s
<1>1. /\ z \in Seq(S) /\ Len(s) \in Nat /\ Len(z) = Len(s) + 1 /\ z[1] = e
      /\ \A i \in 1..Len(s) : z[i + 1] = s[i]
  OBVIOUS
<1>. HIDE DEF z
<1>2. z # <<>> /\ Head(z) = e
  BY <1>1
<1>3. Tail(z) = s
  <2>1. Tail(z) \in Seq(S) /\ Len(Tail(z)) = Len(s)
    BY <1>1, <1>2
  <2>2. \A i \in 1..Len(s) : Tail(z)[i] = s[i]
    BY <1>1, <1>2
  <2>. QED
    BY <2>1, <2>2
<1>4. ASSUME NEW y \in Elems(z) PROVE y \in {e} \cup Elems(s)
  <2>1. PICK i \in 1..Len(z) : y = z[i]
    BY <1>4 DEF Elems
  <2>2. CASE i = 1
    BY <1>1, <2>1, <2>2
  <2>3. CASE i # 1
    <3>1. i - 1 \in 1..Len(s) /\ (i - 1) + 1 = i
      BY <1>1, <2>3
    <3>2. y = s[i - 1]
      BY <1>1, <2>1, <3>1
    <3>. QED
      BY <3>1, <3>2 DEF Elems
  <2>. QED
    BY <2>2, <2>3
<1>5. e \in Elems(z)
  BY <1>1 DEF Elems
<1>6. ASSUME NEW y \in Elems(s) PROVE y \in Elems(z)
  <2>1. PICK i \in 1..Len(s) : y = s[i]
    BY <1>6 DEF Elems
  <2>2. i + 1 \in 1..Len(z) /\ z[i + 1] = y
    BY <1>1, <2>1
  <2>. QED
    BY <2>2 DEF Elems
<1>7. Elems(z) = {e} \cup Elems(s)
  BY <1>4, <1>5, <1>6
<1>. QED
  BY <1>1, <1>2, <1>3, <1>7 DEF z

\* The first element of a sequence and the others.
LEMMA Uncons ==
    ASSUME NEW S, NEW s \in Seq(S), s # <<>>
    PROVE  /\ Head(s) \in S /\ Tail(s) \in Seq(S)
           /\ Elems(s) = {Head(s)} \cup Elems(Tail(s))
           /\ s = <<Head(s)>> \o Tail(s)
<1>1. /\ Head(s) \in S /\ Tail(s) \in Seq(S) /\ Len(s) \in Nat /\ Len(s) > 0
      /\ Len(Tail(s)) = Len(s) - 1 /\ Head(s) = s[1]
      /\ \A i \in 1..Len(Tail(s)) : Tail(s)[i] = s[i + 1]
  OBVIOUS
<1>2. ASSUME NEW y \in Elems(s) PROVE y \in {Head(s)} \cup Elems(Tail(s))
  <2>1. PICK i \in 1..Len(s) : y = s[i]
    BY <1>2 DEF Elems
  <2>2. CASE i = 1
    BY <1>1, <2>1, <2>2
  <2>3. CASE i # 1
    <3>1. i - 1 \in 1..Len(Tail(s)) /\ (i - 1) + 1 = i
      BY <1>1, <2>3
    <3>2. y = Tail(s)[i - 1]
      BY <1>1, <2>1, <3>1
    <3>. QED
      BY <3>1, <3>2 DEF Elems
  <2>. QED
    BY <2>2, <2>3
<1>3. Head(s) \in Elems(s)
  BY <1>1 DEF Elems
<1>4. ASSUME NEW y \in Elems(Tail(s)) PROVE y \in Elems(s)
  <2>1. PICK i \in 1..Len(Tail(s)) : y = Tail(s)[i]
    BY <1>4, Zenon DEF Elems
  <2>2. i + 1 \in 1..Len(s) /\ s[i + 1] = y
    BY <1>1, <2>1
  <2>. QED
    BY <2>2 DEF Elems
<1>5. s = <<Head(s)>> \o Tail(s)
  <2>1. \A h \in S, l \in Seq(S) :
           /\ <<h>> \o l \in Seq(S) /\ Len(<<h>> \o l) = Len(l) + 1
           /\ \A i \in 1..(Len(l) + 1) : (<<h>> \o l)[i] = IF i = 1 THEN h ELSE l[i - 1]
    OBVIOUS
  <2>. DEFINE z == <<Head(s)>> \o Tail(s)
  <2>2. z \in Seq(S) /\ Len(z) = Len(s)
        /\ \A i \in 1..Len(s) : z[i] = IF i = 1 THEN s[1] ELSE Tail(s)[i - 1]
    BY <1>1, <2>1
  <2>. HIDE DEF z
  <2>3. \A i \in 1..Len(s) : z[i] = s[i]
    BY <1>1, <2>2
  <2>4. z = s
    BY <2>2, <2>3
  <2>. QED
    BY <2>4 DEF z
<1>. QED
  BY <1>1, <1>2, <1>3, <1>4, <1>5

\* The best route to a prefix is nothing, or a route of the table to it.
LEMMA BestTyped ==
    ASSUME NEW tab \in SUBSET Routes, NEW x \in Prefixes
    PROVE  /\ Best(tab, x) = NoRoute <=> To(tab, x) = {}
           /\ Best(tab, x) # NoRoute => /\ Best(tab, x) \in To(tab, x) /\ Best(tab, x) \in Routes
                                        /\ \A q \in To(tab, x) : Pref[Best(tab, x)] >= Pref[q]
<1>1. CASE To(tab, x) = {}
  BY <1>1, Zenon DEF Best
<1>2. CASE To(tab, x) # {}
  <2>1. To(tab, x) \in SUBSET {r \in Routes : r.pfx = x}
    BY Zenon DEF To
  <2>2. \E r \in To(tab, x) : \A q \in To(tab, x) : Pref[r] >= Pref[q]
    BY <1>2, <2>1, PrefAssumption, Zenon
  <2>3. Best(tab, x) \in To(tab, x) /\ \A q \in To(tab, x) : Pref[Best(tab, x)] >= Pref[q]
    BY <1>2, <2>2, Zenon DEF Best
  <2>4. Best(tab, x) \in Routes
    BY <2>1, <2>3, Zenon
  <2>. QED
    BY <1>2, <2>3, <2>4, NamesAssumption, Zenon
<1>. QED
  BY <1>1, <1>2, Zenon

\* A route has a source, a prefix and attributes.
LEMMA RouteParts ==
    ASSUME NEW r \in Routes
    PROVE  r.src \in Peers \cup {Local} /\ r.pfx \in Prefixes /\ r # NoRoute
<1>1. r.src \in Peers \cup {Local} /\ r.pfx \in Prefixes
  BY DEF Routes
<1>. QED
  BY <1>1, NamesAssumption, Zenon

\* An event after a change of p's routes tells of the best route to the prefix.
LEMMA EventTyped ==
    ASSUME NEW p \in Peers, NEW x \in Prefixes, NEW tab \in SUBSET Routes
    PROVE  /\ Event(p, x, tab) \in EventSet
           /\ Event(p, x, tab).pfx = x
           /\ Message(Event(p, x, tab)) = Best(tab, x)
<1>. DEFINE b == Best(tab, x)
            ev == Event(p, x, tab)
<1>1. CASE b = NoRoute
  <2>1. ev = [type |-> "withdrawn", pfx |-> x, src |-> p, route |-> NoRoute]
    BY <1>1, Zenon DEF Event
  <2>. HIDE DEF ev, b
  <2>2. ev \in EventSet /\ ev.pfx = x
    BY <2>1 DEF EventSet
  <2>3. Message(ev) = NoRoute
    BY <2>1 DEF Message, Withdrawal
  <2>. QED
    BY <1>1, <2>2, <2>3, Zenon DEF ev, b
<1>2. CASE b # NoRoute
  <2>1. ev = [type |-> "added", pfx |-> x, src |-> b.src, route |-> b]
    BY <1>2, Zenon DEF Event
  <2>2. b \in Routes /\ b.src \in Peers \cup {Local}
    BY <1>2, BestTyped, RouteParts, Zenon
  <2>. HIDE DEF ev, b
  <2>3. ev \in EventSet /\ ev.pfx = x
    BY <2>1, <2>2 DEF EventSet
  <2>4. Message(ev) = b
    BY <2>1 DEF Message
  <2>. QED
    BY <2>3, <2>4, Zenon DEF ev, b
<1>. QED
  BY <1>1, <1>2, Zenon

\* What is published about some prefixes: an event about each, and no two about
\* the same.
LEMMA EventsTyped ==
    ASSUME NEW p \in Peers, NEW xs \in SUBSET Prefixes, NEW tab \in SUBSET Routes
    PROVE  /\ Events(p, xs, tab) \in Seq(EventSet)
           /\ Distinct(Events(p, xs, tab))
           /\ Elems(Events(p, xs, tab)) = {Event(p, x, tab) : x \in xs}
<1>. DEFINE l == Listing(xs)
            es == Events(p, xs, tab)
<1>1. /\ l \in Seq(Prefixes)
      /\ \A x \in Prefixes : x \in xs <=> \E i \in 1..Len(l) : l[i] = x
      /\ \A i, j \in 1..Len(l) : l[i] = l[j] => i = j
  BY WalkAssumption, Zenon
<1>2. es = [i \in 1..Len(l) |-> Event(p, l[i], tab)]
  BY Zenon DEF Events
<1>. HIDE DEF l, es
<1>3. Len(l) \in Nat /\ \A i \in 1..Len(l) : l[i] \in Prefixes
  BY <1>1
<1>4. \A i \in 1..Len(l) : Event(p, l[i], tab) \in EventSet /\ Event(p, l[i], tab).pfx = l[i]
  BY <1>3, EventTyped, Zenon
<1>5. es \in [1..Len(l) -> EventSet]
  BY <1>2, <1>4, Zenon
<1>6. es \in Seq(EventSet) /\ Len(es) = Len(l)
  BY <1>3, <1>5
<1>7. \A i \in 1..Len(es) : es[i] = Event(p, l[i], tab)
  BY <1>2, <1>6, Zenon
<1>8. Distinct(es)
  <2>1. \A i \in 1..Len(es) : es[i].pfx = l[i]
    BY <1>4, <1>6, <1>7, Zenon
  <2>2. \A i, j \in 1..Len(es) : l[i] = l[j] => i = j
    BY <1>1, <1>6, Zenon
  <2>3. ASSUME NEW i \in 1..Len(es), NEW j \in 1..Len(es), es[i].pfx = es[j].pfx PROVE i = j
    <3>1. l[i] = l[j]
      BY <2>1, <2>3, Zenon
    <3>. QED
      BY <2>2, <3>1, Zenon
  <2>. QED
    BY <2>3, Zenon DEF Distinct
<1>9. Elems(es) = {Event(p, x, tab) : x \in xs}
  <2>1. ASSUME NEW e \in Elems(es) PROVE \E x \in xs : e = Event(p, x, tab)
    <3>1. PICK i \in 1..Len(l) : e = Event(p, l[i], tab)
      BY <1>6, <1>7, <2>1, Zenon DEF Elems
    <3>2. l[i] \in xs
      BY <1>1, <1>3, Zenon
    <3>. QED
      BY <3>1, <3>2, Zenon
  <2>2. ASSUME NEW x \in xs PROVE Event(p, x, tab) \in Elems(es)
    <3>1. PICK i \in 1..Len(l) : l[i] = x
      BY <1>1, Zenon
    <3>. QED
      BY <1>6, <1>7, <3>1, Zenon DEF Elems
  <2>. QED
    BY <2>1, <2>2, Zenon
<1>. QED
  BY <1>6, <1>8, <1>9, Zenon DEF es

\* Two lists of events, one after the other.
LEMMA TwoLists ==
    ASSUME NEW a \in Seq(EventSet), NEW b \in Seq(EventSet)
    PROVE  a \o b \in Seq(EventSet) /\ Elems(a \o b) = Elems(a) \cup Elems(b)
<1>. DEFINE c == a \o b
<1>1. /\ c \in Seq(EventSet) /\ Len(a) \in Nat /\ Len(b) \in Nat /\ Len(c) = Len(a) + Len(b)
      /\ \A i \in 1..Len(a) : c[i] = a[i]
      /\ \A i \in 1..Len(b) : c[i + Len(a)] = b[i]
  OBVIOUS
<1>. HIDE DEF c
<1>2. ASSUME NEW i \in 1..Len(c) PROVE c[i] \in Elems(a) \cup Elems(b)
  <2>1. CASE i \in 1..Len(a)
    BY <1>1, <2>1, Zenon DEF Elems
  <2>2. CASE i \notin 1..Len(a)
    <3>1. i - Len(a) \in 1..Len(b) /\ (i - Len(a)) + Len(a) = i
      BY <1>1, <2>2
    <3>2. c[i] = b[i - Len(a)]
      BY <1>1, <3>1
    <3>. QED
      BY <3>1, <3>2, Zenon DEF Elems
  <2>. QED
    BY <2>1, <2>2
<1>3. ASSUME NEW i \in 1..Len(a) PROVE a[i] \in Elems(c)
  <2>1. i \in 1..Len(c) /\ c[i] = a[i]
    BY <1>1
  <2>. QED
    BY <2>1, Zenon DEF Elems
<1>4. ASSUME NEW i \in 1..Len(b) PROVE b[i] \in Elems(c)
  <2>1. i + Len(a) \in 1..Len(c) /\ c[i + Len(a)] = b[i]
    BY <1>1
  <2>. QED
    BY <2>1, Zenon DEF Elems
<1>5. Elems(c) = Elems(a) \cup Elems(b)
  <2>1. ASSUME NEW e \in Elems(c) PROVE e \in Elems(a) \cup Elems(b)
    BY <1>2, <2>1, Zenon DEF Elems
  <2>2. ASSUME NEW e \in Elems(a) PROVE e \in Elems(c)
    BY <1>3, <2>2, Zenon DEF Elems
  <2>3. ASSUME NEW e \in Elems(b) PROVE e \in Elems(c)
    BY <1>4, <2>3, Zenon DEF Elems
  <2>. QED
    BY <2>1, <2>2, <2>3, Zenon
<1>. QED
  BY <1>1, <1>5, Zenon DEF c

\* A list of events without its first one.
LEMMA RestOfEvents ==
    ASSUME NEW S, NEW s \in Seq(S), s # <<>>, Distinct(s)
    PROVE  Distinct(Tail(s)) /\ \A e \in Elems(Tail(s)) : e.pfx # Head(s).pfx
<1>1. /\ Tail(s) \in Seq(S) /\ Len(s) \in Nat /\ Len(s) > 0 /\ Len(Tail(s)) = Len(s) - 1
      /\ Head(s) = s[1] /\ \A i \in 1..Len(Tail(s)) : Tail(s)[i] = s[i + 1]
  OBVIOUS
<1>2. \A i \in 1..Len(Tail(s)) : i + 1 \in 1..Len(s) /\ i + 1 # 1
  BY <1>1
<1>3. 1 \in 1..Len(s)
  BY <1>1
<1>4. ASSUME NEW i \in 1..Len(Tail(s)), NEW j \in 1..Len(Tail(s)), Tail(s)[i].pfx = Tail(s)[j].pfx
      PROVE  i = j
  <2>0. s[i + 1].pfx = s[j + 1].pfx /\ i + 1 \in 1..Len(s) /\ j + 1 \in 1..Len(s)
    BY <1>1, <1>2, <1>4, Zenon
  <2>1. i + 1 = j + 1
    BY <2>0, Zenon DEF Distinct
  <2>. QED
    BY <2>1
<1>5. \A i \in 1..Len(Tail(s)) : Tail(s)[i].pfx # Head(s).pfx
  BY <1>1, <1>2, <1>3, Zenon DEF Distinct
<1>. QED
  BY <1>4, <1>5, Zenon DEF Distinct, Elems

-----------------------------------------------------------------------------
(* Calls and stacks. *)

\* What a frame on a stack is.
LEMMA FrameTyped ==
    ASSUME NEW f \in FrameSet
    PROVE  /\ f.op \in Ops /\ f.who \in Peers \cup {NoOne} /\ f.gen \in Nat
           /\ f.evs \in Seq(EventSet) /\ f.todo \in Seq(Peers) /\ f.late \in SUBSET Prefixes
BY DEF FrameSet

\* A call in front of others is made or has nothing to do.
LEMMA OnCalls ==
    ASSUME NEW f \in FrameSet, Sound(f), NEW c \in Seq(Frames)
    PROVE  /\ On(f, c) \in Seq(Frames)
           /\ Elems(On(f, c)) = (IF Done(f) THEN {} ELSE {f}) \cup Elems(c)
           /\ Done(f) => On(f, c) = c
           /\ ~Done(f) => f \in Frames /\ On(f, c) = <<f>> \o c
<1>1. CASE Done(f)
  BY <1>1, Zenon DEF On
<1>2. CASE ~Done(f)
  <2>1. f \in Frames /\ On(f, c) = <<f>> \o c
    BY <1>2, Zenon DEF On, Frames
  <2>2. <<f>> \o c \in Seq(Frames) /\ Elems(<<f>> \o c) = {f} \cup Elems(c)
    BY <2>1, Cons, Zenon
  <2>. QED
    BY <1>2, <2>1, <2>2, Zenon
<1>. QED
  BY <1>1, <1>2, Zenon

\* The latest call of a thread and those below it.
LEMMA TopBelow ==
    ASSUME stack \in Stacks, NEW t \in Peers, stack[t] # <<>>
    PROVE  /\ Top(t) \in Frames /\ Top(t) \in FrameSet /\ Below(t) \in Seq(Frames)
           /\ Sound(Top(t)) /\ ~Done(Top(t))
           /\ Elems(stack[t]) = {Top(t)} \cup Elems(Below(t))
           /\ stack[t] = <<Top(t)>> \o Below(t)
<1>1. stack[t] \in Seq(Frames)
  BY Zenon DEF Stacks
<1>2. /\ Head(stack[t]) \in Frames /\ Tail(stack[t]) \in Seq(Frames)
      /\ Elems(stack[t]) = {Head(stack[t])} \cup Elems(Tail(stack[t]))
      /\ stack[t] = <<Head(stack[t])>> \o Tail(stack[t])
  BY <1>1, Uncons, Zenon
<1>3. Top(t) \in FrameSet /\ Sound(Top(t)) /\ ~Done(Top(t))
  BY <1>2, Zenon DEF Top, Frames
<1>. QED
  BY <1>2, <1>3, Zenon DEF Top, Below

\* A step of a thread changes its own stack.
LEMMA Becoming ==
    ASSUME stack \in Stacks, NEW t \in Peers, NEW c \in Seq(Frames)
    PROVE  /\ Becomes(t, c) \in Stacks /\ Becomes(t, c)[t] = c
           /\ \A u \in Peers : u # t => Becomes(t, c)[u] = stack[u]
BY Zenon DEF Stacks, Becomes

\* A call whose events about xs have been overtaken.
Late(f, xs) == [f EXCEPT !.late = @ \cup xs]

\* It is otherwise the same.
LEMMA LateParts ==
    ASSUME NEW f \in FrameSet, NEW xs \in SUBSET Prefixes
    PROVE  /\ Late(f, xs) \in FrameSet
           /\ Late(f, xs).op = f.op /\ Late(f, xs).who = f.who /\ Late(f, xs).gen = f.gen
           /\ Late(f, xs).evs = f.evs /\ Late(f, xs).todo = f.todo
           /\ Late(f, xs).late = f.late \cup xs
           /\ Sound(f) => Sound(Late(f, xs))
           /\ ~Done(f) => ~Done(Late(f, xs))
<1>. DEFINE g == Late(f, xs)
<1>1. /\ g \in FrameSet /\ g.op = f.op /\ g.who = f.who /\ g.gen = f.gen
      /\ g.evs = f.evs /\ g.todo = f.todo /\ g.late = f.late \cup xs
  BY DEF Late, FrameSet
<1>. HIDE DEF g
<1>2. Sound(f) => Sound(g)
  BY <1>1, Zenon DEF Sound
<1>3. ~Done(f) => ~Done(g)
  BY <1>1, Zenon DEF Done
<1>. QED
  BY <1>1, <1>2, <1>3, Zenon DEF g

\* The calls in progress when a best route changes.
LEMMA OvertakenCalls ==
    ASSUME NEW c \in Seq(Frames), NEW xs \in SUBSET Prefixes
    PROVE  /\ Overtaken(c, xs) \in Seq(Frames)
           /\ Elems(Overtaken(c, xs)) = {Late(f, xs) : f \in Elems(c)}
<1>. DEFINE o == Overtaken(c, xs)
<1>1. Len(c) \in Nat /\ \A i \in 1..Len(c) : c[i] \in Frames
  OBVIOUS
<1>2. o = [i \in 1..Len(c) |-> Late(c[i], xs)]
  BY Zenon DEF Overtaken, Late
<1>3. \A i \in 1..Len(c) : Late(c[i], xs) \in Frames
  BY <1>1, LateParts, Zenon DEF Frames
<1>. HIDE DEF o
<1>4. o \in [1..Len(c) -> Frames]
  BY <1>2, <1>3, Zenon
<1>5. o \in Seq(Frames) /\ Len(o) = Len(c)
  BY <1>1, <1>4
<1>6. \A i \in 1..Len(o) : o[i] = Late(c[i], xs)
  BY <1>2, <1>5, Zenon
<1>7. Elems(o) = {Late(f, xs) : f \in Elems(c)}
  <2>1. ASSUME NEW e \in Elems(o) PROVE e \in {Late(f, xs) : f \in Elems(c)}
    BY <1>5, <1>6, <2>1, Zenon DEF Elems
  <2>2. ASSUME NEW f \in Elems(c) PROVE Late(f, xs) \in Elems(o)
    <3>1. PICK i \in 1..Len(o) : f = c[i]
      BY <1>5, Zenon DEF Elems
    <3>. QED
      BY <1>6, <3>1, Zenon DEF Elems
  <2>. QED
    BY <2>1, <2>2, Zenon
<1>. QED
  BY <1>5, <1>7, Zenon DEF o

\* What a call is when it has handled an event, or a subscriber.
LEMMA RestParts ==
    ASSUME NEW f \in Frames
    PROVE  /\ f.op \in {"publish", "dumping", "send", "deliver"} =>
                 f.evs # <<>> /\ Head(f.evs) \in EventSet /\ Head(f.evs) \in Elems(f.evs)
           /\ f.op \in {"publish", "dumping"} =>
                 /\ [f EXCEPT !.evs = Tail(@)] \in FrameSet /\ Sound([f EXCEPT !.evs = Tail(@)])
                 /\ Elems(f.evs) = {Head(f.evs)} \cup Elems(Tail(f.evs))
                 /\ Tail(f.evs) \in Seq(EventSet)
           /\ f.op = "deliver" =>
                 /\ f.todo # <<>> /\ Head(f.todo) \in Peers
                 /\ [f EXCEPT !.todo = Tail(@)] \in FrameSet /\ Sound([f EXCEPT !.todo = Tail(@)])
                 /\ Elems(f.todo) = {Head(f.todo)} \cup Elems(Tail(f.todo))
                 /\ Tail(f.todo) \in Seq(Peers)
<1>1. f \in FrameSet /\ Sound(f) /\ ~Done(f) /\ f.evs \in Seq(EventSet) /\ f.todo \in Seq(Peers)
  BY FrameTyped, Zenon DEF Frames
<1>2. ASSUME f.op \in {"publish", "dumping", "send", "deliver"}
      PROVE  /\ f.evs # <<>> /\ Head(f.evs) \in EventSet /\ Head(f.evs) \in Elems(f.evs)
             /\ Tail(f.evs) \in Seq(EventSet)
             /\ Elems(f.evs) = {Head(f.evs)} \cup Elems(Tail(f.evs))
  <2>1. f.evs # <<>>
    BY <1>1, <1>2, Zenon DEF Sound, Done
  <2>. QED
    BY <1>1, <2>1, Uncons, Zenon
<1>3. ASSUME f.op \in {"publish", "dumping"}
      PROVE  [f EXCEPT !.evs = Tail(@)] \in FrameSet /\ Sound([f EXCEPT !.evs = Tail(@)])
  <2>. DEFINE g == [f EXCEPT !.evs = Tail(@)]
  <2>1. f.evs # <<>> /\ Tail(f.evs) \in Seq(EventSet)
    BY <1>2, <1>3, Zenon
  <2>2. g \in FrameSet /\ g.op = f.op /\ g.who = f.who /\ g.evs = Tail(f.evs)
    BY <1>1, <2>1, Zenon DEF FrameSet
  <2>3. f.op = "dumping" => Distinct(Tail(f.evs))
    BY <1>1, <2>1, RestOfEvents, Zenon DEF Sound
  <2>. HIDE DEF g
  <2>4. f.op # "send" /\ f.op # "deliver"
    BY <1>3
  <2>5. Sound(g)
    BY <1>1, <2>2, <2>3, <2>4, Zenon DEF Sound
  <2>. QED
    BY <2>2, <2>5, Zenon DEF g
<1>4. ASSUME f.op = "deliver"
      PROVE  /\ f.todo # <<>> /\ Head(f.todo) \in Peers
             /\ [f EXCEPT !.todo = Tail(@)] \in FrameSet /\ Sound([f EXCEPT !.todo = Tail(@)])
             /\ Elems(f.todo) = {Head(f.todo)} \cup Elems(Tail(f.todo))
             /\ Tail(f.todo) \in Seq(Peers)
  <2>. DEFINE g == [f EXCEPT !.todo = Tail(@)]
  <2>1. f.todo # <<>>
    BY <1>1, <1>4, Zenon DEF Done
  <2>2. /\ Head(f.todo) \in Peers /\ Tail(f.todo) \in Seq(Peers)
        /\ Elems(f.todo) = {Head(f.todo)} \cup Elems(Tail(f.todo))
    BY <1>1, <2>1, Uncons, Zenon
  <2>3. g \in FrameSet /\ g.op = f.op /\ g.who = f.who /\ g.evs = f.evs
    BY <1>1, <2>2 DEF FrameSet
  <2>. HIDE DEF g
  <2>4. Sound(g)
    BY <1>1, <2>3, Zenon DEF Sound
  <2>. QED
    BY <2>1, <2>2, <2>3, <2>4, Zenon DEF g
<1>. QED
  BY <1>2, <1>3, <1>4, Zenon

\* The list with one event.
LEMMA OneEvent ==
    ASSUME NEW ev \in EventSet
    PROVE  /\ <<ev>> \in Seq(EventSet) /\ <<ev>> # <<>> /\ Head(<<ev>>) = ev
           /\ Elems(<<ev>>) = {ev}
<1>1. <<ev>> \in Seq(EventSet) /\ <<ev>> # <<>> /\ Head(<<ev>>) = ev /\ Len(<<ev>>) = 1 /\ <<ev>>[1] = ev
  OBVIOUS
<1>2. \A i : i \in 1..1 <=> i = 1
  OBVIOUS
<1>. QED
  BY <1>1, <1>2, Zenon DEF Elems

\* The call that publishes events.
IsPublish(f, by, g, evs) ==
    /\ f \in FrameSet /\ Sound(f) /\ (Done(f) <=> evs = <<>>)
    /\ f.op = "publish" /\ f.who = by /\ f.gen = g /\ f.evs = evs /\ f.late = {}

\* Its parts.
LEMMA PublishParts ==
    ASSUME NEW by \in Peers \cup {NoOne}, NEW g \in Nat, NEW evs \in Seq(EventSet)
    PROVE  IsPublish(Publish(by, g, evs), by, g, evs)
<1>. DEFINE f == Publish(by, g, evs)
<1>1. <<>> \in Seq(Peers) /\ {} \in SUBSET Prefixes /\ "publish" \in Ops
  BY DEF Ops
<1>2. f = Frame("publish", by, g, evs, <<>>, {})
  BY DEF Publish
<1>. HIDE DEF f
<1>3. f \in FrameSet /\ f.op = "publish" /\ f.who = by /\ f.gen = g /\ f.evs = evs /\ f.late = {}
  BY <1>1, <1>2 DEF Frame, FrameSet
<1>4. Sound(f) /\ (Done(f) <=> evs = <<>>)
  BY <1>3 DEF Sound, Done
<1>. QED
  BY <1>3, <1>4, Zenon DEF f, IsPublish

\* The call that hands an event to the FSMs of the others.
IsDeliver(f, by, ev, late) ==
    /\ f \in FrameSet /\ Sound(f)
    /\ f.op = "deliver" /\ f.who = by /\ f.evs = <<ev>> /\ f.late = late
    /\ Elems(f.todo) = Peers \ {by} /\ (Done(f) => Peers \ {by} = {})

\* Its parts.
LEMMA DeliverParts ==
    ASSUME NEW by \in Peers \cup {NoOne}, NEW ev \in EventSet, NEW late \in SUBSET Prefixes
    PROVE  IsDeliver(Deliver(by, ev, late), by, ev, late)
<1>. DEFINE f == Deliver(by, ev, late)
<1>1. 0 \in Nat /\ "deliver" \in Ops
  BY DEF Ops
<1>2. /\ Others(by) \in Seq(Peers)
      /\ \A p \in Peers : p # by <=> \E i \in 1..Len(Others(by)) : Others(by)[i] = p
  BY OrderAssumption, Zenon
<1>3. f = Frame("deliver", by, 0, <<ev>>, Others(by), late)
  BY DEF Deliver
<1>. HIDE DEF f
<1>4. /\ f \in FrameSet /\ f.op = "deliver" /\ f.who = by /\ f.evs = <<ev>> /\ f.late = late
      /\ f.todo = Others(by)
  BY <1>1, <1>2, <1>3, OneEvent DEF Frame, FrameSet
<1>5. Sound(f)
  <2>1. "deliver" # "send" /\ "deliver" # "dumping" /\ "deliver" \in {"publish", "deliver"}
    OBVIOUS
  <2>. QED
    BY <1>4, <2>1, OneEvent, Zenon DEF Sound
<1>6. Elems(Others(by)) = Peers \ {by}
  <2>1. \A i \in 1..Len(Others(by)) : Others(by)[i] \in Peers
    BY <1>2
  <2>2. ASSUME NEW p \in Elems(Others(by)) PROVE p \in Peers \ {by}
    <3>1. PICK i \in 1..Len(Others(by)) : p = Others(by)[i]
      BY <2>2, Zenon DEF Elems
    <3>. QED
      BY <1>2, <2>1, <3>1, Zenon
  <2>3. ASSUME NEW p \in Peers \ {by} PROVE p \in Elems(Others(by))
    BY <1>2, <2>3, Zenon DEF Elems
  <2>. QED
    BY <2>2, <2>3, Zenon
<1>7. Done(f) => Peers \ {by} = {}
  <2>1. Elems(<<>>) = {}
    BY DEF Elems
  <2>2. "deliver" \notin {"publish", "dumping"}
    OBVIOUS
  <2>. QED
    BY <1>4, <1>6, <2>1, <2>2, Zenon DEF Done
<1>. QED
  BY <1>4, <1>5, <1>6, <1>7, Zenon DEF f, IsDeliver

\* The call that waits to send a message that may be sent.
IsSending(f, to, g, ev, late) ==
    /\ f \in Frames
    /\ f.op = "send" /\ f.who = to /\ f.gen = g /\ f.evs = <<ev>> /\ f.late = late

\* Its parts.
LEMMA SendingParts ==
    ASSUME NEW to \in Peers, NEW g \in Nat, NEW ev \in EventSet, NEW late \in SUBSET Prefixes,
           Permitted(to, ev)
    PROVE  IsSending(Sending(to, g, ev, late), to, g, ev, late)
<1>. DEFINE f == Sending(to, g, ev, late)
<1>1. <<>> \in Seq(Peers) /\ "send" \in Ops
  BY DEF Ops
<1>2. f = Frame("send", to, g, <<ev>>, <<>>, late)
  BY DEF Sending
<1>. HIDE DEF f
<1>3. /\ f \in FrameSet /\ f.op = "send" /\ f.who = to /\ f.gen = g /\ f.evs = <<ev>>
      /\ f.late = late
  BY <1>1, <1>2, OneEvent DEF Frame, FrameSet
<1>4. Sound(f) /\ ~Done(f)
  <2>1. "send" # "deliver" /\ "send" # "dumping" /\ "send" # "publish"
    OBVIOUS
  <2>. QED
    BY <1>3, <2>1, OneEvent, Zenon DEF Sound, Done
<1>. QED
  BY <1>3, <1>4, Zenon DEF f, Frames, IsSending

\* The call that discards the routes of a peer.
LEMMA DiscardParts ==
    ASSUME NEW p \in Peers
    PROVE  /\ Discard(p) \in Frames /\ Discard(p).op = "discard" /\ Discard(p).who = p
           /\ Discard(p).evs = <<>>
<1>. DEFINE f == Discard(p)
<1>1. /\ <<>> \in Seq(Peers) /\ <<>> \in Seq(EventSet) /\ {} \in SUBSET Prefixes /\ 0 \in Nat
      /\ "discard" \in Ops
  BY DEF Ops
<1>2. f = Frame("discard", p, 0, <<>>, <<>>, {})
  BY DEF Discard
<1>. HIDE DEF f
<1>3. f \in FrameSet /\ f.op = "discard" /\ f.who = p /\ f.evs = <<>>
  BY <1>1, <1>2 DEF Frame, FrameSet
<1>4. f \in Frames
  BY <1>3 DEF Frames, Sound, Done
<1>. QED
  BY <1>3, <1>4, Zenon DEF f

\* The call that dumps the table.
LEMMA DumpParts ==
    ASSUME NEW p \in Peers, NEW g \in Nat
    PROVE  /\ Dump(p, g) \in Frames /\ Dump(p, g).op = "dump" /\ Dump(p, g).who = p
           /\ Dump(p, g).gen = g /\ Dump(p, g).evs = <<>>
<1>. DEFINE f == Dump(p, g)
<1>1. /\ <<>> \in Seq(Peers) /\ <<>> \in Seq(EventSet) /\ {} \in SUBSET Prefixes
      /\ "dump" \in Ops
  BY DEF Ops
<1>2. f = Frame("dump", p, g, <<>>, <<>>, {})
  BY DEF Dump
<1>. HIDE DEF f
<1>3. f \in FrameSet /\ f.op = "dump" /\ f.who = p /\ f.gen = g /\ f.evs = <<>>
  BY <1>1, <1>2 DEF Frame, FrameSet
<1>4. f \in Frames
  BY <1>3 DEF Frames, Sound, Done
<1>. QED
  BY <1>3, <1>4, Zenon DEF f

\* The dump once it has its snapshot.
IsDumping(f, p, g, evs) ==
    /\ f \in FrameSet /\ Sound(f) /\ (Done(f) <=> evs = <<>>)
    /\ f.op = "dumping" /\ f.who = p /\ f.gen = g /\ f.evs = evs /\ f.late = {}

\* Its parts.
LEMMA DumpingParts ==
    ASSUME NEW p \in Peers, NEW g \in Nat, NEW evs \in Seq(EventSet), Distinct(evs)
    PROVE  IsDumping(Dumping(p, g, evs), p, g, evs)
<1>. DEFINE f == Dumping(p, g, evs)
<1>1. <<>> \in Seq(Peers) /\ {} \in SUBSET Prefixes /\ "dumping" \in Ops
  BY DEF Ops
<1>2. f = Frame("dumping", p, g, evs, <<>>, {})
  BY DEF Dumping
<1>. HIDE DEF f
<1>3. f \in FrameSet /\ f.op = "dumping" /\ f.who = p /\ f.gen = g /\ f.evs = evs /\ f.late = {}
  BY <1>1, <1>2 DEF Frame, FrameSet
<1>4. Sound(f) /\ (Done(f) <=> evs = <<>>)
  BY <1>3 DEF Sound, Done
<1>. QED
  BY <1>3, <1>4, Zenon DEF f, IsDumping

\* An event that the callback or the dump lets pass may be told to the peer: its
\* source is that of its route.
LEMMA PassPermitted ==
    ASSUME NEW ev \in EventSet, NEW d, ev.src # d, ev.route \notin Denied[d]
    PROVE  Permitted(d, ev)
BY DEF EventSet, Permitted

\* The message about an event that may be told is a route that may be told, or a
\* withdrawal.
LEMMA MessageKept ==
    ASSUME NEW ev \in EventSet, NEW d, Permitted(d, ev)
    PROVE  /\ Message(ev) \in Routes \cup {NoRoute}
           /\ Message(ev) # NoRoute => Message(ev).src # d /\ Message(ev) \notin Denied[d]
           /\ ev.pfx \in Prefixes
BY DEF EventSet, Permitted, Message, Withdrawal

-----------------------------------------------------------------------------
(* What the steps do to the stacks. *)

\* The calls of thread t become c, those of the others stay.
Moved(t, c) == /\ stack' \in Stacks /\ stack'[t] = c
               /\ \A u \in Peers : u # t => stack'[u] = stack[u]

\* A thread enters the library.
LEMMA EnterMoves ==
    ASSUME stack \in Stacks, NEW t \in Peers, NEW f \in FrameSet, Sound(f), Enter(t, f)
    PROVE  /\ stack[t] = <<>> /\ Moved(t, On(f, <<>>)) /\ On(f, <<>>) \in Seq(Frames)
           /\ Elems(On(f, <<>>)) = IF Done(f) THEN {} ELSE {f}
<1>1. <<>> \in Seq(Frames) /\ Elems(<<>>) = {}
  BY DEF Elems
<1>2. On(f, <<>>) \in Seq(Frames) /\ Elems(On(f, <<>>)) = (IF Done(f) THEN {} ELSE {f}) \cup {}
  BY <1>1, OnCalls, Zenon
<1>3. stack[t] = <<>> /\ stack' = Becomes(t, On(f, <<>>))
  BY Zenon DEF Enter
<1>4. Moved(t, On(f, <<>>))
  BY <1>2, <1>3, Becoming, Zenon DEF Moved
<1>. QED
  BY <1>2, <1>3, <1>4, Zenon

\* The table and the events after an UPDATE u of t.
AfterUpdate(t, u) ==
    {r \in table : ~(r.src = t /\ r.pfx \in u.wd \cup u.nlri)} \cup [pfx : u.nlri, src : {t}, v : {u.v}]
UpdateEvents(t, u) ==
    Events(t, Changed(table, AfterUpdate(t, u)) \cap u.wd, AfterUpdate(t, u))
    \o Events(t, Changed(table, AfterUpdate(t, u)) \cap u.nlri, AfterUpdate(t, u))

\* An UPDATE changes the table and begins to publish events.
LEMMA UpdateMoves ==
    ASSUME AInv, NEW t \in Peers, Update(t)
    PROVE  \E u \in Updates :
              LET f == Publish(t, gen[t], UpdateEvents(t, u))
              IN  /\ up[t] /\ table' = AfterUpdate(t, u) /\ table' \subseteq Routes
                  /\ Enter(t, f) /\ f \in FrameSet /\ Sound(f)
                  /\ UpdateEvents(t, u) \in Seq(EventSet)
                  /\ Elems(UpdateEvents(t, u)) =
                        {Event(t, x, table') : x \in Changed(table, table') \cap (u.wd \cup u.nlri)}
                  /\ UNCHANGED <<up, gen, told, fails, excused>>
<1>1. PICK u \in Updates :
         /\ up[t] /\ table' = AfterUpdate(t, u)
         /\ Enter(t, Publish(t, gen[t], UpdateEvents(t, u)))
         /\ UNCHANGED <<up, gen, told, fails, excused>>
  BY Zenon DEF Update, AfterUpdate, UpdateEvents
<1>2. u \in [wd : SUBSET Prefixes, nlri : SUBSET Prefixes, v : Versions]
  BY UpdatesAssumption, Zenon
<1>3. AfterUpdate(t, u) \subseteq Routes
  <2>1. [pfx : u.nlri, src : {t}, v : {u.v}] \subseteq Routes
    BY <1>2 DEF Routes
  <2>. QED
    BY <2>1, Zenon DEF AfterUpdate, AInv
<1>4. \A xs \in SUBSET Prefixes : Changed(table, AfterUpdate(t, u)) \cap xs \in SUBSET Prefixes
  BY Zenon
<1>5. u.wd \in SUBSET Prefixes /\ u.nlri \in SUBSET Prefixes
  BY <1>2
<1>. DEFINE new == AfterUpdate(t, u)
            a == Events(t, Changed(table, new) \cap u.wd, new)
            b == Events(t, Changed(table, new) \cap u.nlri, new)
<1>6. /\ a \in Seq(EventSet) /\ Elems(a) = {Event(t, x, new) : x \in Changed(table, new) \cap u.wd}
      /\ b \in Seq(EventSet) /\ Elems(b) = {Event(t, x, new) : x \in Changed(table, new) \cap u.nlri}
  <2>1. /\ new \in SUBSET Routes /\ Changed(table, new) \cap u.wd \in SUBSET Prefixes
        /\ Changed(table, new) \cap u.nlri \in SUBSET Prefixes
    BY <1>3, <1>4, <1>5, Zenon
  <2>. HIDE DEF new
  <2>. QED
    BY <2>1, EventsTyped, Zenon
<1>7. a \o b \in Seq(EventSet) /\ Elems(a \o b) = Elems(a) \cup Elems(b)
  <2>. HIDE DEF a, b
  <2>. QED
    BY <1>6, TwoLists, Zenon
<1>8. UpdateEvents(t, u) = a \o b
  BY Zenon DEF UpdateEvents
<1>9. gen[t] \in Nat
  BY DEF AInv
<1>10. /\ Publish(t, gen[t], UpdateEvents(t, u)) \in FrameSet
       /\ Sound(Publish(t, gen[t], UpdateEvents(t, u)))
  <2>1. UpdateEvents(t, u) \in Seq(EventSet) /\ t \in Peers \cup {NoOne}
    BY <1>7, <1>8, Zenon
  <2>. QED
    BY <1>9, <2>1, PublishParts, Zenon DEF IsPublish
<1>11. Elems(UpdateEvents(t, u)) =
          {Event(t, x, new) : x \in Changed(table, new) \cap (u.wd \cup u.nlri)}
  <2>. HIDE DEF new, a, b
  <2>. QED
    BY <1>6, <1>7, <1>8, Zenon
<1>. QED
  BY <1>1, <1>3, <1>7, <1>8, <1>10, <1>11, Zenon

\* The events after a discard of p's routes.
AfterDiscard(p) == {r \in table : r.src # p}
Gone(p) == {x \in Changed(table, AfterDiscard(p)) : To(AfterDiscard(p), x) = {}}
DiscardEvents(p) ==
    Events(p, Gone(p), AfterDiscard(p))
    \o Events(p, Changed(table, AfterDiscard(p)) \ Gone(p), AfterDiscard(p))

\* A discard changes the table and publishes events, in front of calls that it
\* has overtaken.
LEMMA DiscardMoves ==
    ASSUME AInv, NEW t \in Peers, DiscardRoutes(t)
    PROVE  LET p == Top(t).who
               f == Publish(NoOne, 0, DiscardEvents(p))
               below == Overtaken(Below(t), Changed(table, table'))
           IN  /\ stack[t] # <<>> /\ Top(t).op = "discard" /\ p \in Peers
               /\ table' = AfterDiscard(p) /\ table' \subseteq Routes
               /\ f \in FrameSet /\ Sound(f)
               /\ DiscardEvents(p) \in Seq(EventSet)
               /\ Elems(DiscardEvents(p)) = {Event(p, x, table') : x \in Changed(table, table')}
               /\ Below(t) \in Seq(Frames) /\ below \in Seq(Frames)
               /\ Moved(t, On(f, below)) /\ On(f, below) \in Seq(Frames)
               /\ Elems(On(f, below)) = (IF Done(f) THEN {} ELSE {f})
                     \cup {Late(g, Changed(table, table')) : g \in Elems(Below(t))}
               /\ UNCHANGED <<up, gen, told, ops, fails, tainted, excused>>
<1>. DEFINE p == Top(t).who
            new == AfterDiscard(p)
            xs == Changed(table, new)
            f == Publish(NoOne, 0, DiscardEvents(p))
            below == Overtaken(Below(t), xs)
            a == Events(p, Gone(p), new)
            b == Events(p, xs \ Gone(p), new)
<1>1. /\ stack[t] # <<>> /\ Top(t).op = "discard" /\ table' = new
      /\ stack' = Becomes(t, On(f, below))
      /\ UNCHANGED <<up, gen, told, ops, fails, tainted, excused>>
  BY Zenon DEF DiscardRoutes, At, AfterDiscard, Gone, DiscardEvents
<1>2. stack \in Stacks /\ table \subseteq Routes
  BY Zenon DEF AInv
<1>3. p \in Peers /\ Below(t) \in Seq(Frames)
  <2>1. Sound(Top(t)) /\ Below(t) \in Seq(Frames)
    BY <1>1, <1>2, TopBelow, Zenon
  <2>2. "discard" \notin {"publish", "deliver"}
    OBVIOUS
  <2>. QED
    BY <1>1, <2>1, <2>2, Zenon DEF Sound
<1>4. new \in SUBSET Routes /\ xs \in SUBSET Prefixes /\ Gone(p) \in SUBSET Prefixes
      /\ xs \ Gone(p) \in SUBSET Prefixes /\ Gone(p) \subseteq xs
  BY <1>2, Zenon DEF AfterDiscard, Changed, Gone
<1>5. /\ a \in Seq(EventSet) /\ Elems(a) = {Event(p, x, new) : x \in Gone(p)}
      /\ b \in Seq(EventSet) /\ Elems(b) = {Event(p, x, new) : x \in xs \ Gone(p)}
  BY <1>3, <1>4, EventsTyped, Zenon
<1>6. DiscardEvents(p) = a \o b
  BY Zenon DEF DiscardEvents
<1>7. DiscardEvents(p) \in Seq(EventSet) /\ Elems(DiscardEvents(p)) = Elems(a) \cup Elems(b)
  <2>. HIDE DEF a, b
  <2>. QED
    BY <1>5, <1>6, TwoLists, Zenon
<1>8. Elems(DiscardEvents(p)) = {Event(p, x, new) : x \in xs}
  <2>. HIDE DEF a, b, xs, new
  <2>. QED
    BY <1>4, <1>5, <1>7, Zenon
<1>9. f \in FrameSet /\ Sound(f)
  BY <1>7, PublishParts, Zenon DEF IsPublish
<1>10. below \in Seq(Frames) /\ Elems(below) = {Late(g, xs) : g \in Elems(Below(t))}
  BY <1>3, <1>4, OvertakenCalls, Zenon
<1>. HIDE DEF f, below, xs, new, p
<1>11. On(f, below) \in Seq(Frames) /\ Elems(On(f, below)) = (IF Done(f) THEN {} ELSE {f}) \cup Elems(below)
  BY <1>9, <1>10, OnCalls, Zenon
<1>12. Moved(t, On(f, below))
  BY <1>1, <1>2, <1>11, Becoming, Zenon DEF Moved
<1>. QED
  BY <1>1, <1>3, <1>4, <1>7, <1>8, <1>9, <1>10, <1>11, <1>12, Zenon DEF f, below, xs, new, p

\* The events of a snapshot of the table.
TableEvents(p) == Events(p, {x \in Prefixes : To(table, x) # {}}, table)

\* A dump gets its snapshot.
LEMMA SnapshotMoves ==
    ASSUME AInv, NEW t \in Peers, Snapshot(t)
    PROVE  LET f == Top(t)
               g == Dumping(f.who, f.gen, TableEvents(f.who))
           IN  /\ stack[t] # <<>> /\ f.op = "dump" /\ f.who \in Peers /\ f.gen \in Nat
               /\ g \in FrameSet /\ Sound(g)
               /\ TableEvents(f.who) \in Seq(EventSet) /\ Distinct(TableEvents(f.who))
               /\ Elems(TableEvents(f.who)) =
                     {Event(f.who, x, table) : x \in {y \in Prefixes : To(table, y) # {}}}
               /\ Below(t) \in Seq(Frames)
               /\ Moved(t, On(g, Below(t))) /\ On(g, Below(t)) \in Seq(Frames)
               /\ Elems(On(g, Below(t))) = (IF Done(g) THEN {} ELSE {g}) \cup Elems(Below(t))
               /\ UNCHANGED <<table, up, gen, told, ops, fails, tainted, excused>>
<1>. DEFINE f == Top(t)
            g == Dumping(f.who, f.gen, TableEvents(f.who))
<1>1. /\ stack[t] # <<>> /\ f.op = "dump" /\ stack' = Becomes(t, On(g, Below(t)))
      /\ UNCHANGED <<table, up, gen, told, ops, fails, tainted, excused>>
  BY Zenon DEF Snapshot, At, TableEvents
<1>2. stack \in Stacks /\ table \in SUBSET Routes
  BY Zenon DEF AInv
<1>3. f \in FrameSet /\ Sound(f) /\ Below(t) \in Seq(Frames)
  BY <1>1, <1>2, TopBelow, Zenon
<1>4. f.who \in Peers /\ f.gen \in Nat
  <2>1. "dump" \notin {"publish", "deliver"}
    OBVIOUS
  <2>. QED
    BY <1>1, <1>3, <2>1, FrameTyped, Zenon DEF Sound
<1>5. {x \in Prefixes : To(table, x) # {}} \in SUBSET Prefixes
  BY Zenon
<1>6. /\ TableEvents(f.who) \in Seq(EventSet) /\ Distinct(TableEvents(f.who))
      /\ Elems(TableEvents(f.who)) =
            {Event(f.who, x, table) : x \in {y \in Prefixes : To(table, y) # {}}}
  BY <1>2, <1>4, <1>5, EventsTyped, Zenon DEF TableEvents
<1>7. g \in FrameSet /\ Sound(g)
  BY <1>4, <1>6, DumpingParts, Zenon DEF IsDumping
<1>. HIDE DEF g, f
<1>8. /\ On(g, Below(t)) \in Seq(Frames)
      /\ Elems(On(g, Below(t))) = (IF Done(g) THEN {} ELSE {g}) \cup Elems(Below(t))
  BY <1>3, <1>7, OnCalls, Zenon
<1>9. Moved(t, On(g, Below(t)))
  BY <1>1, <1>2, <1>8, Becoming, Zenon DEF Moved
<1>. QED
  BY <1>1, <1>3, <1>4, <1>6, <1>7, <1>8, <1>9, Zenon DEF g, f

\* The call f without its first event, or without its first subscriber.
LessEvent(f) == [f EXCEPT !.evs = Tail(@)]
LessFsm(f) == [f EXCEPT !.todo = Tail(@)]

\* A message is to be sent, in front of the calls c, or not.
Sends(t, to, g, ev, late, c) ==
    /\ Permitted(to, ev)
    /\ Sending(to, g, ev, late) \in Frames
    /\ Moved(t, <<Sending(to, g, ev, late)>> \o c)
    /\ Elems(stack'[t]) = {Sending(to, g, ev, late)} \cup Elems(c)

\* A permitted message is sent.
LEMMA SendMoves ==
    ASSUME stack \in Stacks, NEW t \in Peers, NEW to \in Peers, NEW g \in Nat, NEW ev \in EventSet,
           NEW late \in SUBSET Prefixes, Permitted(to, ev), NEW c \in Seq(Frames),
           stack' = Becomes(t, <<Sending(to, g, ev, late)>> \o c)
    PROVE  Sends(t, to, g, ev, late, c)
<1>. DEFINE s == Sending(to, g, ev, late)
<1>1. s \in Frames
  BY SendingParts, Zenon DEF IsSending
<1>. HIDE DEF s
<1>2. <<s>> \o c \in Seq(Frames) /\ Elems(<<s>> \o c) = {s} \cup Elems(c)
  BY <1>1, Cons, Zenon
<1>3. Moved(t, <<s>> \o c)
  BY <1>2, Becoming, Zenon DEF Moved, s
<1>. QED
  BY <1>1, <1>2, <1>3, Zenon DEF Sends, Moved, s

\* The next route of a dump.
LEMMA AdvertiseMoves ==
    ASSUME AInv, NEW t \in Peers, Advertise(t)
    PROVE  LET f == Top(t)
               ev == Head(f.evs)
               rest == On(LessEvent(f), Below(t))
           IN  /\ stack[t] # <<>> /\ f.op = "dumping" /\ f \in Frames /\ f.who \in Peers
               /\ LessEvent(f) \in FrameSet /\ Sound(LessEvent(f)) /\ Below(t) \in Seq(Frames)
               /\ rest \in Seq(Frames)
               /\ Elems(rest) = (IF Done(LessEvent(f)) THEN {} ELSE {LessEvent(f)}) \cup Elems(Below(t))
               /\ \/ ~Current(f.who, f.gen) /\ Moved(t, Below(t))
                  \/ Current(f.who, f.gen) /\ ~Allowed(f.who, ev) /\ Moved(t, rest)
                  \/ Current(f.who, f.gen) /\ Sends(t, f.who, f.gen, ev, f.late, rest)
               /\ UNCHANGED <<table, up, gen, told, ops, fails, tainted, excused>>
<1>. DEFINE f == Top(t)
            ev == Head(f.evs)
            rest == On(LessEvent(f), Below(t))
<1>1. /\ stack[t] # <<>> /\ f.op = "dumping"
      /\ stack' = Becomes(t,
              IF ~Current(f.who, f.gen) THEN Below(t)
              ELSE IF Allowed(f.who, ev) THEN <<Sending(f.who, f.gen, ev, f.late)>> \o rest
              ELSE rest)
      /\ UNCHANGED <<table, up, gen, told, ops, fails, tainted, excused>>
  BY Zenon DEF Advertise, At, LessEvent
<1>2. stack \in Stacks
  BY Zenon DEF AInv
<1>3. f \in Frames /\ f \in FrameSet /\ Sound(f) /\ Below(t) \in Seq(Frames)
  BY <1>1, <1>2, TopBelow, Zenon
<1>4. f.who \in Peers /\ f.gen \in Nat /\ f.late \in SUBSET Prefixes
  <2>1. "dumping" \notin {"publish", "deliver"}
    OBVIOUS
  <2>. QED
    BY <1>1, <1>3, <2>1, FrameTyped, Zenon DEF Sound
<1>5. ev \in EventSet /\ LessEvent(f) \in FrameSet /\ Sound(LessEvent(f))
  BY <1>1, <1>3, RestParts, Zenon DEF LessEvent
<1>6. /\ rest \in Seq(Frames)
      /\ Elems(rest) = (IF Done(LessEvent(f)) THEN {} ELSE {LessEvent(f)}) \cup Elems(Below(t))
  BY <1>3, <1>5, OnCalls, Zenon
<1>. HIDE DEF f, ev, rest
<1>7. CASE ~Current(f.who, f.gen)
  <2>1. Moved(t, Below(t))
    BY <1>1, <1>2, <1>3, <1>7, Becoming, Zenon DEF Moved
  <2>. QED
    BY <1>1, <1>3, <1>4, <1>5, <1>6, <1>7, <2>1, Zenon DEF f, ev, rest
<1>8. CASE Current(f.who, f.gen) /\ ~Allowed(f.who, ev)
  <2>1. Moved(t, rest)
    BY <1>1, <1>2, <1>6, <1>8, Becoming, Zenon DEF Moved
  <2>. QED
    BY <1>1, <1>3, <1>4, <1>5, <1>6, <1>8, <2>1, Zenon DEF f, ev, rest
<1>9. CASE Current(f.who, f.gen) /\ Allowed(f.who, ev)
  <2>1. Permitted(f.who, ev)
    BY <1>5, <1>9, PassPermitted, Zenon DEF Allowed
  <2>2. stack' = Becomes(t, <<Sending(f.who, f.gen, ev, f.late)>> \o rest)
    BY <1>1, <1>9, Zenon
  <2>3. Sends(t, f.who, f.gen, ev, f.late, rest)
    BY <1>2, <1>4, <1>5, <1>6, <2>1, <2>2, SendMoves, Zenon
  <2>. QED
    BY <1>1, <1>3, <1>4, <1>5, <1>6, <1>9, <2>3, Zenon DEF f, ev, rest
<1>. QED
  BY <1>7, <1>8, <1>9, Zenon

\* The next event is handed to the FSMs.
LEMMA BeginMoves ==
    ASSUME AInv, NEW t \in Peers, Begin(t)
    PROVE  LET f == Top(t)
               ev == Head(f.evs)
               d == Deliver(f.who, ev, f.late)
               rest == On(LessEvent(f), Below(t))
           IN  /\ stack[t] # <<>> /\ f.op = "publish" /\ f \in Frames /\ ev \in EventSet
               /\ f.who = NoOne \/ Current(f.who, f.gen)
               /\ d \in FrameSet /\ Sound(d)
               /\ LessEvent(f) \in FrameSet /\ Sound(LessEvent(f)) /\ Below(t) \in Seq(Frames)
               /\ rest \in Seq(Frames) /\ Moved(t, On(d, rest))
               /\ Elems(rest) = (IF Done(LessEvent(f)) THEN {} ELSE {LessEvent(f)}) \cup Elems(Below(t))
               /\ Elems(stack'[t]) = (IF Done(d) THEN {} ELSE {d}) \cup Elems(rest)
               /\ UNCHANGED <<table, up, gen, told, ops, fails, tainted>>
<1>. DEFINE f == Top(t)
            ev == Head(f.evs)
            d == Deliver(f.who, ev, f.late)
            rest == On(LessEvent(f), Below(t))
<1>1. /\ stack[t] # <<>> /\ f.op = "publish" /\ GoesOn(f)
      /\ stack' = Becomes(t, On(d, rest))
      /\ UNCHANGED <<table, up, gen, told, ops, fails, tainted>>
  BY Zenon DEF Begin, At, LessEvent
<1>2. stack \in Stacks
  BY Zenon DEF AInv
<1>3. f \in Frames /\ f \in FrameSet /\ Below(t) \in Seq(Frames)
  BY <1>1, <1>2, TopBelow, Zenon
<1>4. f.who \in Peers \cup {NoOne} /\ f.late \in SUBSET Prefixes
  BY <1>3, FrameTyped, Zenon
<1>5. ev \in EventSet /\ LessEvent(f) \in FrameSet /\ Sound(LessEvent(f))
  BY <1>1, <1>3, RestParts, Zenon DEF LessEvent
<1>6. /\ rest \in Seq(Frames)
      /\ Elems(rest) = (IF Done(LessEvent(f)) THEN {} ELSE {LessEvent(f)}) \cup Elems(Below(t))
  BY <1>3, <1>5, OnCalls, Zenon
<1>7. d \in FrameSet /\ Sound(d)
  BY <1>4, <1>5, DeliverParts, Zenon DEF IsDeliver
<1>8. f.who = NoOne \/ Current(f.who, f.gen)
  BY <1>1, Zenon DEF GoesOn
<1>. HIDE DEF f, ev, d, rest
<1>9. On(d, rest) \in Seq(Frames) /\ Elems(On(d, rest)) = (IF Done(d) THEN {} ELSE {d}) \cup Elems(rest)
  BY <1>6, <1>7, OnCalls, Zenon
<1>10. Moved(t, On(d, rest)) /\ Elems(stack'[t]) = (IF Done(d) THEN {} ELSE {d}) \cup Elems(rest)
  BY <1>1, <1>2, <1>9, Becoming, Zenon DEF Moved
<1>. QED
  BY <1>1, <1>3, <1>5, <1>6, <1>7, <1>8, <1>10, Zenon DEF f, ev, d, rest

\* The callback of the next FSM.
Passes(d, ev) == up[d] /\ ev.src # d /\ ev.route \notin Denied[d]

\* It sends a message or not.
LEMMA CallbackMoves ==
    ASSUME AInv, NEW t \in Peers, Callback(t)
    PROVE  LET f == Top(t)
               d == Head(f.todo)
               ev == Head(f.evs)
               rest == On(LessFsm(f), Below(t))
           IN  /\ stack[t] # <<>> /\ f.op = "deliver" /\ f \in Frames /\ ev \in EventSet /\ d \in Peers
               /\ LessFsm(f) \in FrameSet /\ Sound(LessFsm(f)) /\ Below(t) \in Seq(Frames)
               /\ rest \in Seq(Frames)
               /\ Elems(rest) = (IF Done(LessFsm(f)) THEN {} ELSE {LessFsm(f)}) \cup Elems(Below(t))
               /\ \/ ~Passes(d, ev) /\ Moved(t, rest)
                  \/ Passes(d, ev) /\ Sends(t, d, gen[d], ev, f.late, rest)
               /\ excused' = IF ~Passes(d, ev) /\ told[d][ev.pfx] # NoRoute /\ ev.pfx \notin f.late
                             THEN excused \cup {<<d, ev.pfx>>} ELSE excused
               /\ UNCHANGED <<table, up, gen, told, ops, fails, tainted>>
<1>. DEFINE f == Top(t)
            d == Head(f.todo)
            ev == Head(f.evs)
            rest == On(LessFsm(f), Below(t))
<1>1. /\ stack[t] # <<>> /\ f.op = "deliver"
      /\ stack' = Becomes(t,
              IF Passes(d, ev) THEN <<Sending(d, gen[d], ev, f.late)>> \o rest ELSE rest)
      /\ excused' = IF ~Passes(d, ev) /\ told[d][ev.pfx] # NoRoute /\ ev.pfx \notin f.late
                    THEN excused \cup {<<d, ev.pfx>>} ELSE excused
      /\ UNCHANGED <<table, up, gen, told, ops, fails, tainted>>
  BY Zenon DEF Callback, At, LessFsm, Passes
<1>2. stack \in Stacks /\ gen \in [Peers -> Nat]
  BY Zenon DEF AInv
<1>3. f \in Frames /\ f \in FrameSet /\ Below(t) \in Seq(Frames)
  BY <1>1, <1>2, TopBelow, Zenon
<1>4. f.late \in SUBSET Prefixes
  BY <1>3, FrameTyped, Zenon
<1>5. ev \in EventSet /\ d \in Peers /\ LessFsm(f) \in FrameSet /\ Sound(LessFsm(f))
  BY <1>1, <1>3, RestParts, Zenon DEF LessFsm
<1>6. /\ rest \in Seq(Frames)
      /\ Elems(rest) = (IF Done(LessFsm(f)) THEN {} ELSE {LessFsm(f)}) \cup Elems(Below(t))
  BY <1>3, <1>5, OnCalls, Zenon
<1>. HIDE DEF f, d, ev, rest
<1>7. CASE ~Passes(d, ev)
  <2>1. Moved(t, rest)
    BY <1>1, <1>2, <1>6, <1>7, Becoming, Zenon DEF Moved
  <2>. QED
    BY <1>1, <1>3, <1>5, <1>6, <1>7, <2>1, Zenon DEF f, d, ev, rest
<1>8. CASE Passes(d, ev)
  <2>1. Permitted(d, ev)
    BY <1>5, <1>8, PassPermitted, Zenon DEF Passes
  <2>2. stack' = Becomes(t, <<Sending(d, gen[d], ev, f.late)>> \o rest) /\ gen[d] \in Nat
    BY <1>1, <1>2, <1>5, <1>8, Zenon
  <2>3. Sends(t, d, gen[d], ev, f.late, rest)
    BY <1>2, <1>4, <1>5, <1>6, <2>1, <2>2, SendMoves, Zenon
  <2>. QED
    BY <1>1, <1>3, <1>5, <1>6, <1>8, <2>3, Zenon DEF f, d, ev, rest
<1>. QED
  BY <1>7, <1>8, Zenon

\* A publication is given up.
LEMMA AbandonMoves ==
    ASSUME AInv, NEW t \in Peers, Abandon(t)
    PROVE  LET f == Top(t)
           IN  /\ stack[t] # <<>> /\ f.op = "publish" /\ f \in Frames
               /\ Below(t) \in Seq(Frames) /\ Moved(t, Below(t))
               /\ excused' = excused \cup
                     ({p \in Peers : up[p]} \X ({f.evs[i].pfx : i \in 1..Len(f.evs)} \ f.late))
               /\ UNCHANGED <<table, up, gen, told, ops, fails, tainted>>
<1>1. /\ stack[t] # <<>> /\ Top(t).op = "publish" /\ stack' = Becomes(t, Below(t))
      /\ excused' = excused \cup
            ({p \in Peers : up[p]} \X ({Top(t).evs[i].pfx : i \in 1..Len(Top(t).evs)} \ Top(t).late))
      /\ UNCHANGED <<table, up, gen, told, ops, fails, tainted>>
  BY Zenon DEF Abandon, At
<1>2. stack \in Stacks
  BY Zenon DEF AInv
<1>3. Top(t) \in Frames /\ Below(t) \in Seq(Frames)
  BY <1>1, <1>2, TopBelow, Zenon
<1>4. Moved(t, Below(t))
  BY <1>1, <1>2, <1>3, Becoming, Zenon DEF Moved
<1>. QED
  BY <1>1, <1>3, <1>4, Zenon

\* A message leaves, is lost with a session that has ended, or ends the session.
LEMMA MessageMoves ==
    ASSUME AInv, NEW t \in Peers, Send(t)
    PROVE  LET f == Top(t)
               d == f.who
               ev == Head(f.evs)
           IN  /\ stack[t] # <<>> /\ f.op = "send" /\ f \in Frames /\ d \in Peers
               /\ ev \in EventSet /\ ev \in Elems(f.evs) /\ Permitted(d, ev)
               /\ Below(t) \in Seq(Frames)
               /\ \/ up[d] /\ Moved(t, Below(t)) /\ Tell(t, d, ev, f.late) /\ UNCHANGED <<up, gen>>
                  \/ /\ ~Current(d, f.gen) /\ Moved(t, Below(t))
                     /\ UNCHANGED <<up, gen, told, excused>>
                  \/ /\ Current(d, f.gen) /\ TearDown(d)
                     /\ Moved(t, <<Discard(d)>> \o Below(t))
                     /\ Elems(stack'[t]) = {Discard(d)} \cup Elems(Below(t))
               /\ UNCHANGED <<table, ops, tainted>>
<1>. DEFINE f == Top(t)
            d == f.who
            ev == Head(f.evs)
<1>1. /\ stack[t] # <<>> /\ f.op = "send" /\ UNCHANGED <<table, ops, tainted>>
      /\ \/ up[d] /\ stack' = Becomes(t, Below(t)) /\ Tell(t, d, ev, f.late) /\ UNCHANGED <<up, gen>>
         \/ /\ ~Current(d, f.gen) /\ stack' = Becomes(t, Below(t))
            /\ UNCHANGED <<up, gen, told, excused>>
         \/ Current(d, f.gen) /\ TearDown(d) /\ stack' = Becomes(t, <<Discard(d)>> \o Below(t))
  <2>1. stack[t] # <<>> /\ f.op = "send" /\ UNCHANGED <<table, ops, tainted>>
    BY Zenon DEF Send, At
  <2>2. \/ /\ IF up[d] THEN Tell(t, d, ev, f.late) ELSE UNCHANGED <<told, excused>>
           /\ stack' = Becomes(t, Below(t))
           /\ UNCHANGED <<up, gen>>
        \/ IF Current(d, f.gen)
           THEN TearDown(d) /\ stack' = Becomes(t, <<Discard(d)>> \o Below(t))
           ELSE UNCHANGED <<up, gen, told, excused>> /\ stack' = Becomes(t, Below(t))
    BY Zenon DEF Send
  <2>3. ~up[d] => ~Current(d, f.gen)
    BY Zenon DEF Current
  <2>. HIDE DEF f, d, ev
  <2>. QED
    BY <2>1, <2>2, <2>3, Zenon
<1>2. stack \in Stacks
  BY Zenon DEF AInv
<1>3. f \in Frames /\ f \in FrameSet /\ Sound(f) /\ Below(t) \in Seq(Frames)
  BY <1>1, <1>2, TopBelow, Zenon
<1>4. d \in Peers /\ Permitted(d, ev)
  <2>1. "send" \notin {"publish", "deliver"}
    OBVIOUS
  <2>. QED
    BY <1>1, <1>3, <2>1, Zenon DEF Sound
<1>5. ev \in EventSet /\ ev \in Elems(f.evs)
  BY <1>1, <1>3, RestParts, Zenon
<1>6. Discard(d) \in Frames
  BY <1>4, DiscardParts, Zenon
<1>7. /\ <<Discard(d)>> \o Below(t) \in Seq(Frames)
      /\ Elems(<<Discard(d)>> \o Below(t)) = {Discard(d)} \cup Elems(Below(t))
  BY <1>3, <1>6, Cons, Zenon
<1>. HIDE DEF f, d, ev
<1>8. ASSUME stack' = Becomes(t, Below(t)) PROVE Moved(t, Below(t))
  BY <1>2, <1>3, <1>8, Becoming, Zenon DEF Moved
<1>9. ASSUME stack' = Becomes(t, <<Discard(d)>> \o Below(t))
      PROVE  /\ Moved(t, <<Discard(d)>> \o Below(t))
             /\ Elems(stack'[t]) = {Discard(d)} \cup Elems(Below(t))
  <2>. DEFINE c == <<Discard(d)>> \o Below(t)
  <2>. HIDE DEF c
  <2>1. Moved(t, c)
    BY <1>2, <1>7, <1>9, Becoming, Zenon DEF Moved, c
  <2>. QED
    BY <1>7, <2>1, Zenon DEF Moved, c
<1>. QED
  BY <1>1, <1>3, <1>4, <1>5, <1>8, <1>9, Zenon DEF f, d, ev

\* The end of a session forgets what its peer was told and keeps the rest.
LEMMA TearDownKeeps ==
    ASSUME AInv, NEW d \in Peers, TearDown(d)
    PROVE  /\ gen' \in [Peers -> Nat] /\ told' \in [Peers -> [Prefixes -> Routes \cup {NoRoute}]]
           /\ PolicyKept'
           /\ \A p \in Peers : p # d => told'[p] = told[p] /\ gen'[p] = gen[p]
           /\ \A x \in Prefixes : told'[d][x] = NoRoute
<1>1. /\ gen' = [gen EXCEPT ![d] = gen[d] + 1]
      /\ told' = [told EXCEPT ![d] = [x \in Prefixes |-> NoRoute]]
  BY DEF TearDown
<1>2. gen' \in [Peers -> Nat] /\ \A p \in Peers : p # d => gen'[p] = gen[p]
  BY <1>1 DEF AInv
<1>3. /\ told' \in [Peers -> [Prefixes -> Routes \cup {NoRoute}]]
      /\ \A p \in Peers : p # d => told'[p] = told[p]
      /\ told'[d] = [x \in Prefixes |-> NoRoute]
  BY <1>1, Zenon DEF AInv
<1>4. \A x \in Prefixes : told'[d][x] = NoRoute
  BY <1>3, Zenon
<1>5. PolicyKept'
  BY <1>3, <1>4, Zenon DEF AInv, PolicyKept
<1>. QED
  BY <1>2, <1>3, <1>4, <1>5, Zenon

\* The peer d is told of r for x, and nothing else.
ToldOnly(d, x, r) ==
    /\ x \in Prefixes /\ told'[d][x] = r
    /\ \A p \in Peers, y \in Prefixes : <<p, y>> # <<d, x>> => told'[p][y] = told[p][y]

\* A peer that is told about a prefix is told nothing else.
LEMMA TellKeeps ==
    ASSUME AInv, NEW t, NEW d \in Peers, NEW ev \in EventSet, Permitted(d, ev), NEW late,
           Tell(t, d, ev, late)
    PROVE  /\ told' \in [Peers -> [Prefixes -> Routes \cup {NoRoute}]] /\ PolicyKept'
           /\ ToldOnly(d, ev.pfx, Message(ev))
<1>. DEFINE x == ev.pfx
            m == Message(ev)
<1>1. told' = [told EXCEPT ![d] = [told[d] EXCEPT ![x] = m]]
  BY DEF Tell
<1>2. m \in Routes \cup {NoRoute} /\ (m # NoRoute => m.src # d /\ m \notin Denied[d]) /\ x \in Prefixes
  BY MessageKept, Zenon
<1>. HIDE DEF x, m
<1>3. told[d] \in [Prefixes -> Routes \cup {NoRoute}]
  BY Zenon DEF AInv
<1>4. [told[d] EXCEPT ![x] = m] \in [Prefixes -> Routes \cup {NoRoute}]
  BY <1>2, <1>3, Zenon
<1>5. /\ told' \in [Peers -> [Prefixes -> Routes \cup {NoRoute}]]
      /\ \A p \in Peers : p # d => told'[p] = told[p]
      /\ told'[d] = [told[d] EXCEPT ![x] = m]
  BY <1>1, <1>4, Zenon DEF AInv
<1>6. told'[d][x] = m /\ \A y \in Prefixes : y # x => told'[d][y] = told[d][y]
  BY <1>2, <1>3, <1>5, Zenon
<1>7. ASSUME NEW p \in Peers, NEW y \in Prefixes, <<p, y>> # <<d, x>> PROVE told'[p][y] = told[p][y]
  <2>1. CASE p # d
    BY <1>5, <2>1, Zenon
  <2>2. CASE p = d /\ y # x
    BY <1>6, <2>2, Zenon
  <2>. QED
    BY <1>7, <2>1, <2>2, Zenon
<1>8. PolicyKept'
  <2>1. ASSUME NEW p \in Peers, NEW y \in Prefixes, told'[p][y] # NoRoute
        PROVE  told'[p][y].src # p /\ told'[p][y] \notin Denied[p]
    <3>1. CASE p = d /\ y = x
      BY <1>2, <1>6, <2>1, <3>1, Zenon
    <3>2. CASE ~(p = d /\ y = x)
      <4>1. told'[p][y] = told[p][y]
        BY <1>5, <1>6, <3>2, Zenon
      <4>. QED
        BY <2>1, <4>1, Zenon DEF AInv, PolicyKept
    <3>. QED
      BY <3>1, <3>2, Zenon
  <2>. QED
    BY <2>1, Zenon DEF PolicyKept
<1>9. ToldOnly(d, x, m)
  BY <1>2, <1>6, <1>7, Zenon DEF ToldOnly
<1>. QED
  BY <1>5, <1>8, <1>9, Zenon DEF x, m

-----------------------------------------------------------------------------
(* What is told is permitted. *)

\* What a peer should know, or nothing, may be told to it.
LEMMA WantedTyped ==
    ASSUME table \subseteq Routes, NEW p \in Peers, NEW x \in Prefixes
    PROVE  /\ Wanted(p, x) \in Routes \cup {NoRoute}
           /\ Wanted(p, x) # NoRoute => Wanted(p, x).src # p /\ Wanted(p, x) \notin Denied[p]
<1>. DEFINE b == Best(table, x)
<1>1. b \in Routes \cup {NoRoute}
  BY BestTyped, Zenon
<1>2. Wanted(p, x) = IF b = NoRoute \/ b \in Denied[p] THEN NoRoute
                     ELSE IF b.src = p THEN NoRoute ELSE b
  BY Zenon DEF Wanted
<1>. HIDE DEF b
<1>. QED
  BY <1>1, <1>2, Zenon

\* At the start the peers know what they should know, and no call is made.
LEMMA InitInv == Init => AInv
<1>. SUFFICES ASSUME Init PROVE AInv
  OBVIOUS
<1>1. table \subseteq Routes
  BY LocalsAssumption DEF Init, Routes
<1>2. gen \in [Peers -> Nat]
  BY DEF Init
<1>3. stack \in Stacks
  BY DEF Init, Stacks
<1>4. told = [p \in Peers |-> [x \in Prefixes |-> IF up[p] THEN Wanted(p, x) ELSE NoRoute]]
  BY Zenon DEF Init
<1>5. \A p \in Peers, x \in Prefixes :
         told[p][x] = (IF up[p] THEN Wanted(p, x) ELSE NoRoute) /\ told[p][x] \in Routes \cup {NoRoute}
  BY <1>1, <1>4, WantedTyped, Zenon
<1>6. told \in [Peers -> [Prefixes -> Routes \cup {NoRoute}]]
  <2>1. \A p \in Peers : [x \in Prefixes |-> IF up[p] THEN Wanted(p, x) ELSE NoRoute]
                            \in [Prefixes -> Routes \cup {NoRoute}]
    BY <1>1, WantedTyped, Zenon
  <2>. QED
    BY <1>4, <2>1, Zenon
<1>7. PolicyKept
  <2>1. ASSUME NEW p \in Peers, NEW x \in Prefixes, told[p][x] # NoRoute
        PROVE  told[p][x].src # p /\ told[p][x] \notin Denied[p]
    <3>1. told[p][x] = Wanted(p, x)
      BY <1>5, <2>1, Zenon
    <3>. QED
      BY <1>1, <2>1, <3>1, WantedTyped, Zenon
  <2>. QED
    BY <2>1, Zenon DEF PolicyKept
<1>. QED
  BY <1>1, <1>2, <1>3, <1>6, <1>7, Zenon DEF AInv

\* Every step of every thread keeps the invariant.
LEMMA StepInv == AInv /\ [Next]_vars => AInv'
<1>. SUFFICES ASSUME AInv, [Next]_vars PROVE AInv'
  OBVIOUS
<1>0. stack \in Stacks /\ gen \in [Peers -> Nat] /\ table \subseteq Routes
  BY Zenon DEF AInv
<1>s. ASSUME table' \subseteq Routes, stack' \in Stacks, UNCHANGED <<gen, told>> PROVE AInv'
  BY <1>s, Zenon DEF AInv, PolicyKept
<1>1. ASSUME NEW t \in Peers, Establish(t) PROVE AInv'
  <2>1. gen[t] + 1 \in Nat
    BY <1>0
  <2>2. Dump(t, gen[t] + 1) \in FrameSet /\ Sound(Dump(t, gen[t] + 1))
    BY <2>1, DumpParts, Zenon DEF Frames
  <2>3. stack' \in Stacks
    BY <1>0, <1>1, <2>2, EnterMoves, Zenon DEF Establish, Moved
  <2>4. gen' \in [Peers -> Nat]
    BY <1>0, <1>1 DEF Establish
  <2>. QED
    BY <1>1, <2>3, <2>4, Zenon DEF Establish, AInv, PolicyKept
<1>2. ASSUME NEW t \in Peers, Update(t) PROVE AInv'
  <2>1. PICK u \in Updates :
          LET f == Publish(t, gen[t], UpdateEvents(t, u))
          IN  /\ table' \subseteq Routes /\ Enter(t, f) /\ f \in FrameSet /\ Sound(f)
              /\ UNCHANGED <<gen, told>>
    BY <1>2, UpdateMoves, Zenon
  <2>2. stack' \in Stacks
    BY <1>0, <2>1, EnterMoves, Zenon DEF Moved
  <2>. QED
    BY <1>s, <2>1, <2>2, Zenon
<1>3. ASSUME NEW t \in Peers, Down(t) PROVE AInv'
  <2>1. Discard(t) \in FrameSet /\ Sound(Discard(t))
    BY DiscardParts, Zenon DEF Frames
  <2>2. stack' \in Stacks
    BY <1>0, <1>3, <2>1, EnterMoves, Zenon DEF Down, Moved
  <2>3. TearDown(t) /\ table' = table
    BY <1>3, Zenon DEF Down
  <2>. QED
    BY <1>0, <2>2, <2>3, TearDownKeeps, Zenon DEF AInv
<1>4. ASSUME NEW t \in Peers, DiscardRoutes(t) PROVE AInv'
  BY <1>s, <1>4, DiscardMoves, Zenon DEF Moved
<1>5. ASSUME NEW t \in Peers, Snapshot(t) PROVE AInv'
  BY <1>0, <1>s, <1>5, SnapshotMoves, Zenon DEF Moved
<1>6. ASSUME NEW t \in Peers, Advertise(t) PROVE AInv'
  BY <1>0, <1>s, <1>6, AdvertiseMoves, Zenon DEF Moved, Sends
<1>7. ASSUME NEW t \in Peers, Begin(t) PROVE AInv'
  BY <1>0, <1>s, <1>7, BeginMoves, Zenon DEF Moved
<1>8. ASSUME NEW t \in Peers, Callback(t) PROVE AInv'
  BY <1>0, <1>s, <1>8, CallbackMoves, Zenon DEF Moved, Sends
<1>9. ASSUME NEW t \in Peers, Abandon(t) PROVE AInv'
  BY <1>0, <1>s, <1>9, AbandonMoves, Zenon DEF Moved
<1>10. ASSUME NEW t \in Peers, Send(t) PROVE AInv'
  <2>. DEFINE f == Top(t)
              d == f.who
              ev == Head(f.evs)
  <2>1. /\ d \in Peers /\ ev \in EventSet /\ Permitted(d, ev) /\ table' = table /\ stack' \in Stacks
        /\ \/ Tell(t, d, ev, f.late) /\ gen' = gen
           \/ UNCHANGED <<gen, told>>
           \/ TearDown(d)
    BY <1>10, MessageMoves, Zenon DEF Moved
  <2>. HIDE DEF f, d, ev
  <2>2. CASE Tell(t, d, ev, f.late) /\ gen' = gen
    BY <1>0, <2>1, <2>2, TellKeeps, Zenon DEF AInv
  <2>3. CASE UNCHANGED <<gen, told>>
    BY <1>0, <1>s, <2>1, <2>3, Zenon
  <2>4. CASE TearDown(d)
    BY <1>0, <2>1, <2>4, TearDownKeeps, Zenon DEF AInv
  <2>. QED
    BY <2>1, <2>2, <2>3, <2>4, Zenon
<1>11. CASE UNCHANGED vars
  BY <1>11, Zenon DEF vars, AInv, PolicyKept
<1>. QED
  BY <1>1, <1>2, <1>3, <1>4, <1>5, <1>6, <1>7, <1>8, <1>9, <1>10, <1>11, Zenon DEF Next

\* No peer is ever sent its own route or one that its out filter denies: for any
\* number of peers, filters, prefixes, overlapping calls and failing sends
\* (fsm_advertise_rib4_cb, fsm_route_event_cb).
THEOREM NothingForbiddenTold == Spec => []PolicyKept
<1>1. AInv => PolicyKept
  BY DEF AInv
<1>. QED
  BY InitInv, StepInv, <1>1, PTL DEF Spec

-----------------------------------------------------------------------------
(* That every peer learns the best routes.  As long as it does not know one,  *)
(* some frame on some stack is going to tell it.                              *)

\* What p should know, given the best route.
Want(p, best) ==
    IF best = NoRoute \/ best \in Denied[p] THEN NoRoute
    ELSE IF best.src = p THEN NoRoute ELSE best

\* With r, p knows what it should know of the best route.
Informed(p, r, best) ==
    r = Want(p, best) \/ (r = NoRoute /\ p \in Ibgp /\ best.src \in Ibgp)

\* An event of the frame says what the best route to x is, and it is not late.
Tells(fr, x, best) ==
    x \notin fr.late /\ \E ev \in Elems(fr.evs) : ev.pfx = x /\ Message(ev) = best

\* The frame will tell p, whose session is the g-th, of the best route to x.
Covers(fr, p, x, best, g) ==
    \/ fr.op = "publish" /\ Tells(fr, x, best)
    \/ fr.op = "deliver" /\ Tells(fr, x, best) /\ p \in Elems(fr.todo)
    \/ fr.op \in {"send", "dumping"} /\ fr.who = p /\ fr.gen = g /\ Tells(fr, x, best)
    \/ fr.op = "dump" /\ fr.who = p /\ fr.gen = g

Pending(p, x) ==
    \E t \in Peers : \E fr \in Elems(stack[t]) : Covers(fr, p, x, Best(table, x), gen[p])

\* A peer with a session and no excuse knows the best route or is about to.
Knows(p, x) ==
    up[p] /\ <<p, x>> \notin excused => Informed(p, told[p][x], Best(table, x)) \/ Pending(p, x)
PendInv == \A p \in Peers, x \in Prefixes : Knows(p, x)

\* Of two calls in progress both are tainted.
Alone == \A t, u \in Peers : t # u /\ stack[t] # <<>> /\ stack[u] # <<>> => t \in tainted

\* Nothing is remembered of a session that ended.
Forgotten == \A p \in Peers, x \in Prefixes : ~up[p] => told[p][x] = NoRoute

\* A dump is made by the first call of its peer's thread.  As long as its session
\* lasts only its own message can be on top of it, and the peer has been told
\* nothing about the prefixes that are left, unless by a call that overlaps.
DumpOps == {"dump", "dumping"}
About(fr) == IF fr.op = "dump" THEN Prefixes ELSE {ev.pfx : ev \in Elems(fr.evs)}
Shape(t, calls, fr) ==
    \/ calls = <<fr>>
    \/ \E g \in Frames : /\ calls = <<g>> \o <<fr>> /\ fr.op = "dumping"
                         /\ g.op = "send" /\ g.who = t /\ Head(g.evs).pfx \notin About(fr)
Untold(t, fr) == \A x \in About(fr) : told[t][x] = NoRoute \/ <<t, x>> \in excused
InDump(t, fr) ==
    /\ fr.who = t
    /\ Current(t, fr.gen) => Shape(t, stack[t], fr) /\ Untold(t, fr)
Dumps == \A t \in Peers : \A fr \in Elems(stack[t]) : fr.op \in DumpOps => InDump(t, fr)

\* On a thread that nothing overlaps the events are about the best routes there
\* are, unless they are late.
Timely(fr, tab) ==
    \A ev \in Elems(fr.evs) : ev.pfx \notin fr.late => Message(ev) = Best(tab, ev.pfx)
Undisturbed ==
    \A t \in Peers : t \notin tainted => \A fr \in Elems(stack[t]) : Timely(fr, table)

Typed == AInv /\ up \in [Peers -> BOOLEAN] /\ tainted \subseteq Peers

TellInv == Typed /\ Alone /\ Forgotten /\ Dumps /\ Undisturbed /\ PendInv

\* What a peer should know once the event about the best route has passed or has
\* been withheld from it (fsm_route_event_cb).
LEMMA EventMeans ==
    ASSUME NEW ev \in EventSet, NEW d
    PROVE  /\ Permitted(d, ev) => Want(d, Message(ev)) = Message(ev)
           /\ ev.src = d \/ ev.route \in Denied[d] => Want(d, Message(ev)) = NoRoute
           /\ Message(ev) # NoRoute => Message(ev).src = ev.src
BY DEF EventSet, Permitted, Message, Withdrawal, Want

\* No event remains of none.
LEMMA NoElems == Elems(<<>>) = {}
BY DEF Elems

\* The best route to a prefix stays when its routes stay (To).
LEMMA BestSame ==
    ASSUME NEW a, NEW b, NEW x, To(a, x) = To(b, x)
    PROVE  Best(a, x) = Best(b, x)
<1>. DEFINE Greatest(S) == IF S = {} THEN NoRoute ELSE CHOOSE r \in S : \A q \in S : Pref[r] >= Pref[q]
<1>1. Best(a, x) = Greatest(To(a, x)) /\ Best(b, x) = Greatest(To(b, x))
  BY Zenon DEF Best
<1>. HIDE DEF Greatest
<1>. QED
  BY <1>1, Zenon

\* A call in progress on a thread that goes on.
LEMMA AloneKept ==
    ASSUME Alone, NEW t \in Peers, NEW c, Moved(t, c), stack[t] # <<>>, tainted' = tainted
    PROVE  Alone'
<1>1. \A u \in Peers : stack'[u] # <<>> => stack[u] # <<>>
  BY Zenon DEF Moved
<1>. QED
  BY <1>1, Zenon DEF Alone

\* History when a thread enters the library.
LEMMA AloneEnter ==
    ASSUME NEW t \in Peers, NEW c, Moved(t, c), NEW f, Enter(t, f), tainted \subseteq Peers
    PROVE  /\ Alone' /\ tainted' \subseteq Peers
           /\ \A u \in Peers : u # t /\ u \notin tainted' => stack'[u] = <<>>
<1>. DEFINE busy == {q \in Peers : stack[q] # <<>>}
<1>1. stack[t] = <<>> /\ tainted' = (tainted \cap busy) \cup (IF busy = {} THEN {} ELSE busy \cup {t})
  BY Zenon DEF Enter
<1>2. \A u \in Peers : u # t => stack'[u] = stack[u]
  BY Zenon DEF Moved
<1>3. \A u \in Peers : u # t /\ stack'[u] # <<>> => u \in tainted' /\ t \in tainted'
  BY <1>1, <1>2, Zenon
<1>4. Alone'
  BY <1>3, Zenon DEF Alone
<1>. QED
  BY <1>1, <1>3, <1>4, Zenon

\* The events on a thread that goes on are timely when its own are.
LEMMA UndisturbedKept ==
    ASSUME Alone, NEW t \in Peers, NEW c, Moved(t, c), stack[t] # <<>>, tainted' = tainted,
           t \notin tainted => \A fr \in Elems(c) : Timely(fr, table')
    PROVE  Undisturbed'
<1>1. ASSUME NEW u \in Peers, u \notin tainted, NEW fr \in Elems(stack'[u]) PROVE Timely(fr, table')
  <2>1. CASE u = t
    BY <1>1, <2>1, Zenon DEF Moved
  <2>2. CASE u # t
    <3>1. stack'[u] = stack[u] /\ stack[u] = <<>>
      BY <1>1, <2>2, Zenon DEF Moved, Alone
    <3>. QED
      BY <1>1, <3>1, NoElems, Zenon
  <2>. QED
    BY <2>1, <2>2, Zenon
<1>. QED
  BY <1>1, Zenon DEF Undisturbed, Timely

\* The same for a thread that enters.
LEMMA UndisturbedEnter ==
    ASSUME NEW t \in Peers, NEW c, Moved(t, c), NEW f, Enter(t, f), tainted \subseteq Peers,
           \A fr \in Elems(c) : Timely(fr, table')
    PROVE  Undisturbed'
<1>1. ASSUME NEW u \in Peers, u \notin tainted', NEW fr \in Elems(stack'[u]) PROVE Timely(fr, table')
  <2>1. CASE u = t
    BY <1>1, <2>1, Zenon DEF Moved
  <2>2. CASE u # t
    <3>1. stack'[u] = <<>>
      BY <1>1, <2>2, AloneEnter, Zenon
    <3>. QED
      BY <1>1, <3>1, NoElems, Zenon
  <2>. QED
    BY <2>1, <2>2, Zenon
<1>. QED
  BY <1>1, Zenon DEF Undisturbed, Timely

\* A frame that is going to tell p.
LEMMA Gains ==
    ASSUME NEW t \in Peers, NEW c, Moved(t, c), NEW p, NEW x, NEW fr \in Elems(c),
           Covers(fr, p, x, Best(table', x), gen'[p])
    PROVE  Pending(p, x)'
<1>1. fr \in Elems(stack'[t])
  BY Zenon DEF Moved
<1>. QED
  BY <1>1, Zenon DEF Pending, Covers, Tells

\* A frame that was going to tell p still is, unless it was the latest call.
LEMMA StillPending ==
    ASSUME stack \in Stacks, NEW t \in Peers, NEW c, Moved(t, c), stack[t] # <<>>,
           NEW p, NEW x, Pending(p, x), Best(table', x) = Best(table, x), gen'[p] = gen[p],
           \A fr \in Elems(Below(t)) : Covers(fr, p, x, Best(table, x), gen[p]) =>
              \E g \in Elems(c) : Covers(g, p, x, Best(table, x), gen[p])
    PROVE  Pending(p, x)' \/ Covers(Top(t), p, x, Best(table, x), gen[p])
<1>1. PICK u \in Peers : \E fr \in Elems(stack[u]) : Covers(fr, p, x, Best(table, x), gen[p])
  BY Zenon DEF Pending
<1>2. PICK fr \in Elems(stack[u]) : Covers(fr, p, x, Best(table, x), gen[p])
  BY <1>1, Zenon
<1>3. CASE u # t
  <2>1. fr \in Elems(stack'[u])
    BY <1>3, Zenon DEF Moved
  <2>2. Covers(fr, p, x, Best(table', x), gen'[p])
    BY <1>2, Zenon
  <2>. QED
    BY <2>1, <2>2, Zenon DEF Pending, Covers, Tells
<1>4. CASE u = t
  <2>1. Elems(stack[t]) = {Top(t)} \cup Elems(Below(t))
    BY TopBelow, Zenon
  <2>2. CASE fr = Top(t)
    BY <1>2, <2>2, Zenon
  <2>3. CASE fr \in Elems(Below(t))
    <3>1. PICK g \in Elems(c) : Covers(g, p, x, Best(table, x), gen[p])
      BY <1>2, <2>3, Zenon
    <3>2. Covers(g, p, x, Best(table', x), gen'[p])
      BY <3>1, Zenon
    <3>. QED
      BY <3>2, Gains, Zenon
  <2>. QED
    BY <1>4, <2>1, <2>2, <2>3, Zenon
<1>. QED
  BY <1>3, <1>4, Zenon

\* The same when a thread enters the library.
LEMMA EnterPending ==
    ASSUME NEW t \in Peers, NEW c, Moved(t, c), stack[t] = <<>>,
           NEW p, NEW x, Pending(p, x), Best(table', x) = Best(table, x), gen'[p] = gen[p]
    PROVE  Pending(p, x)'
<1>1. PICK u \in Peers : \E fr \in Elems(stack[u]) : Covers(fr, p, x, Best(table, x), gen[p])
  BY Zenon DEF Pending
<1>2. PICK fr \in Elems(stack[u]) : Covers(fr, p, x, Best(table, x), gen[p])
  BY <1>1, Zenon
<1>3. u # t
  BY <1>2, NoElems, Zenon
<1>4. fr \in Elems(stack'[u])
  BY <1>3, Zenon DEF Moved
<1>5. Covers(fr, p, x, Best(table', x), gen'[p])
  BY <1>2, Zenon
<1>. QED
  BY <1>4, <1>5, Zenon DEF Pending, Covers, Tells

-----------------------------------------------------------------------------
(* Dumps. *)

\* A stack of one call.
LEMMA OneCall ==
    ASSUME NEW f \in Frames
    PROVE  /\ <<f>> \o <<>> = <<f>> /\ <<f>> \in Seq(Frames) /\ <<f>> # <<>>
           /\ Head(<<f>>) = f /\ Tail(<<f>>) = <<>> /\ Elems(<<f>>) = {f}
<1>1. /\ <<>> \in Seq(Frames) /\ <<f>> \in Seq(Frames) /\ <<f>> \o <<>> = <<f>>
      /\ <<f>> # <<>> /\ Head(<<f>>) = f /\ Tail(<<f>>) = <<>>
  OBVIOUS
<1>2. Elems(<<f>> \o <<>>) = {f} \cup Elems(<<>>)
  BY <1>1, Cons, Zenon
<1>. QED
  BY <1>1, <1>2, NoElems, Zenon

\* What is on top of a dump whose session lasts.
LEMMA OnDump ==
    ASSUME NEW t, NEW calls \in Seq(Frames), NEW fr \in Frames, Shape(t, calls, fr)
    PROVE  \/ Head(calls) = fr /\ Tail(calls) = <<>>
           \/ /\ Tail(calls) = <<fr>> /\ fr.op = "dumping" /\ Head(calls).op = "send"
              /\ Head(calls).who = t /\ Head(Head(calls).evs).pfx \notin About(fr)
<1>1. CASE calls = <<fr>>
  BY <1>1, OneCall, Zenon
<1>2. CASE calls # <<fr>>
  <2>1. PICK g \in Frames : /\ calls = <<g>> \o <<fr>> /\ fr.op = "dumping"
                            /\ g.op = "send" /\ g.who = t /\ Head(g.evs).pfx \notin About(fr)
    BY <1>2, Zenon DEF Shape
  <2>2. Head(calls) = g /\ Tail(calls) = <<fr>>
    <3>1. <<fr>> \in Seq(Frames)
      BY OneCall, Zenon
    <3>. QED
      BY <2>1, <3>1, Cons, Zenon
  <2>. QED
    BY <2>1, <2>2, Zenon
<1>. QED
  BY <1>1, <1>2, Zenon

\* Below any call but a message there are only dumps whose session has ended.
LEMMA DumpEnded ==
    ASSUME AInv, Dumps, NEW t \in Peers, stack[t] # <<>>, Top(t).op # "send",
           NEW fr \in Elems(Below(t)), fr.op \in DumpOps
    PROVE  fr.who = t /\ ~Current(t, fr.gen)
<1>1. /\ stack[t] \in Seq(Frames) /\ Elems(stack[t]) = {Top(t)} \cup Elems(Below(t))
      /\ Below(t) \in Seq(Frames)
  BY TopBelow, Zenon DEF AInv, Stacks
<1>2. InDump(t, fr)
  BY <1>1, Zenon DEF Dumps
<1>3. fr \in Frames
  <2>1. \A s \in Seq(Frames) : Elems(s) \subseteq Frames
    BY DEF Elems
  <2>. QED
    BY <1>1, <2>1, Zenon
<1>4. ASSUME Shape(t, stack[t], fr) PROVE FALSE
  <2>1. Below(t) = <<>>
    BY <1>1, <1>3, <1>4, OnDump, Zenon DEF Top, Below
  <2>. QED
    BY <2>1, NoElems, Zenon
<1>. QED
  BY <1>2, <1>4, Zenon DEF InDump

\* What a step leaves to a peer's dump: the session, or not; and what the peer is
\* told comes with an excuse.
Leaves(u, x) ==
    \/ told'[u][x] = told[u][x] /\ (<<u, x>> \in excused => <<u, x>> \in excused')
    \/ <<u, x>> \in excused'
SessionKept(u) == up'[u] => up[u] /\ gen'[u] = gen[u]

\* Dumps stay as they are when another thread goes on.
LEMMA DumpsKept ==
    ASSUME AInv, Dumps, NEW t \in Peers, NEW c, Moved(t, c),
           \A u \in Peers : u # t /\ stack[u] # <<>> =>
               SessionKept(u) /\ \A x \in Prefixes : up'[u] => Leaves(u, x),
           \A fr \in Elems(c) : fr.op \in DumpOps => InDump(t, fr)'
    PROVE  Dumps'
<1>1. ASSUME NEW u \in Peers, NEW fr \in Elems(stack'[u]), fr.op \in DumpOps PROVE InDump(u, fr)'
  <2>1. CASE u = t
    BY <1>1, <2>1, Zenon DEF Moved
  <2>2. CASE u # t
    <3>1. stack'[u] = stack[u]
      BY <2>2, Zenon DEF Moved
    <3>2. fr \in Elems(stack[u]) /\ stack[u] # <<>>
      BY <1>1, <3>1, NoElems, Zenon
    <3>3. InDump(u, fr)
      BY <1>1, <3>2, Zenon DEF Dumps
    <3>4. fr \in Frames
      <4>1. \A s \in Seq(Frames) : Elems(s) \subseteq Frames
        BY DEF Elems
      <4>2. stack[u] \in Seq(Frames)
        BY Zenon DEF AInv, Stacks
      <4>. QED
        BY <3>2, <4>1, <4>2, Zenon
    <3>5. ASSUME Current(u, fr.gen)' PROVE Shape(u, stack'[u], fr) /\ Untold(u, fr)'
      <4>1. Current(u, fr.gen) /\ up'[u]
        BY <2>2, <3>2, <3>5, Zenon DEF Current, SessionKept
      <4>2. Shape(u, stack[u], fr) /\ Untold(u, fr)
        BY <3>3, <4>1, Zenon DEF InDump
      <4>3. About(fr) \subseteq Prefixes
        <5>1. \A ev \in EventSet : ev.pfx \in Prefixes
          BY DEF EventSet
        <5>2. \A s \in Seq(EventSet) : Elems(s) \subseteq EventSet
          BY DEF Elems
        <5>3. fr.evs \in Seq(EventSet)
          BY <3>4, FrameTyped, Zenon DEF Frames
        <5>. QED
          BY <5>1, <5>2, <5>3, Zenon DEF About
      <4>4. \A x \in About(fr) : Leaves(u, x)
        BY <2>2, <3>2, <4>1, <4>3, Zenon
      <4>5. Untold(u, fr)'
        BY <4>2, <4>4, Zenon DEF Untold, Leaves
      <4>. QED
        BY <3>1, <4>2, <4>5, Zenon
    <3>6. fr.who = u
      BY <3>3, Zenon DEF InDump
    <3>. QED
      BY <3>5, <3>6, Zenon DEF InDump
  <2>. QED
    BY <2>1, <2>2, Zenon
<1>. QED
  BY <1>1, Zenon DEF Dumps

\* A dump whose session has ended is not taken up again.
LEMMA EndedStays ==
    ASSUME NEW t \in Peers, NEW fr, fr.who = t, ~Current(t, fr.gen), UNCHANGED <<up, gen>>
    PROVE  InDump(t, fr)'
BY Zenon DEF InDump, Current

-----------------------------------------------------------------------------
(* What a thread begins. *)

\* The end of a session is nothing to the other peers.
LEMMA TearDownOthers ==
    ASSUME Typed, Forgotten, NEW d \in Peers, TearDown(d)
    PROVE  /\ up' \in [Peers -> BOOLEAN] /\ ~up'[d] /\ Forgotten'
           /\ \A p \in Peers, x \in Prefixes : p # d =>
                 /\ up'[p] = up[p] /\ gen'[p] = gen[p] /\ told'[p][x] = told[p][x]
                 /\ <<p, x>> \in excused' <=> <<p, x>> \in excused
<1>1. AInv /\ up \in [Peers -> BOOLEAN] /\ up' = [up EXCEPT ![d] = FALSE]
  BY Zenon DEF Typed, TearDown
<1>2. up' \in [Peers -> BOOLEAN] /\ ~up'[d] /\ \A p \in Peers : p # d => up'[p] = up[p]
  BY <1>1, Zenon
<1>3. /\ \A p \in Peers : p # d => told'[p] = told[p] /\ gen'[p] = gen[p]
      /\ \A x \in Prefixes : told'[d][x] = NoRoute
  BY <1>1, TearDownKeeps, Zenon
<1>4. \A p, x : <<p, x>>[1] = p
  OBVIOUS
<1>5. excused' = {e \in excused : e[1] # d}
  BY Zenon DEF TearDown
<1>6. \A p, x : p # d => (<<p, x>> \in excused' <=> <<p, x>> \in excused)
  BY <1>4, <1>5, Zenon
<1>7. Forgotten'
  BY <1>2, <1>3, Zenon DEF Forgotten
<1>. QED
  BY <1>2, <1>3, <1>6, <1>7, Zenon

\* What a peer knows stays when nothing about it changes.
LEMMA KnowsEnter ==
    ASSUME NEW t \in Peers, NEW c, Moved(t, c), stack[t] = <<>>, NEW p, NEW x, Knows(p, x),
           up'[p] => up[p], gen'[p] = gen[p], told'[p][x] = told[p][x],
           <<p, x>> \in excused => <<p, x>> \in excused',
           Best(table', x) = Best(table, x)
    PROVE  Knows(p, x)'
<1>. SUFFICES ASSUME up'[p], <<p, x>> \notin excused'
              PROVE  Informed(p, told'[p][x], Best(table', x)) \/ Pending(p, x)'
  BY Zenon DEF Knows, Informed, Want
<1>1. Informed(p, told[p][x], Best(table, x)) \/ Pending(p, x)
  BY Zenon DEF Knows
<1>2. CASE Informed(p, told[p][x], Best(table, x))
  BY <1>2, Zenon
<1>3. CASE Pending(p, x)
  BY <1>3, EnterPending, Zenon
<1>. QED
  BY <1>1, <1>2, <1>3, Zenon

\* A session comes up, and its dump is to tell the peer everything.
LEMMA EstablishTells ==
    ASSUME TellInv, NEW t \in Peers, Establish(t)
    PROVE  TellInv'
<1>0. /\ AInv /\ stack \in Stacks /\ gen \in [Peers -> Nat] /\ up \in [Peers -> BOOLEAN]
      /\ tainted \subseteq Peers /\ Forgotten /\ Dumps /\ PendInv
  BY Zenon DEF TellInv, Typed, AInv
<1>1. AInv'
  BY <1>0, StepInv, Zenon DEF Next
<1>2. PICK g \in Nat : g = gen[t] + 1
  BY <1>0
<1>. DEFINE f == Dump(t, g)
<1>3. /\ ~up[t] /\ Enter(t, f) /\ UNCHANGED <<table, told, excused>>
      /\ up' = [up EXCEPT ![t] = TRUE] /\ gen' = [gen EXCEPT ![t] = g]
  BY <1>2 DEF Establish
<1>4. /\ up' \in [Peers -> BOOLEAN] /\ up'[t] /\ gen'[t] = g
      /\ \A p \in Peers : p # t => up'[p] = up[p] /\ gen'[p] = gen[p]
  BY <1>0, <1>3, Zenon
<1>5. f \in Frames /\ f.op = "dump" /\ f.who = t /\ f.gen = g /\ f.evs = <<>>
  BY DumpParts, Zenon
<1>. HIDE DEF f
<1>6. stack[t] = <<>> /\ Moved(t, <<f>>) /\ Elems(<<f>>) = {f}
  <2>1. f \in FrameSet /\ Sound(f) /\ ~Done(f)
    BY <1>5, Zenon DEF Frames
  <2>2. stack[t] = <<>> /\ Moved(t, On(f, <<>>))
    BY <1>0, <1>3, <2>1, EnterMoves, Zenon
  <2>3. On(f, <<>>) = <<f>>
    BY <1>5, <2>1, OneCall, Zenon DEF On
  <2>. QED
    BY <1>5, <2>2, <2>3, OneCall, Zenon
<1>7. Alone' /\ tainted' \subseteq Peers
  BY <1>0, <1>3, <1>6, AloneEnter, Zenon
<1>8. Undisturbed'
  <2>1. \A fr \in Elems(<<f>>) : Timely(fr, table')
    BY <1>5, <1>6, NoElems, Zenon DEF Timely
  <2>. QED
    BY <1>0, <1>3, <1>6, <2>1, UndisturbedEnter, Zenon
<1>9. Forgotten'
  BY <1>0, <1>3, <1>4, Zenon DEF Forgotten
<1>10. Dumps'
  <2>1. InDump(t, f)'
    <3>1. Shape(t, stack'[t], f)
      BY <1>6, Zenon DEF Shape, Moved
    <3>2. Untold(t, f)'
      <4>1. About(f) = Prefixes
        BY <1>5, Zenon DEF About
      <4>. QED
        BY <1>0, <1>3, <4>1, Zenon DEF Untold, Forgotten, About
    <3>. QED
      BY <1>5, <3>1, <3>2, Zenon DEF InDump
  <2>2. \A fr \in Elems(<<f>>) : fr.op \in DumpOps => InDump(t, fr)'
    BY <1>6, <2>1, Zenon
  <2>3. \A u \in Peers : u # t /\ stack[u] # <<>> =>
           SessionKept(u) /\ \A x \in Prefixes : up'[u] => Leaves(u, x)
    BY <1>3, <1>4, Zenon DEF SessionKept, Leaves
  <2>. QED
    BY <1>0, <1>6, <2>2, <2>3, DumpsKept, Zenon
<1>11. ASSUME NEW p \in Peers, NEW x \in Prefixes PROVE Knows(p, x)'
  <2>1. CASE p = t
    <3>1. Covers(f, p, x, Best(table', x), gen'[p])
      BY <1>4, <1>5, <2>1, Zenon DEF Covers
    <3>2. Pending(p, x)'
      BY <1>6, <3>1, Gains, Zenon
    <3>. QED
      BY <3>2, Zenon DEF Knows
  <2>2. CASE p # t
    <3>1. /\ Knows(p, x) /\ (up'[p] => up[p]) /\ gen'[p] = gen[p] /\ told'[p][x] = told[p][x]
          /\ (<<p, x>> \in excused => <<p, x>> \in excused') /\ Best(table', x) = Best(table, x)
      BY <1>0, <1>3, <1>4, <2>2, Zenon DEF PendInv
    <3>. QED
      BY <1>6, <3>1, KnowsEnter, Zenon
  <2>. QED
    BY <2>1, <2>2, Zenon
<1>12. PendInv'
  BY <1>11, Zenon DEF PendInv
<1>. QED
  BY <1>1, <1>4, <1>7, <1>8, <1>9, <1>10, <1>12, Zenon DEF TellInv, Typed

\* A session ends.
LEMMA DownTells ==
    ASSUME TellInv, NEW t \in Peers, Down(t)
    PROVE  TellInv'
<1>. DEFINE f == Discard(t)
<1>0. /\ AInv /\ stack \in Stacks /\ Typed /\ tainted \subseteq Peers /\ Forgotten /\ Dumps /\ PendInv
  BY Zenon DEF TellInv, Typed, AInv
<1>1. AInv'
  BY <1>0, StepInv, Zenon DEF Next
<1>2. Enter(t, f) /\ TearDown(t) /\ table' = table
  BY Zenon DEF Down
<1>3. /\ up' \in [Peers -> BOOLEAN] /\ ~up'[t] /\ Forgotten'
      /\ \A p \in Peers, x \in Prefixes : p # t =>
            /\ up'[p] = up[p] /\ gen'[p] = gen[p] /\ told'[p][x] = told[p][x]
            /\ <<p, x>> \in excused' <=> <<p, x>> \in excused
  BY <1>0, <1>2, TearDownOthers, Zenon
<1>4. f \in Frames /\ f.op = "discard" /\ f.evs = <<>>
  BY DiscardParts, Zenon
<1>. HIDE DEF f
<1>5. stack[t] = <<>> /\ Moved(t, <<f>>) /\ Elems(<<f>>) = {f}
  <2>1. f \in FrameSet /\ Sound(f) /\ ~Done(f)
    BY <1>4, Zenon DEF Frames
  <2>2. stack[t] = <<>> /\ Moved(t, On(f, <<>>))
    BY <1>0, <1>2, <2>1, EnterMoves, Zenon
  <2>3. On(f, <<>>) = <<f>>
    BY <1>4, <2>1, OneCall, Zenon DEF On
  <2>. QED
    BY <1>4, <2>2, <2>3, OneCall, Zenon
<1>6. Alone' /\ tainted' \subseteq Peers
  BY <1>0, <1>2, <1>5, AloneEnter, Zenon
<1>7. Undisturbed'
  <2>1. \A fr \in Elems(<<f>>) : Timely(fr, table')
    BY <1>4, <1>5, NoElems, Zenon DEF Timely
  <2>. QED
    BY <1>0, <1>2, <1>5, <2>1, UndisturbedEnter, Zenon
<1>8. Dumps'
  <2>1. "discard" \notin DumpOps
    BY DEF DumpOps
  <2>2. \A fr \in Elems(<<f>>) : fr.op \in DumpOps => InDump(t, fr)'
    BY <1>4, <1>5, <2>1, Zenon
  <2>3. ASSUME NEW u \in Peers, u # t PROVE SessionKept(u) /\ \A x \in Prefixes : Leaves(u, x)
    <3>1. \A x \in Prefixes : Leaves(u, x)
      BY <1>3, <2>3, Zenon DEF Leaves
    <3>2. up' = [up EXCEPT ![t] = FALSE] /\ up \in [Peers -> BOOLEAN]
      BY <1>0, <1>2, Zenon DEF TearDown, Typed
    <3>3. up'[u] = up[u] /\ gen'[u] = gen[u]
      BY <1>0, <1>2, <2>3, <3>2, TearDownKeeps, Zenon
    <3>. QED
      BY <3>1, <3>3, Zenon DEF SessionKept
  <2>. QED
    BY <1>0, <1>5, <2>2, <2>3, DumpsKept, Zenon
<1>9. ASSUME NEW p \in Peers, NEW x \in Prefixes PROVE Knows(p, x)'
  <2>1. CASE p = t
    BY <1>3, <2>1, Zenon DEF Knows
  <2>2. CASE p # t
    <3>1. /\ Knows(p, x) /\ (up'[p] => up[p]) /\ gen'[p] = gen[p] /\ told'[p][x] = told[p][x]
          /\ (<<p, x>> \in excused => <<p, x>> \in excused') /\ Best(table', x) = Best(table, x)
      BY <1>0, <1>2, <1>3, <2>2, Zenon DEF PendInv
    <3>. QED
      BY <1>5, <3>1, KnowsEnter, Zenon
  <2>. QED
    BY <2>1, <2>2, Zenon
<1>10. PendInv'
  BY <1>9, Zenon DEF PendInv
<1>. QED
  BY <1>1, <1>3, <1>6, <1>7, <1>8, <1>10, Zenon DEF TellInv, Typed

\* An UPDATE changes the best routes only to the prefixes it is about.
LEMMA UpdateChanges ==
    ASSUME NEW t \in Peers, NEW u \in Updates, NEW x \in Prefixes, x \notin u.wd \cup u.nlri
    PROVE  Best(AfterUpdate(t, u), x) = Best(table, x)
<1>1. \A r \in [pfx : u.nlri, src : {t}, v : {u.v}] : r.pfx \in u.nlri
  OBVIOUS
<1>2. ASSUME NEW r PROVE r \in To(AfterUpdate(t, u), x) <=> r \in To(table, x)
  BY <1>1, Zenon DEF To, AfterUpdate
<1>3. To(AfterUpdate(t, u), x) = To(table, x)
  BY <1>2, Zenon DEF To
<1>. QED
  BY <1>3, BestSame, Zenon

\* The call that publishes an event about every change will tell everybody.
LEMMA PublishTells ==
    ASSUME NEW by \in Peers \cup {NoOne}, NEW g \in Nat, NEW evs \in Seq(EventSet), NEW src \in Peers,
           NEW tab \in SUBSET Routes, NEW xs \in SUBSET Prefixes,
           Elems(evs) = {Event(src, x, tab) : x \in xs}
    PROVE  /\ Timely(Publish(by, g, evs), tab)
           /\ \A x \in xs : \A p, h : /\ ~Done(Publish(by, g, evs))
                                     /\ Covers(Publish(by, g, evs), p, x, Best(tab, x), h)
<1>. DEFINE f == Publish(by, g, evs)
<1>0. IsPublish(f, by, g, evs)
  BY PublishParts, Zenon
<1>. HIDE DEF f
<1>1. f.op = "publish" /\ f.evs = evs /\ f.late = {} /\ (Done(f) <=> evs = <<>>)
  BY <1>0, Zenon DEF IsPublish
<1>2. \A x \in xs : /\ Event(src, x, tab).pfx = x
                    /\ Message(Event(src, x, tab)) = Best(tab, x)
  BY EventTyped, Zenon
<1>3. Timely(f, tab)
  <2>1. ASSUME NEW ev \in Elems(f.evs) PROVE Message(ev) = Best(tab, ev.pfx)
    <3>1. PICK x \in xs : ev = Event(src, x, tab)
      BY <1>1, <2>1, Zenon
    <3>. QED
      BY <1>2, <3>1, Zenon
  <2>. QED
    BY <2>1, Zenon DEF Timely
<1>4. ASSUME NEW x \in xs PROVE ~Done(f) /\ Tells(f, x, Best(tab, x))
  <2>1. Event(src, x, tab) \in Elems(evs)
    BY <1>4, Zenon
  <2>2. evs # <<>>
    BY <2>1, NoElems, Zenon
  <2>. QED
    BY <1>1, <1>2, <1>4, <2>1, <2>2, Zenon DEF Tells
<1>5. \A x \in xs : \A p, h : ~Done(f) /\ Covers(f, p, x, Best(tab, x), h)
  BY <1>1, <1>4, Zenon DEF Covers
<1>. QED
  BY <1>3, <1>5, Zenon DEF f

\* An UPDATE arrives.
LEMMA UpdateTells ==
    ASSUME TellInv, NEW t \in Peers, Update(t)
    PROVE  TellInv'
<1>0. /\ AInv /\ stack \in Stacks /\ gen \in [Peers -> Nat] /\ up \in [Peers -> BOOLEAN]
      /\ tainted \subseteq Peers /\ Forgotten /\ Dumps /\ PendInv
  BY Zenon DEF TellInv, Typed, AInv
<1>1. AInv'
  BY <1>0, StepInv, Zenon DEF Next
<1>2. PICK u \in Updates :
          /\ table' = AfterUpdate(t, u) /\ table' \subseteq Routes
          /\ Enter(t, Publish(t, gen[t], UpdateEvents(t, u)))
          /\ UpdateEvents(t, u) \in Seq(EventSet)
          /\ Elems(UpdateEvents(t, u)) =
                {Event(t, x, table') : x \in Changed(table, table') \cap (u.wd \cup u.nlri)}
          /\ UNCHANGED <<up, gen, told, excused>>
  BY <1>0, UpdateMoves, Zenon
<1>3. PICK g \in Nat : g = gen[t]
  BY <1>0
<1>4. PICK evs \in Seq(EventSet) : evs = UpdateEvents(t, u)
  BY <1>2, Zenon
<1>5. PICK tab \in SUBSET Routes : tab = table'
  BY <1>2, Zenon
<1>6. PICK xs \in SUBSET Prefixes : xs = Changed(table, table') \cap (u.wd \cup u.nlri)
  BY Zenon DEF Changed
<1>. DEFINE f == Publish(t, g, evs)
<1>7. Enter(t, f) /\ Elems(evs) = {Event(t, x, tab) : x \in xs}
  BY <1>2, <1>3, <1>4, <1>5, <1>6, Zenon
<1>8. t \in Peers \cup {NoOne}
  BY Zenon
<1>9. f \in FrameSet /\ Sound(f) /\ f.op = "publish"
  <2>1. IsPublish(f, t, g, evs)
    BY <1>8, PublishParts, Zenon
  <2>. HIDE DEF f
  <2>. QED
    BY <2>1, Zenon DEF IsPublish
<1>10. Timely(f, tab) /\ \A x \in xs : \A p, h : ~Done(f) /\ Covers(f, p, x, Best(tab, x), h)
  BY <1>7, <1>8, PublishTells, Zenon
<1>. HIDE DEF f
<1>. DEFINE c == On(f, <<>>)
<1>11. stack[t] = <<>> /\ Moved(t, c) /\ Elems(c) = IF Done(f) THEN {} ELSE {f}
  BY <1>0, <1>7, <1>9, EnterMoves, Zenon
<1>. HIDE DEF c
<1>12. Alone' /\ tainted' \subseteq Peers
  BY <1>0, <1>7, <1>11, AloneEnter, Zenon
<1>13. Undisturbed'
  <2>1. \A fr \in Elems(c) : Timely(fr, table')
    BY <1>5, <1>10, <1>11, Zenon
  <2>. QED
    BY <1>0, <1>7, <1>11, <2>1, UndisturbedEnter, Zenon
<1>14. Forgotten'
  BY <1>0, <1>2, Zenon DEF Forgotten
<1>15. Dumps'
  <2>1. "publish" \notin DumpOps
    BY DEF DumpOps
  <2>2. \A fr \in Elems(c) : fr.op \in DumpOps => InDump(t, fr)'
    BY <1>9, <1>11, <2>1, Zenon
  <2>3. \A v \in Peers : v # t /\ stack[v] # <<>> =>
           SessionKept(v) /\ \A x \in Prefixes : up'[v] => Leaves(v, x)
    BY <1>2, Zenon DEF SessionKept, Leaves
  <2>. QED
    BY <1>0, <1>11, <2>2, <2>3, DumpsKept, Zenon
<1>16. ASSUME NEW p \in Peers, NEW x \in Prefixes PROVE Knows(p, x)'
  <2>1. CASE x \in xs
    <3>1. f \in Elems(c)
      BY <1>10, <1>11, <2>1, Zenon
    <3>2. Covers(f, p, x, Best(table', x), gen'[p])
      BY <1>5, <1>10, <2>1, Zenon
    <3>3. Pending(p, x)'
      BY <1>11, <3>1, <3>2, Gains, Zenon
    <3>. QED
      BY <3>3, Zenon DEF Knows
  <2>2. CASE x \notin xs
    <3>1. Best(table', x) = Best(table, x)
      <4>1. CASE x \notin u.wd \cup u.nlri
        BY <1>2, <4>1, UpdateChanges, Zenon
      <4>2. CASE x \in u.wd \cup u.nlri
        BY <1>6, <2>2, <4>2, Zenon DEF Changed
      <4>. QED
        BY <4>1, <4>2, Zenon
    <3>2. /\ Knows(p, x) /\ (up'[p] => up[p]) /\ gen'[p] = gen[p] /\ told'[p][x] = told[p][x]
          /\ (<<p, x>> \in excused => <<p, x>> \in excused')
      BY <1>0, <1>2, Zenon DEF PendInv
    <3>. QED
      BY <1>11, <3>1, <3>2, KnowsEnter, Zenon
  <2>. QED
    BY <2>1, <2>2, Zenon
<1>17. PendInv'
  BY <1>16, Zenon DEF PendInv
<1>. QED
  BY <1>0, <1>1, <1>2, <1>12, <1>13, <1>14, <1>15, <1>17, Zenon DEF TellInv, Typed

-----------------------------------------------------------------------------
(* What a thread goes on with. *)

\* The frames of a stack and the events of a frame.
LEMMA ElemsIn ==
    /\ \A s \in Seq(Frames) : Elems(s) \subseteq Frames
    /\ \A s \in Seq(EventSet) : Elems(s) \subseteq EventSet
    /\ \A s \in Seq(Peers) : Elems(s) \subseteq Peers
    /\ \A ev \in EventSet : ev.pfx \in Prefixes
<1>1. \A ev \in EventSet : ev.pfx \in Prefixes
  BY DEF EventSet
<1>2. /\ \A s \in Seq(Frames) : Elems(s) \subseteq Frames
      /\ \A s \in Seq(EventSet) : Elems(s) \subseteq EventSet
      /\ \A s \in Seq(Peers) : Elems(s) \subseteq Peers
  BY DEF Elems
<1>. QED
  BY <1>1, <1>2, Zenon

\* What a peer knows stays, but for what the latest call was going to tell it.
LEMMA KnowsOn ==
    ASSUME stack \in Stacks, NEW t \in Peers, NEW c, Moved(t, c), stack[t] # <<>>,
           NEW p, NEW x, Knows(p, x),
           up'[p] => up[p], gen'[p] = gen[p], told'[p][x] = told[p][x],
           <<p, x>> \in excused => <<p, x>> \in excused',
           Best(table', x) = Best(table, x),
           \A fr \in Elems(Below(t)) : Covers(fr, p, x, Best(table, x), gen[p]) =>
              \E g \in Elems(c) : Covers(g, p, x, Best(table, x), gen[p]),
           Covers(Top(t), p, x, Best(table, x), gen[p]) => Knows(p, x)'
    PROVE  Knows(p, x)'
<1>1. CASE Covers(Top(t), p, x, Best(table, x), gen[p])
  BY <1>1, Zenon
<1>2. CASE ~Covers(Top(t), p, x, Best(table, x), gen[p])
  <2>1. ASSUME up'[p], <<p, x>> \notin excused'
        PROVE  Informed(p, told'[p][x], Best(table', x)) \/ Pending(p, x)'
    <3>1. Informed(p, told[p][x], Best(table, x)) \/ Pending(p, x)
      BY <2>1, Zenon DEF Knows
    <3>2. CASE Informed(p, told[p][x], Best(table, x))
      BY <3>2, Zenon
    <3>3. CASE Pending(p, x)
      BY <1>2, <3>3, StillPending, Zenon
    <3>. QED
      BY <3>1, <3>2, <3>3, Zenon
  <2>. QED
    BY <2>1, Zenon DEF Knows, Informed, Want
<1>. QED
  BY <1>1, <1>2, Zenon

\* A frame still tells of what it is not late about.
LEMMA LateCovers ==
    ASSUME NEW fr \in FrameSet, NEW xs \in SUBSET Prefixes, NEW p, NEW x, x \notin xs, NEW b, NEW g,
           Covers(fr, p, x, b, g)
    PROVE  Covers(Late(fr, xs), p, x, b, g)
<1>. DEFINE l == Late(fr, xs)
<1>1. /\ l.op = fr.op /\ l.who = fr.who /\ l.gen = fr.gen /\ l.evs = fr.evs /\ l.todo = fr.todo
      /\ l.late = fr.late \cup xs
  BY LateParts, Zenon
<1>. HIDE DEF l
<1>2. Tells(fr, x, b) => Tells(l, x, b)
  BY <1>1, Zenon DEF Tells
<1>3. Covers(l, p, x, b, g)
  BY <1>1, <1>2, Zenon DEF Covers
<1>. QED
  BY <1>3, Zenon DEF l

\* The routes of a peer are discarded, inside whatever publication.
LEMMA DiscardTells ==
    ASSUME TellInv, NEW t \in Peers, DiscardRoutes(t)
    PROVE  TellInv'
<1>0. /\ AInv /\ stack \in Stacks /\ Typed /\ Alone /\ Forgotten /\ Dumps /\ Undisturbed /\ PendInv
  BY Zenon DEF TellInv, Typed, AInv
<1>1. AInv'
  BY <1>0, StepInv, Zenon DEF Next
<1>2. /\ stack[t] # <<>> /\ Top(t).op = "discard" /\ Top(t).who \in Peers
      /\ table' \subseteq Routes
      /\ DiscardEvents(Top(t).who) \in Seq(EventSet)
      /\ Elems(DiscardEvents(Top(t).who)) =
            {Event(Top(t).who, x, table') : x \in Changed(table, table')}
      /\ Below(t) \in Seq(Frames)
      /\ Moved(t, On(Publish(NoOne, 0, DiscardEvents(Top(t).who)),
                     Overtaken(Below(t), Changed(table, table'))))
      /\ Elems(On(Publish(NoOne, 0, DiscardEvents(Top(t).who)),
                  Overtaken(Below(t), Changed(table, table')))) =
            (IF Done(Publish(NoOne, 0, DiscardEvents(Top(t).who))) THEN {}
             ELSE {Publish(NoOne, 0, DiscardEvents(Top(t).who))})
            \cup {Late(g, Changed(table, table')) : g \in Elems(Below(t))}
      /\ UNCHANGED <<up, gen, told, tainted, excused>>
  BY <1>0, DiscardMoves, Zenon
<1>3. PICK q \in Peers : q = Top(t).who
  BY <1>2, Zenon
<1>4. PICK evs \in Seq(EventSet) : evs = DiscardEvents(Top(t).who)
  BY <1>2, Zenon
<1>5. PICK tab \in SUBSET Routes : tab = table'
  BY <1>2, Zenon
<1>6. PICK xs \in SUBSET Prefixes : xs = Changed(table, table')
  BY Zenon DEF Changed
<1>7. PICK low : low = Elems(Below(t))
  BY Zenon
<1>. DEFINE f == Publish(NoOne, 0, evs)
<1>8. PICK c : c = On(f, Overtaken(Below(t), xs))
  BY Zenon
<1>9. /\ Elems(evs) = {Event(q, x, tab) : x \in xs}
      /\ Moved(t, c) /\ Elems(c) = (IF Done(f) THEN {} ELSE {f}) \cup {Late(g, xs) : g \in low}
  BY <1>2, <1>3, <1>4, <1>5, <1>6, <1>7, <1>8, Zenon
<1>10. NoOne \in Peers \cup {NoOne} /\ 0 \in Nat
  OBVIOUS
<1>11. f.op = "publish"
  <2>1. IsPublish(f, NoOne, 0, evs)
    BY <1>10, PublishParts, Zenon
  <2>. HIDE DEF f
  <2>. QED
    BY <2>1, Zenon DEF IsPublish
<1>12. Timely(f, tab) /\ \A x \in xs : \A p, h : ~Done(f) /\ Covers(f, p, x, Best(tab, x), h)
  BY <1>9, <1>10, PublishTells, Zenon
<1>. HIDE DEF f
<1>13. low \subseteq FrameSet /\ low \subseteq Elems(stack[t])
  <2>1. low \subseteq Frames
    BY <1>2, <1>7, ElemsIn, Zenon
  <2>2. Elems(stack[t]) = {Top(t)} \cup Elems(Below(t))
    BY <1>0, <1>2, TopBelow, Zenon
  <2>. QED
    BY <1>7, <2>1, <2>2, Zenon DEF Frames
<1>14. \A x \in Prefixes : x \notin xs => Best(table', x) = Best(table, x)
  BY <1>6, Zenon DEF Changed
<1>15. Alone'
  BY <1>0, <1>2, <1>9, AloneKept, Zenon
<1>16. Undisturbed'
  <2>1. ASSUME t \notin tainted, NEW g \in low PROVE Timely(Late(g, xs), table')
    <3>1. Timely(g, table) /\ g \in FrameSet
      BY <1>0, <1>13, <2>1, Zenon DEF Undisturbed
    <3>2. Late(g, xs).evs = g.evs /\ Late(g, xs).late = g.late \cup xs
      BY <3>1, LateParts, Zenon
    <3>3. g.evs \in Seq(EventSet)
      BY <3>1, FrameTyped, Zenon
    <3>4. ASSUME NEW ev \in Elems(g.evs), ev.pfx \notin g.late \cup xs
          PROVE  Message(ev) = Best(table', ev.pfx)
      <4>1. ev.pfx \in Prefixes
        BY <3>3, <3>4, ElemsIn, Zenon
      <4>2. Message(ev) = Best(table, ev.pfx)
        BY <3>1, <3>4, Zenon DEF Timely
      <4>. QED
        BY <1>14, <3>4, <4>1, <4>2, Zenon
    <3>. QED
      BY <3>2, <3>4, Zenon DEF Timely
  <2>2. t \notin tainted => \A fr \in Elems(c) : Timely(fr, table')
    BY <1>5, <1>9, <1>12, <2>1, Zenon
  <2>. QED
    BY <1>0, <1>2, <1>9, <2>2, UndisturbedKept, Zenon
<1>17. Forgotten'
  BY <1>0, <1>2, Zenon DEF Forgotten
<1>18. Dumps'
  <2>1. "publish" \notin DumpOps /\ "discard" # "send"
    BY DEF DumpOps
  <2>2. ASSUME NEW g \in low, Late(g, xs).op \in DumpOps PROVE InDump(t, Late(g, xs))'
    <3>1. Late(g, xs).op = g.op /\ Late(g, xs).who = g.who /\ Late(g, xs).gen = g.gen
      BY <1>13, LateParts, Zenon
    <3>2. g.who = t /\ ~Current(t, g.gen)
      BY <1>0, <1>2, <1>7, <2>1, <2>2, <3>1, DumpEnded, Zenon
    <3>. QED
      BY <1>2, <3>1, <3>2, EndedStays, Zenon
  <2>3. \A fr \in Elems(c) : fr.op \in DumpOps => InDump(t, fr)'
    BY <1>9, <1>11, <2>1, <2>2, Zenon
  <2>4. \A v \in Peers : v # t /\ stack[v] # <<>> =>
           SessionKept(v) /\ \A x \in Prefixes : up'[v] => Leaves(v, x)
    BY <1>2, Zenon DEF SessionKept, Leaves
  <2>. QED
    BY <1>0, <1>9, <2>3, <2>4, DumpsKept, Zenon
<1>19. ASSUME NEW p \in Peers, NEW x \in Prefixes PROVE Knows(p, x)'
  <2>1. CASE x \in xs
    <3>1. f \in Elems(c)
      BY <1>9, <1>12, <2>1, Zenon
    <3>2. Covers(f, p, x, Best(table', x), gen'[p])
      BY <1>5, <1>12, <2>1, Zenon
    <3>3. Pending(p, x)'
      BY <1>9, <3>1, <3>2, Gains, Zenon
    <3>. QED
      BY <3>3, Zenon DEF Knows
  <2>2. CASE x \notin xs
    <3>1. /\ Knows(p, x) /\ (up'[p] => up[p]) /\ gen'[p] = gen[p] /\ told'[p][x] = told[p][x]
          /\ (<<p, x>> \in excused => <<p, x>> \in excused') /\ Best(table', x) = Best(table, x)
      BY <1>0, <1>2, <1>14, <2>2, Zenon DEF PendInv
    <3>2. ASSUME NEW fr \in Elems(Below(t)), Covers(fr, p, x, Best(table, x), gen[p])
          PROVE  \E g \in Elems(c) : Covers(g, p, x, Best(table, x), gen[p])
      <4>1. fr \in FrameSet /\ Late(fr, xs) \in Elems(c)
        BY <1>7, <1>9, <1>13, Zenon
      <4>2. Covers(Late(fr, xs), p, x, Best(table, x), gen[p])
        BY <2>2, <3>2, <4>1, LateCovers, Zenon
      <4>. QED
        BY <4>1, <4>2, Zenon
    <3>3. ~Covers(Top(t), p, x, Best(table, x), gen[p])
      BY <1>2 DEF Covers
    <3>. QED
      BY <1>0, <1>2, <1>9, <3>1, <3>2, <3>3, KnowsOn, Zenon
  <2>. QED
    BY <2>1, <2>2, Zenon
<1>20. PendInv'
  BY <1>19, Zenon DEF PendInv
<1>21. up' \in [Peers -> BOOLEAN] /\ tainted' \subseteq Peers
  BY <1>0, <1>2, Zenon DEF Typed
<1>. QED
  BY <1>1, <1>15, <1>16, <1>17, <1>18, <1>20, <1>21, Zenon DEF TellInv, Typed

\* A dump gets its snapshot.
LEMMA SnapshotTells ==
    ASSUME TellInv, NEW t \in Peers, Snapshot(t)
    PROVE  TellInv'
<1>0. /\ AInv /\ stack \in Stacks /\ Typed /\ Alone /\ Forgotten /\ Dumps /\ Undisturbed /\ PendInv
      /\ table \subseteq Routes
  BY Zenon DEF TellInv, Typed, AInv
<1>1. AInv'
  BY <1>0, StepInv, Zenon DEF Next
<1>2. PICK f : f = Top(t)
  BY Zenon
<1>3. PICK evs : evs = TableEvents(f.who)
  BY Zenon
<1>. DEFINE g == Dumping(f.who, f.gen, evs)
<1>4. PICK c : c = On(g, Below(t))
  BY Zenon
<1>5. /\ stack[t] # <<>> /\ f.op = "dump" /\ f.who \in Peers /\ f.gen \in Nat
      /\ evs \in Seq(EventSet) /\ Distinct(evs)
      /\ Elems(evs) = {Event(f.who, x, table) : x \in {y \in Prefixes : To(table, y) # {}}}
      /\ Below(t) \in Seq(Frames) /\ Moved(t, c)
      /\ Elems(c) = (IF Done(g) THEN {} ELSE {g}) \cup Elems(Below(t))
      /\ UNCHANGED <<table, up, gen, told, tainted, excused>>
  BY <1>0, <1>2, <1>3, <1>4, SnapshotMoves, Zenon
<1>6a. IsDumping(g, f.who, f.gen, evs)
  BY <1>5, DumpingParts, Zenon
<1>. HIDE DEF g
<1>6. /\ g \in FrameSet /\ Sound(g) /\ (Done(g) <=> evs = <<>>) /\ g.op = "dumping"
      /\ g.who = f.who /\ g.gen = f.gen /\ g.evs = evs /\ g.late = {}
  BY <1>6a, Zenon DEF IsDumping
<1>7. /\ f \in Frames /\ Elems(stack[t]) = {f} \cup Elems(Below(t))
      /\ stack[t] \in Seq(Frames) /\ f \in Elems(stack[t])
  BY <1>0, <1>2, <1>5, TopBelow, Zenon DEF Stacks
<1>8. InDump(t, f)
  <2>1. "dump" \in DumpOps
    BY DEF DumpOps
  <2>. QED
    BY <1>0, <1>5, <1>7, <2>1, Zenon DEF Dumps
<1>9. f.who = t /\ (Current(t, f.gen) => Untold(t, f) /\ Below(t) = <<>>)
  <2>1. ASSUME Shape(t, stack[t], f) PROVE Below(t) = <<>>
    <3>1. "dump" # "send"
      OBVIOUS
    <3>. QED
      BY <1>2, <1>5, <1>7, <2>1, <3>1, OnDump, Zenon DEF Top, Below
  <2>. QED
    BY <1>8, <2>1, Zenon DEF InDump
<1>10. ASSUME NEW ev \in Elems(evs)
       PROVE  ev.pfx \in Prefixes /\ Message(ev) = Best(table, ev.pfx)
  <2>1. PICK x \in Prefixes : ev = Event(f.who, x, table)
    BY <1>5, <1>10, Zenon
  <2>2. table \in SUBSET Routes
    BY <1>0, Zenon
  <2>3. ev.pfx = x /\ Message(ev) = Best(table, x)
    BY <1>5, <2>1, <2>2, EventTyped, Zenon
  <2>. QED
    BY <2>3, Zenon
<1>11. Alone'
  BY <1>0, <1>5, AloneKept, Zenon
<1>12. Undisturbed'
  <2>1. Timely(g, table')
    BY <1>5, <1>6, <1>10, Zenon DEF Timely
  <2>2. t \notin tainted => \A fr \in Elems(c) : Timely(fr, table')
    BY <1>0, <1>5, <1>7, <2>1, Zenon DEF Undisturbed
  <2>. QED
    BY <1>0, <1>5, <2>2, UndisturbedKept, Zenon
<1>13. Forgotten'
  BY <1>0, <1>5, Zenon DEF Forgotten
<1>14. Dumps'
  <2>1. ASSUME ~Done(g) PROVE InDump(t, g)'
    <3>1. ASSUME Current(t, g.gen)' PROVE Shape(t, stack'[t], g) /\ Untold(t, g)'
      <4>1. Current(t, f.gen)
        BY <1>5, <1>6, <3>1, Zenon DEF Current
      <4>2. g \in Frames
        BY <1>6, <2>1, Zenon DEF Frames
      <4>3. c = <<g>>
        BY <1>4, <1>9, <2>1, <4>1, <4>2, OneCall, Zenon DEF On
      <4>4. Shape(t, stack'[t], g)
        BY <1>5, <4>3, Zenon DEF Shape, Moved
      <4>5. About(f) = Prefixes
        BY <1>5, Zenon DEF About
      <4>6. About(g) \subseteq Prefixes
        <5>1. "dumping" # "dump"
          OBVIOUS
        <5>. QED
          BY <1>6, <1>10, <5>1, Zenon DEF About
      <4>7. \A x \in About(g) : told[t][x] = NoRoute \/ <<t, x>> \in excused
        BY <1>9, <4>1, <4>5, <4>6, Zenon DEF Untold
      <4>8. Untold(t, g)'
        BY <1>5, <4>7, Zenon DEF Untold
      <4>. QED
        BY <4>4, <4>8, Zenon
    <3>. QED
      BY <1>6, <1>9, <3>1, Zenon DEF InDump
  <2>2. ASSUME NEW fr \in Elems(Below(t)), fr.op \in DumpOps PROVE InDump(t, fr)'
    <3>1. Top(t).op # "send"
      BY <1>2, <1>5
    <3>2. fr.who = t /\ ~Current(t, fr.gen)
      BY <1>0, <1>5, <2>2, <3>1, DumpEnded, Zenon
    <3>. QED
      BY <1>5, <3>2, EndedStays, Zenon
  <2>3. \A fr \in Elems(c) : fr.op \in DumpOps => InDump(t, fr)'
    BY <1>5, <2>1, <2>2, Zenon
  <2>4. \A v \in Peers : v # t /\ stack[v] # <<>> =>
           SessionKept(v) /\ \A x \in Prefixes : up'[v] => Leaves(v, x)
    BY <1>5, Zenon DEF SessionKept, Leaves
  <2>. QED
    BY <1>0, <1>5, <2>3, <2>4, DumpsKept, Zenon
<1>15. ASSUME NEW p \in Peers, NEW x \in Prefixes PROVE Knows(p, x)'
  <2>1. /\ Knows(p, x) /\ (up'[p] => up[p]) /\ gen'[p] = gen[p] /\ told'[p][x] = told[p][x]
        /\ (<<p, x>> \in excused => <<p, x>> \in excused') /\ Best(table', x) = Best(table, x)
    BY <1>0, <1>5, Zenon DEF PendInv
  <2>2. \A fr \in Elems(Below(t)) : Covers(fr, p, x, Best(table, x), gen[p]) =>
           \E h \in Elems(c) : Covers(h, p, x, Best(table, x), gen[p])
    BY <1>5, Zenon
  <2>3. ASSUME Covers(f, p, x, Best(table, x), gen[p]) PROVE Knows(p, x)'
    <3>1. p = t /\ f.gen = gen[p]
      BY <1>5, <1>9, <2>3 DEF Covers
    <3>2. CASE To(table, x) = {}
      <4>1. Best(table, x) = NoRoute
        BY <3>2, Zenon DEF Best
      <4>2. ASSUME up[p], <<p, x>> \notin excused PROVE told[p][x] = NoRoute
        <5>1. Current(t, f.gen)
          BY <3>1, <4>2, Zenon DEF Current
        <5>2. x \in About(f)
          BY <1>5, Zenon DEF About
        <5>. QED
          BY <1>9, <3>1, <4>2, <5>1, <5>2, Zenon DEF Untold
      <4>3. up[p] /\ <<p, x>> \notin excused => Informed(p, told[p][x], Best(table, x))
        BY <4>1, <4>2, Zenon DEF Informed, Want
      <4>. QED
        BY <2>1, <1>5, <4>3, Zenon DEF Knows
    <3>3. CASE To(table, x) # {}
      <4>1. Event(f.who, x, table) \in Elems(evs)
        BY <1>5, <3>3, Zenon
      <4>2. /\ Event(f.who, x, table).pfx = x
            /\ Message(Event(f.who, x, table)) = Best(table, x)
        BY <1>0, <1>5, EventTyped, Zenon
      <4>3. evs # <<>> /\ Tells(g, x, Best(table, x))
        BY <1>6, <4>1, <4>2, NoElems, Zenon DEF Tells
      <4>4. Covers(g, p, x, Best(table', x), gen'[p])
        BY <1>5, <1>6, <1>9, <3>1, <4>3 DEF Covers
      <4>5. g \in Elems(c)
        BY <1>5, <1>6, <4>3, Zenon
      <4>6. Pending(p, x)'
        BY <1>5, <4>4, <4>5, Gains, Zenon
      <4>. QED
        BY <4>6, Zenon DEF Knows
    <3>. QED
      BY <3>2, <3>3, Zenon
  <2>. QED
    BY <1>0, <1>2, <1>5, <2>1, <2>2, <2>3, KnowsOn, Zenon
<1>16. PendInv'
  BY <1>15, Zenon DEF PendInv
<1>17. up' \in [Peers -> BOOLEAN] /\ tainted' \subseteq Peers
  BY <1>0, <1>5, Zenon DEF Typed
<1>. QED
  BY <1>1, <1>11, <1>12, <1>13, <1>14, <1>16, <1>17, Zenon DEF TellInv, Typed

-----------------------------------------------------------------------------
(* The dump and the publication go on. *)

\* What is left of a call after its first event.
IsLess(l, f) ==
    /\ l.op = f.op /\ l.who = f.who /\ l.gen = f.gen /\ l.late = f.late
    /\ l.evs = Tail(f.evs) /\ (Done(l) <=> Tail(f.evs) = <<>>)
    /\ \A tab : Timely(f, tab) => Timely(l, tab)
    /\ \A p, x, b, g : Covers(f, p, x, b, g) =>
          \/ ~Done(l) /\ Covers(l, p, x, b, g)
          \/ Head(f.evs).pfx = x /\ Message(Head(f.evs)) = b /\ x \notin f.late

\* It tells of the other events (LessEvent).
LEMMA LessTells ==
    ASSUME NEW f \in Frames, f.op \in {"publish", "dumping"}
    PROVE  IsLess(LessEvent(f), f)
<1>1. PICK l : l = LessEvent(f)
  BY Zenon
<1>2. /\ Elems(f.evs) = {Head(f.evs)} \cup Elems(Tail(f.evs))
  BY RestParts, Zenon
<1>3. f \in FrameSet
  BY Zenon DEF Frames
<1>4. /\ l.op = f.op /\ l.who = f.who /\ l.gen = f.gen /\ l.late = f.late /\ l.evs = Tail(f.evs)
  BY <1>1, <1>3 DEF LessEvent, FrameSet
<1>5. Done(l) <=> Tail(f.evs) = <<>>
  BY <1>4 DEF Done
<1>6. ASSUME NEW tab, Timely(f, tab) PROVE Timely(l, tab)
  BY <1>2, <1>4, <1>6, Zenon DEF Timely
<1>7. ASSUME NEW p, NEW x, NEW b, NEW g, Covers(f, p, x, b, g),
             ~(Head(f.evs).pfx = x /\ Message(Head(f.evs)) = b /\ x \notin f.late)
      PROVE  ~Done(l) /\ Covers(l, p, x, b, g)
  <2>1. Tells(f, x, b)
    BY <1>7 DEF Covers
  <2>2. Tells(l, x, b) /\ Tail(f.evs) # <<>>
    BY <1>2, <1>4, <1>7, <2>1, NoElems, Zenon DEF Tells
  <2>3. Covers(l, p, x, b, g)
    BY <1>4, <1>7, <2>2 DEF Covers
  <2>. QED
    BY <1>5, <2>2, <2>3, Zenon
<1>8. IsLess(l, f)
  BY <1>4, <1>5, <1>6, <1>7, Zenon DEF IsLess
<1>. QED
  BY <1>1, <1>8, Zenon

\* A message about an event.
IsMessage(s, to, g, ev, late) ==
    /\ s \in Frames /\ s.op = "send" /\ s.who = to /\ Head(s.evs) = ev
    /\ \A tab : (ev.pfx \notin late => Message(ev) = Best(tab, ev.pfx)) => Timely(s, tab)
    /\ \A x, b : ev.pfx = x /\ Message(ev) = b /\ x \notin late => Covers(s, to, x, b, g)

\* It tells the peer of it.
LEMMA MessageTells ==
    ASSUME NEW to \in Peers, NEW g \in Nat, NEW ev \in EventSet, NEW late \in SUBSET Prefixes,
           Permitted(to, ev)
    PROVE  IsMessage(Sending(to, g, ev, late), to, g, ev, late)
<1>1. PICK s : s = Sending(to, g, ev, late)
  BY Zenon
<1>1a. IsSending(s, to, g, ev, late)
  BY <1>1, SendingParts, Zenon
<1>2. /\ s \in Frames /\ s.op = "send" /\ s.who = to /\ s.gen = g /\ s.evs = <<ev>> /\ s.late = late
  BY <1>1a, Zenon DEF IsSending
<1>3. Head(<<ev>>) = ev /\ \A e : e \in Elems(<<ev>>) <=> e = ev
  BY OneEvent, Zenon
<1>4. ASSUME NEW tab, ev.pfx \notin late => Message(ev) = Best(tab, ev.pfx) PROVE Timely(s, tab)
  BY <1>2, <1>3, <1>4, Zenon DEF Timely
<1>5. ASSUME NEW x, NEW b, ev.pfx = x, Message(ev) = b, x \notin late PROVE Covers(s, to, x, b, g)
  <2>1. Tells(s, x, b)
    BY <1>2, <1>3, <1>5, Zenon DEF Tells
  <2>. QED
    BY <1>2, <2>1 DEF Covers
<1>6. IsMessage(s, to, g, ev, late)
  BY <1>2, <1>3, <1>4, <1>5, Zenon DEF IsMessage
<1>. QED
  BY <1>1, <1>6, Zenon

\* A step that only takes a call further keeps the invariant when the new calls
\* are as they should be and nobody the call was to tell is forgotten.
LEMMA Onward ==
    ASSUME TellInv, AInv', NEW t \in Peers, NEW c, Moved(t, c), stack[t] # <<>>, Top(t).op # "send",
           UNCHANGED <<table, up, gen, told, tainted>>, excused \subseteq excused',
           Elems(Below(t)) \subseteq Elems(c),
           \A fr \in Elems(c) : fr \notin Elems(Below(t)) =>
              /\ t \notin tainted => Timely(fr, table)
              /\ fr.op \in DumpOps => InDump(t, fr)',
           \A p \in Peers, x \in Prefixes :
              Covers(Top(t), p, x, Best(table, x), gen[p]) => Knows(p, x)'
    PROVE  TellInv'
<1>0. /\ AInv /\ stack \in Stacks /\ Typed /\ Alone /\ Forgotten /\ Dumps /\ Undisturbed /\ PendInv
  BY Zenon DEF TellInv, Typed, AInv
<1>1. Elems(stack[t]) = {Top(t)} \cup Elems(Below(t))
  BY <1>0, TopBelow, Zenon
<1>2. Alone'
  BY <1>0, AloneKept, Zenon
<1>3. Undisturbed'
  <2>1. t \notin tainted => \A fr \in Elems(c) : Timely(fr, table')
    BY <1>0, <1>1, Zenon DEF Undisturbed
  <2>. QED
    BY <1>0, <2>1, UndisturbedKept, Zenon
<1>4. Forgotten'
  BY <1>0, Zenon DEF Forgotten
<1>5. Dumps'
  <2>1. ASSUME NEW fr \in Elems(Below(t)), fr.op \in DumpOps PROVE InDump(t, fr)'
    <3>1. fr.who = t /\ ~Current(t, fr.gen)
      BY <1>0, <2>1, DumpEnded, Zenon
    <3>. QED
      BY <3>1, EndedStays, Zenon
  <2>2. \A fr \in Elems(c) : fr.op \in DumpOps => InDump(t, fr)'
    BY <2>1, Zenon
  <2>3. \A v \in Peers : v # t /\ stack[v] # <<>> =>
           SessionKept(v) /\ \A x \in Prefixes : up'[v] => Leaves(v, x)
    BY Zenon DEF SessionKept, Leaves
  <2>. QED
    BY <1>0, <2>2, <2>3, DumpsKept, Zenon
<1>6. ASSUME NEW p \in Peers, NEW x \in Prefixes PROVE Knows(p, x)'
  <2>1. /\ Knows(p, x) /\ (up'[p] => up[p]) /\ gen'[p] = gen[p] /\ told'[p][x] = told[p][x]
        /\ (<<p, x>> \in excused => <<p, x>> \in excused') /\ Best(table', x) = Best(table, x)
    BY <1>0, Zenon DEF PendInv
  <2>2. \A fr \in Elems(Below(t)) : Covers(fr, p, x, Best(table, x), gen[p]) =>
           \E h \in Elems(c) : Covers(h, p, x, Best(table, x), gen[p])
    BY Zenon
  <2>3. Covers(Top(t), p, x, Best(table, x), gen[p]) => Knows(p, x)'
    BY Zenon
  <2>. QED
    BY <1>0, <2>1, <2>2, <2>3, KnowsOn, Zenon
<1>7. PendInv'
  BY <1>6, Zenon DEF PendInv
<1>8. up' \in [Peers -> BOOLEAN] /\ tainted' \subseteq Peers
  BY <1>0, Zenon DEF Typed
<1>. QED
  BY <1>2, <1>3, <1>4, <1>5, <1>7, <1>8, Zenon DEF TellInv, Typed

\* A dump goes on, ends with its session or sends the next route.
LEMMA AdvertiseTells ==
    ASSUME TellInv, NEW t \in Peers, Advertise(t)
    PROVE  TellInv'
<1>0. /\ AInv /\ stack \in Stacks /\ Dumps /\ Undisturbed /\ up \in [Peers -> BOOLEAN]
  BY Zenon DEF TellInv, Typed, AInv
<1>1. AInv'
  BY <1>0, StepInv, Zenon DEF Next
<1>2. PICK f, l, ev, rest : f = Top(t) /\ l = LessEvent(f) /\ ev = Head(f.evs) /\ rest = On(l, Below(t))
  BY Zenon
<1>3. /\ stack[t] # <<>> /\ f.op = "dumping" /\ f \in Frames /\ f.who \in Peers
      /\ l \in FrameSet /\ Sound(l) /\ Below(t) \in Seq(Frames) /\ rest \in Seq(Frames)
      /\ Elems(rest) = (IF Done(l) THEN {} ELSE {l}) \cup Elems(Below(t))
      /\ \/ ~Current(f.who, f.gen) /\ Moved(t, Below(t))
         \/ Current(f.who, f.gen) /\ ~Allowed(f.who, ev) /\ Moved(t, rest)
         \/ Current(f.who, f.gen) /\ Sends(t, f.who, f.gen, ev, f.late, rest)
      /\ UNCHANGED <<table, up, gen, told, tainted, excused>>
  BY <1>0, <1>2, AdvertiseMoves, Zenon
<1>4. /\ Elems(stack[t]) = {f} \cup Elems(Below(t)) /\ stack[t] \in Seq(Frames) /\ Top(t).op # "send"
  <2>1. "dumping" # "send"
    OBVIOUS
  <2>. QED
    BY <1>0, <1>2, <1>3, <2>1, TopBelow, Zenon DEF Stacks
<1>5. /\ f \in FrameSet /\ Distinct(f.evs) /\ f.gen \in Nat /\ f.late \in SUBSET Prefixes
      /\ f.evs \in Seq(EventSet) /\ f.evs # <<>> /\ ev \in EventSet
      /\ Elems(f.evs) = {ev} \cup Elems(Tail(f.evs))
  <2>1. f \in FrameSet /\ Sound(f) /\ "dumping" \in {"publish", "dumping", "send", "deliver"}
    BY <1>3 DEF Frames
  <2>2. "dumping" \in {"publish", "dumping"}
    OBVIOUS
  <2>. QED
    BY <1>2, <1>3, <2>1, <2>2, FrameTyped, RestParts, Zenon DEF Sound
<1>6. /\ l.op = f.op /\ l.who = f.who /\ l.gen = f.gen /\ l.late = f.late
      /\ l.evs = Tail(f.evs) /\ (Done(l) <=> Tail(f.evs) = <<>>)
      /\ Timely(f, table) => Timely(l, table)
      /\ \A p, x, b, g : Covers(f, p, x, b, g) =>
            \/ ~Done(l) /\ Covers(l, p, x, b, g)
            \/ ev.pfx = x /\ Message(ev) = b /\ x \notin f.late
  <2>1. f.op \in {"publish", "dumping"}
    BY <1>3
  <2>2. IsLess(l, f)
    BY <1>2, <1>3, <2>1, LessTells, Zenon
  <2>. QED
    BY <1>2, <2>2, Zenon DEF IsLess
<1>7. f.who = t /\ (Current(t, f.gen) => Untold(t, f) /\ Below(t) = <<>>)
  <2>1. InDump(t, f)
    <3>1. "dumping" \in DumpOps
      BY DEF DumpOps
    <3>. QED
      BY <1>0, <1>3, <1>4, <3>1, Zenon DEF Dumps
  <2>2. ASSUME Shape(t, stack[t], f) PROVE Below(t) = <<>>
    BY <1>2, <1>3, <1>4, <2>2, OnDump, Zenon DEF Top, Below
  <2>. QED
    BY <2>1, <2>2, Zenon DEF InDump
<1>8. ASSUME NEW p \in Peers, NEW x, Covers(f, p, x, Best(table, x), gen[p]) PROVE p = t /\ f.gen = gen[p]
  BY <1>3, <1>7, <1>8 DEF Covers
<1>9. About(f) = {e.pfx : e \in Elems(f.evs)} /\ About(l) = {e.pfx : e \in Elems(Tail(f.evs))}
  <2>1. "dumping" # "dump"
    OBVIOUS
  <2>. QED
    BY <1>3, <1>6, <2>1, Zenon DEF About
<1>10. Untold(t, f) => Untold(t, l)'
  <2>1. About(l) \subseteq About(f)
    BY <1>5, <1>9, Zenon
  <2>. QED
    BY <1>3, <2>1, Zenon DEF Untold
<1>11. t \notin tainted => Timely(f, table) /\ Timely(l, table)
  BY <1>0, <1>4, <1>6, Zenon DEF Undisturbed
<1>12. CASE ~Current(f.who, f.gen) /\ Moved(t, Below(t))
  <2>1. ASSUME NEW p \in Peers, NEW x \in Prefixes, Covers(f, p, x, Best(table, x), gen[p])
        PROVE  Knows(p, x)'
    <3>1. ~up'[p]
      BY <1>3, <1>7, <1>8, <1>12, <2>1, Zenon DEF Current
    <3>. QED
      BY <3>1, Zenon DEF Knows
  <2>. QED
    BY <1>1, <1>2, <1>3, <1>4, <1>12, <2>1, Onward, Zenon
<1>13. ASSUME Current(f.who, f.gen)
       PROVE  /\ Untold(t, f) /\ Below(t) = <<>> /\ (~Done(l) => l \in Frames /\ rest = <<l>>)
  <2>1. Current(t, f.gen)
    BY <1>7, <1>13, Zenon
  <2>2. Untold(t, f) /\ Below(t) = <<>>
    BY <1>7, <2>1, Zenon
  <2>3. ASSUME ~Done(l) PROVE l \in Frames /\ rest = <<l>>
    <3>1. l \in Frames
      BY <1>3, <2>3, Zenon DEF Frames
    <3>2. rest = <<l>> \o <<>>
      BY <1>2, <2>2, <2>3, Zenon DEF On
    <3>. QED
      BY <3>1, <3>2, OneCall, Zenon
  <2>. QED
    BY <2>2, <2>3, Zenon
<1>14. CASE Current(f.who, f.gen) /\ ~Allowed(f.who, ev) /\ Moved(t, rest)
  <2>1. ASSUME ~Done(l) PROVE InDump(t, l)'
    <3>1. Shape(t, stack'[t], l)
      BY <1>13, <1>14, <2>1, Zenon DEF Shape, Moved
    <3>2. Untold(t, l)' /\ l.who = t
      BY <1>6, <1>7, <1>10, <1>13, <1>14, Zenon
    <3>. QED
      BY <3>1, <3>2, Zenon DEF InDump
  <2>2. ASSUME NEW p \in Peers, NEW x \in Prefixes, Covers(f, p, x, Best(table, x), gen[p])
        PROVE  Knows(p, x)'
    <3>1. CASE ~Done(l) /\ Covers(l, p, x, Best(table, x), gen[p])
      <4>1. l \in Elems(rest) /\ Covers(l, p, x, Best(table', x), gen'[p])
        BY <1>3, <3>1, Zenon
      <4>2. Pending(p, x)'
        BY <1>14, <4>1, Gains, Zenon
      <4>. QED
        BY <4>2, Zenon DEF Knows
    <3>2. CASE ev.pfx = x /\ Message(ev) = Best(table, x) /\ x \notin f.late
      <4>1. p = t /\ x \in About(f)
        BY <1>5, <1>8, <1>9, <2>2, <3>2, Zenon
      <4>2. told[t][x] = NoRoute \/ <<t, x>> \in excused
        BY <1>13, <1>14, <4>1, Zenon DEF Untold
      <4>3. CASE ev.src = t \/ ev.route \in Denied[t]
        <5>1. Want(t, Best(table, x)) = NoRoute
          BY <1>5, <3>2, <4>3, EventMeans, Zenon
        <5>. QED
          BY <1>3, <4>1, <4>2, <5>1, Zenon DEF Knows, Informed
      <4>4. CASE t \in Ibgp /\ ev.src \in Ibgp
        <5>1. Best(table, x) # NoRoute => Best(table, x).src \in Ibgp
          BY <1>5, <3>2, <4>4, EventMeans, Zenon
        <5>2. Best(table, x) = NoRoute => Want(t, Best(table, x)) = NoRoute
          BY Zenon DEF Want
        <5>. QED
          BY <1>3, <4>1, <4>2, <4>4, <5>1, <5>2, Zenon DEF Knows, Informed
      <4>. QED
        BY <1>7, <1>14, <4>3, <4>4, Zenon DEF Allowed
    <3>. QED
      BY <1>6, <2>2, <3>1, <3>2, Zenon
  <2>3. Elems(Below(t)) \subseteq Elems(rest) /\ \A fr \in Elems(rest) : fr \notin Elems(Below(t)) =>
           /\ t \notin tainted => Timely(fr, table)
           /\ fr.op \in DumpOps => InDump(t, fr)'
    BY <1>3, <1>11, <2>1, Zenon
  <2>. QED
    BY <1>1, <1>2, <1>3, <1>4, <1>14, <2>2, <2>3, Onward, Zenon
<1>15. CASE Current(f.who, f.gen) /\ Sends(t, f.who, f.gen, ev, f.late, rest)
  <2>1. PICK s, c : s = Sending(t, f.gen, ev, f.late) /\ c = <<s>> \o rest
    BY Zenon
  <2>2. Permitted(t, ev) /\ Moved(t, c) /\ Elems(c) = {s} \cup Elems(rest)
    BY <1>7, <1>15, <2>1, Zenon DEF Sends, Moved
  <2>3. /\ s \in Frames /\ s.op = "send" /\ s.who = t /\ Head(s.evs) = ev
        /\ (ev.pfx \notin f.late => Message(ev) = Best(table, ev.pfx)) => Timely(s, table)
        /\ \A x, b : ev.pfx = x /\ Message(ev) = b /\ x \notin f.late => Covers(s, t, x, b, f.gen)
    <3>1. IsMessage(s, t, f.gen, ev, f.late)
      BY <1>5, <2>1, <2>2, MessageTells, Zenon
    <3>. QED
      BY <3>1, Zenon DEF IsMessage
  <2>4. t \notin tainted => Timely(s, table)
    <3>1. Timely(f, table) => (ev.pfx \notin f.late => Message(ev) = Best(table, ev.pfx))
      BY <1>5, Zenon DEF Timely
    <3>. QED
      BY <1>11, <2>3, <3>1, Zenon
  <2>5. ASSUME ~Done(l) PROVE InDump(t, l)'
    <3>1. c = <<s>> \o <<l>>
      BY <1>13, <1>15, <2>1, <2>5, Zenon
    <3>2. ev.pfx \notin About(l)
      BY <1>2, <1>5, <1>9, RestOfEvents, Zenon
    <3>3. Shape(t, stack'[t], l)
      BY <1>3, <1>6, <2>2, <2>3, <3>1, <3>2, Zenon DEF Shape, Moved
    <3>4. Untold(t, l)' /\ l.who = t
      BY <1>6, <1>7, <1>10, <1>13, <1>15, Zenon
    <3>. QED
      BY <3>3, <3>4, Zenon DEF InDump
  <2>6. ASSUME NEW p \in Peers, NEW x \in Prefixes, Covers(f, p, x, Best(table, x), gen[p])
        PROVE  Knows(p, x)'
    <3>1. CASE ~Done(l) /\ Covers(l, p, x, Best(table, x), gen[p])
      <4>1. l \in Elems(c) /\ Covers(l, p, x, Best(table', x), gen'[p])
        BY <1>3, <2>2, <3>1, Zenon
      <4>2. Pending(p, x)'
        BY <2>2, <4>1, Gains, Zenon
      <4>. QED
        BY <4>2, Zenon DEF Knows
    <3>2. CASE ev.pfx = x /\ Message(ev) = Best(table, x) /\ x \notin f.late
      <4>1. s \in Elems(c) /\ Covers(s, p, x, Best(table', x), gen'[p])
        BY <1>3, <1>8, <2>2, <2>3, <2>6, <3>2, Zenon
      <4>2. Pending(p, x)'
        BY <2>2, <4>1, Gains, Zenon
      <4>. QED
        BY <4>2, Zenon DEF Knows
    <3>. QED
      BY <1>6, <2>6, <3>1, <3>2, Zenon
  <2>7. "send" \notin DumpOps
    BY DEF DumpOps
  <2>8. Elems(Below(t)) \subseteq Elems(c) /\ \A fr \in Elems(c) : fr \notin Elems(Below(t)) =>
           /\ t \notin tainted => Timely(fr, table)
           /\ fr.op \in DumpOps => InDump(t, fr)'
    BY <1>3, <1>11, <2>2, <2>3, <2>4, <2>5, <2>7, Zenon
  <2>. QED
    BY <1>1, <1>2, <1>3, <1>4, <2>2, <2>6, <2>8, Onward, Zenon
<1>. QED
  BY <1>3, <1>12, <1>14, <1>15, Zenon

\* An event goes to the subscribers; its publisher is excused if it should have
\* been told.
LEMMA BeginTells ==
    ASSUME TellInv, NEW t \in Peers, Begin(t)
    PROVE  TellInv'
<1>0. /\ AInv /\ stack \in Stacks /\ Undisturbed
  BY Zenon DEF TellInv, Typed, AInv
<1>1. AInv'
  BY <1>0, StepInv, Zenon DEF Next
<1>2. PICK f, l, ev : f = Top(t) /\ l = LessEvent(f) /\ ev = Head(f.evs)
  BY Zenon
<1>3. PICK d, rest, c : d = Deliver(f.who, ev, f.late) /\ rest = On(l, Below(t)) /\ c = On(d, rest)
  BY Zenon
<1>4. /\ stack[t] # <<>> /\ f.op = "publish" /\ f \in Frames /\ ev \in EventSet
      /\ Below(t) \in Seq(Frames) /\ Moved(t, c)
      /\ Elems(rest) = (IF Done(l) THEN {} ELSE {l}) \cup Elems(Below(t))
      /\ Elems(c) = (IF Done(d) THEN {} ELSE {d}) \cup Elems(rest)
      /\ UNCHANGED <<table, up, gen, told, tainted>>
  BY <1>0, <1>2, <1>3, BeginMoves, Zenon DEF Moved
<1>5. excused' = IF /\ f.who # NoOne /\ ev.pfx \notin f.late
                    /\ told[f.who][ev.pfx] # NoRoute \/ ev.src # f.who
                 THEN excused \cup {<<f.who, ev.pfx>>} ELSE excused
  BY <1>2, Zenon DEF Begin
<1>6. /\ f.who \in Peers \cup {NoOne} /\ f.late \in SUBSET Prefixes
      /\ Elems(f.evs) = {ev} \cup Elems(Tail(f.evs))
  <2>1. f \in FrameSet /\ "publish" \in {"publish", "dumping"}
    BY <1>4 DEF Frames
  <2>. QED
    BY <1>2, <1>4, <2>1, FrameTyped, RestParts, Zenon
<1>7. IsLess(l, f)
  <2>1. f.op \in {"publish", "dumping"}
    BY <1>4
  <2>. QED
    BY <1>2, <1>4, <2>1, LessTells, Zenon
<1>8. IsDeliver(d, f.who, ev, f.late)
  BY <1>3, <1>4, <1>6, DeliverParts, Zenon
<1>9. \A e : e \in Elems(d.evs) <=> e = ev
  BY <1>4, <1>8, OneEvent, Zenon DEF IsDeliver
<1>10. Elems(stack[t]) = {f} \cup Elems(Below(t)) /\ Top(t).op # "send"
  <2>1. "publish" # "send"
    OBVIOUS
  <2>. QED
    BY <1>0, <1>2, <1>4, <2>1, TopBelow, Zenon
<1>11. ASSUME t \notin tainted PROVE Timely(l, table) /\ Timely(d, table)
  <2>1. Timely(f, table)
    BY <1>0, <1>10, <1>11, Zenon DEF Undisturbed
  <2>2. Timely(l, table)
    BY <1>7, <2>1, Zenon DEF IsLess
  <2>3. ev.pfx \notin f.late => Message(ev) = Best(table, ev.pfx)
    BY <1>6, <2>1, Zenon DEF Timely
  <2>4. d.late = f.late
    BY <1>8, Zenon DEF IsDeliver
  <2>5. Timely(d, table)
    <3>1. ASSUME NEW e \in Elems(d.evs), e.pfx \notin d.late
          PROVE  Message(e) = Best(table, e.pfx)
      <4>1. e = ev
        BY <1>9, Zenon
      <4>2. ev.pfx \notin f.late
        BY <2>4, <3>1, <4>1
      <4>. QED
        BY <2>3, <4>1, <4>2
    <3>. QED
      BY <3>1, Zenon DEF Timely
  <2>. QED
    BY <2>2, <2>5, Zenon
<1>12. l.op \notin DumpOps /\ d.op \notin DumpOps
  <2>1. "publish" \notin DumpOps /\ "deliver" \notin DumpOps
    BY DEF DumpOps
  <2>. QED
    BY <1>4, <1>7, <1>8, <2>1, Zenon DEF IsLess, IsDeliver
<1>13. ASSUME NEW p \in Peers, NEW x \in Prefixes, Covers(f, p, x, Best(table, x), gen[p])
       PROVE  Knows(p, x)'
  <2>1. CASE ~Done(l) /\ Covers(l, p, x, Best(table, x), gen[p])
    <3>1. l \in Elems(c) /\ Covers(l, p, x, Best(table', x), gen'[p])
      BY <1>4, <2>1, Zenon
    <3>2. Pending(p, x)'
      BY <1>4, <3>1, Gains, Zenon
    <3>. QED
      BY <3>2, Zenon DEF Knows
  <2>2. CASE ev.pfx = x /\ Message(ev) = Best(table, x) /\ x \notin f.late
    <3>1. CASE p # f.who
      <4>1. p \in Elems(d.todo) /\ ~Done(d) /\ d.op = "deliver" /\ d.late = f.late
        BY <1>8, <3>1, Zenon DEF IsDeliver
      <4>2. Tells(d, x, Best(table', x))
        BY <1>4, <1>9, <2>2, <4>1, Zenon DEF Tells
      <4>3. d \in Elems(c) /\ Covers(d, p, x, Best(table', x), gen'[p])
        <5>1. d \in Elems(c)
          BY <1>4, <4>1, Zenon
        <5>2. Covers(d, p, x, Best(table', x), gen'[p])
          BY <4>1, <4>2, Zenon DEF Covers
        <5>. QED
          BY <5>1, <5>2, Zenon
      <4>4. Pending(p, x)'
        BY <1>4, <4>3, Gains, Zenon
      <4>. QED
        BY <4>4, Zenon DEF Knows
    <3>2. CASE p = f.who
      <4>1. f.who # NoOne
        BY <3>2, NamesAssumption, Zenon
      <4>2. CASE told[p][x] # NoRoute \/ ev.src # p
        BY <1>5, <2>2, <3>2, <4>1, <4>2, Zenon DEF Knows
      <4>3. CASE told[p][x] = NoRoute /\ ev.src = p
        <5>1. Want(p, Best(table, x)) = NoRoute
          BY <1>4, <2>2, <4>3, EventMeans, Zenon
        <5>. QED
          BY <1>4, <4>3, <5>1, Zenon DEF Knows, Informed
      <4>. QED
        BY <4>2, <4>3, Zenon
    <3>. QED
      BY <3>1, <3>2, Zenon
  <2>. QED
    BY <1>2, <1>7, <1>13, <2>1, <2>2, Zenon DEF IsLess
<1>14. excused \subseteq excused'
  BY <1>5, Zenon
<1>15. Elems(Below(t)) \subseteq Elems(c) /\ \A fr \in Elems(c) : fr \notin Elems(Below(t)) =>
         /\ t \notin tainted => Timely(fr, table)
         /\ fr.op \in DumpOps => InDump(t, fr)'
  BY <1>4, <1>11, <1>12, Zenon
<1>. QED
  BY <1>1, <1>2, <1>4, <1>10, <1>13, <1>14, <1>15, Onward, Zenon

\* A publication that ends excuses those that were to be told.
LEMMA AbandonTells ==
    ASSUME TellInv, NEW t \in Peers, Abandon(t)
    PROVE  TellInv'
<1>0. /\ AInv /\ stack \in Stacks
  BY Zenon DEF TellInv, Typed, AInv
<1>1. AInv'
  BY <1>0, StepInv, Zenon DEF Next
<1>2. PICK f : f = Top(t)
  BY Zenon
<1>3a. /\ stack[t] # <<>> /\ Top(t).op = "publish" /\ Top(t) \in Frames
       /\ Moved(t, Below(t))
       /\ excused' = excused \cup
             ({p \in Peers : up[p]} \X ({Top(t).evs[i].pfx : i \in 1..Len(Top(t).evs)} \ Top(t).late))
       /\ UNCHANGED <<table, up, gen, told, tainted>>
  BY <1>0, AbandonMoves, Zenon
<1>3. /\ stack[t] # <<>> /\ f.op = "publish" /\ f \in Frames
      /\ Moved(t, Below(t))
      /\ excused' = excused \cup
            ({p \in Peers : up[p]} \X ({f.evs[i].pfx : i \in 1..Len(f.evs)} \ f.late))
      /\ UNCHANGED <<table, up, gen, told, tainted>>
  BY <1>2, <1>3a
<1>4. "publish" # "send" /\ "publish" # "deliver" /\ "publish" # "dump" /\ "publish" # "dumping"
  OBVIOUS
<1>5. ASSUME NEW p \in Peers, NEW x \in Prefixes, Covers(f, p, x, Best(table, x), gen[p])
      PROVE  Knows(p, x)'
  <2>1. Tells(f, x, Best(table, x))
    BY <1>3, <1>4, <1>5, Zenon DEF Covers
  <2>2. x \in {f.evs[i].pfx : i \in 1..Len(f.evs)} \ f.late
    BY <2>1, Zenon DEF Tells, Elems
  <2>3. up[p] => <<p, x>> \in excused'
    BY <1>3, <2>2, Zenon
  <2>. QED
    BY <1>3, <2>3, Zenon DEF Knows
<1>6. excused \subseteq excused' /\ Top(t).op # "send"
  BY <1>2, <1>3, <1>4, Zenon
<1>7. Elems(Below(t)) \subseteq Elems(Below(t))
  OBVIOUS
<1>. QED
  BY <1>1, <1>2, <1>3, <1>5, <1>6, <1>7, Onward, Zenon

\* What is left of the call that hands an event to the FSMs, after the first.
IsLessFsm(l, f) ==
    /\ l.op = "deliver" /\ l.evs = f.evs /\ l.late = f.late /\ l.todo = Tail(f.todo)
    /\ Done(l) <=> Tail(f.todo) = <<>>

\* Its parts (LessFsm).
LEMMA LessFsmParts ==
    ASSUME NEW f \in Frames, f.op = "deliver"
    PROVE  IsLessFsm(LessFsm(f), f)
<1>1. PICK l : l = LessFsm(f)
  BY Zenon
<1>2. f \in FrameSet
  BY Zenon DEF Frames
<1>3. l.op = "deliver" /\ l.evs = f.evs /\ l.late = f.late /\ l.todo = Tail(f.todo)
  BY <1>1, <1>2 DEF LessFsm, FrameSet
<1>4. Done(l) <=> Tail(f.todo) = <<>>
  BY <1>3 DEF Done
<1>. QED
  BY <1>1, <1>3, <1>4, Zenon DEF IsLessFsm

\* An FSM gets an event: it sends a message, or the peer is not to know the route
\* and does not, or it is excused.
LEMMA CallbackTells ==
    ASSUME TellInv, NEW t \in Peers, Callback(t)
    PROVE  TellInv'
<1>0. /\ AInv /\ stack \in Stacks /\ Undisturbed /\ gen \in [Peers -> Nat]
  BY Zenon DEF TellInv, Typed, AInv
<1>1. AInv'
  BY <1>0, StepInv, Zenon DEF Next
<1>2. PICK f, l, d, ev, rest : /\ f = Top(t) /\ l = LessFsm(f) /\ d = Head(f.todo)
                               /\ ev = Head(f.evs) /\ rest = On(l, Below(t))
  BY Zenon
<1>3. /\ stack[t] # <<>> /\ f.op = "deliver" /\ f \in Frames /\ ev \in EventSet /\ d \in Peers
      /\ Below(t) \in Seq(Frames)
      /\ Elems(rest) = (IF Done(l) THEN {} ELSE {l}) \cup Elems(Below(t))
      /\ \/ ~Passes(d, ev) /\ Moved(t, rest)
         \/ Passes(d, ev) /\ Sends(t, d, gen[d], ev, f.late, rest)
      /\ excused' = IF ~Passes(d, ev) /\ told[d][ev.pfx] # NoRoute /\ ev.pfx \notin f.late
                    THEN excused \cup {<<d, ev.pfx>>} ELSE excused
      /\ UNCHANGED <<table, up, gen, told, tainted>>
  BY <1>0, <1>2, CallbackMoves, Zenon
<1>4. /\ f.late \in SUBSET Prefixes /\ gen[d] \in Nat
      /\ Elems(f.todo) = {d} \cup Elems(Tail(f.todo))
      /\ \A e : e \in Elems(f.evs) <=> e = ev
  <2>1. f \in FrameSet /\ Sound(f) /\ "deliver" \in {"send", "deliver"}
    BY <1>3 DEF Frames
  <2>. QED
    BY <1>0, <1>2, <1>3, <2>1, FrameTyped, RestParts, Zenon DEF Sound
<1>5. /\ l.op = "deliver" /\ l.evs = f.evs /\ l.late = f.late /\ l.todo = Tail(f.todo)
      /\ Done(l) <=> Tail(f.todo) = <<>>
  BY <1>2, <1>3, LessFsmParts, Zenon DEF IsLessFsm
<1>6. Elems(stack[t]) = {f} \cup Elems(Below(t)) /\ Top(t).op # "send"
  <2>1. "deliver" # "send"
    OBVIOUS
  <2>. QED
    BY <1>0, <1>2, <1>3, <2>1, TopBelow, Zenon
<1>7. ASSUME t \notin tainted
      PROVE  Timely(l, table) /\ (ev.pfx \notin f.late => Message(ev) = Best(table, ev.pfx))
  <2>1. Timely(f, table)
    BY <1>0, <1>6, <1>7, Zenon DEF Undisturbed
  <2>. QED
    BY <1>4, <1>5, <2>1, Zenon DEF Timely
<1>8. l.op \notin DumpOps /\ "send" \notin DumpOps
  <2>1. "deliver" \notin DumpOps /\ "send" \notin DumpOps
    BY DEF DumpOps
  <2>. QED
    BY <1>5, <2>1, Zenon
<1>9. ASSUME NEW p \in Peers, NEW x \in Prefixes, Covers(f, p, x, Best(table, x), gen[p])
      PROVE  /\ ev.pfx = x /\ Message(ev) = Best(table, x) /\ x \notin f.late
             /\ \/ p = d
                \/ ~Done(l) /\ Covers(l, p, x, Best(table', x), gen'[p])
  <2>1. "deliver" # "publish" /\ "deliver" \notin {"send", "dumping"} /\ "deliver" # "dump"
    OBVIOUS
  <2>2. Tells(f, x, Best(table, x)) /\ p \in Elems(f.todo)
    BY <1>3, <1>9, <2>1, Zenon DEF Covers
  <2>3. x \notin f.late
    BY <2>2, Zenon DEF Tells
  <2>4. PICK e \in Elems(f.evs) : e.pfx = x /\ Message(e) = Best(table, x)
    BY <2>2, Zenon DEF Tells
  <2>5. e = ev
    BY <1>4, <2>4, Zenon
  <2>6. ev.pfx = x /\ Message(ev) = Best(table, x)
    BY <2>4, <2>5
  <2>7. ASSUME p # d PROVE ~Done(l) /\ Covers(l, p, x, Best(table', x), gen'[p])
    <3>1. p \in Elems(l.todo) /\ l.todo # <<>>
      BY <1>4, <1>5, <2>2, <2>7, NoElems, Zenon
    <3>2. Tells(l, x, Best(table', x))
      BY <1>3, <1>5, <2>2, Zenon DEF Tells
    <3>. QED
      BY <1>5, <3>1, <3>2, Zenon DEF Covers
  <2>. QED
    BY <2>3, <2>6, <2>7, Zenon
<1>10. excused \subseteq excused'
  BY <1>3, Zenon
<1>11. CASE ~Passes(d, ev) /\ Moved(t, rest)
  <2>1. ASSUME NEW p \in Peers, NEW x \in Prefixes, Covers(f, p, x, Best(table, x), gen[p])
        PROVE  Knows(p, x)'
    <3>1. CASE ~Done(l) /\ Covers(l, p, x, Best(table', x), gen'[p])
      <4>1. l \in Elems(rest)
        BY <1>3, <3>1, Zenon
      <4>2. Pending(p, x)'
        BY <1>11, <3>1, <4>1, Gains, Zenon
      <4>. QED
        BY <4>2, Zenon DEF Knows
    <3>2. CASE p = d
      <4>1. ev.pfx = x /\ Message(ev) = Best(table, x) /\ x \notin f.late
        BY <1>9, <2>1, Zenon
      <4>2. CASE told[p][x] # NoRoute
        <5>1. <<p, x>> \in excused'
          BY <1>3, <1>11, <3>2, <4>1, <4>2, Zenon
        <5>. QED
          BY <5>1, Zenon DEF Knows
      <4>3. CASE told[p][x] = NoRoute /\ up[p]
        <5>1. ev.src = p \/ ev.route \in Denied[p]
          BY <1>11, <3>2, <4>3, Zenon DEF Passes
        <5>2. Want(p, Best(table, x)) = NoRoute
          BY <1>3, <4>1, <5>1, EventMeans, Zenon
        <5>. QED
          BY <1>3, <4>3, <5>2, Zenon DEF Knows, Informed
      <4>4. CASE ~up[p]
        BY <1>3, <4>4, Zenon DEF Knows
      <4>. QED
        BY <4>2, <4>3, <4>4, Zenon
    <3>. QED
      BY <1>9, <2>1, <3>1, <3>2, Zenon
  <2>2. Elems(Below(t)) \subseteq Elems(rest) /\ \A fr \in Elems(rest) : fr \notin Elems(Below(t)) =>
           /\ t \notin tainted => Timely(fr, table)
           /\ fr.op \in DumpOps => InDump(t, fr)'
    BY <1>3, <1>7, <1>8, Zenon
  <2>. QED
    BY <1>1, <1>2, <1>3, <1>6, <1>10, <1>11, <2>1, <2>2, Onward, Zenon
<1>12. CASE Passes(d, ev) /\ Sends(t, d, gen[d], ev, f.late, rest)
  <2>1. PICK s, c : s = Sending(d, gen[d], ev, f.late) /\ c = <<s>> \o rest
    BY Zenon
  <2>2. Permitted(d, ev) /\ Moved(t, c) /\ Elems(c) = {s} \cup Elems(rest)
    BY <1>12, <2>1, Zenon DEF Sends, Moved
  <2>3. /\ s.op = "send"
        /\ (ev.pfx \notin f.late => Message(ev) = Best(table, ev.pfx)) => Timely(s, table)
        /\ \A x, b : ev.pfx = x /\ Message(ev) = b /\ x \notin f.late => Covers(s, d, x, b, gen[d])
    <3>1. IsMessage(s, d, gen[d], ev, f.late)
      BY <1>3, <1>4, <2>1, <2>2, MessageTells, Zenon
    <3>. QED
      BY <3>1, Zenon DEF IsMessage
  <2>4. ASSUME NEW p \in Peers, NEW x \in Prefixes, Covers(f, p, x, Best(table, x), gen[p])
        PROVE  Knows(p, x)'
    <3>1. \E g \in Elems(c) : Covers(g, p, x, Best(table', x), gen'[p])
      <4>1. CASE p = d
        <5>1. Covers(s, p, x, Best(table, x), gen[p])
          BY <1>9, <2>3, <2>4, <4>1, Zenon
        <5>. QED
          BY <1>3, <2>2, <5>1, Zenon
      <4>2. CASE p # d
        BY <1>3, <1>9, <2>2, <2>4, <4>2, Zenon
      <4>. QED
        BY <4>1, <4>2, Zenon
    <3>2. Pending(p, x)'
      BY <2>2, <3>1, Gains, Zenon
    <3>. QED
      BY <3>2, Zenon DEF Knows
  <2>5. Elems(Below(t)) \subseteq Elems(c) /\ \A fr \in Elems(c) : fr \notin Elems(Below(t)) =>
           /\ t \notin tainted => Timely(fr, table)
           /\ fr.op \in DumpOps => InDump(t, fr)'
    BY <1>3, <1>7, <1>8, <2>2, <2>3, Zenon
  <2>. QED
    BY <1>1, <1>2, <1>3, <1>6, <1>10, <2>2, <2>4, <2>5, Onward, Zenon
<1>. QED
  BY <1>3, <1>11, <1>12, Zenon

\* A message reaches the peer, which then knows the best route or is excused; or
\* it is lost, with the session it was for.
LEMMA SendTells ==
    ASSUME TellInv, NEW t \in Peers, Send(t)
    PROVE  TellInv'
<1>0. /\ AInv /\ stack \in Stacks /\ Typed /\ Alone /\ Forgotten /\ Dumps /\ Undisturbed /\ PendInv
  BY Zenon DEF TellInv, Typed, AInv
<1>1. AInv'
  BY <1>0, StepInv, Zenon DEF Next
<1>2. PICK f, d, ev : f = Top(t) /\ d = f.who /\ ev = Head(f.evs)
  BY Zenon
<1>3. /\ stack[t] # <<>> /\ f.op = "send" /\ f \in Frames /\ d \in Peers
      /\ ev \in EventSet /\ ev \in Elems(f.evs) /\ Permitted(d, ev) /\ Below(t) \in Seq(Frames)
      /\ \/ up[d] /\ Moved(t, Below(t)) /\ Tell(t, d, ev, f.late) /\ UNCHANGED <<up, gen>>
         \/ ~Current(d, f.gen) /\ Moved(t, Below(t)) /\ UNCHANGED <<up, gen, told, excused>>
         \/ /\ Current(d, f.gen) /\ TearDown(d) /\ Moved(t, <<Discard(d)>> \o Below(t))
            /\ Elems(stack'[t]) = {Discard(d)} \cup Elems(Below(t))
      /\ UNCHANGED <<table, tainted>>
  BY <1>0, <1>2, MessageMoves, Zenon
<1>4. /\ Elems(stack[t]) = {f} \cup Elems(Below(t)) /\ stack[t] \in Seq(Frames)
      /\ \A e : e \in Elems(f.evs) <=> e = ev
  <2>1. Sound(f) /\ "send" \in {"send", "deliver"}
    BY <1>3 DEF Frames
  <2>. QED
    BY <1>0, <1>2, <1>3, <2>1, TopBelow, Zenon DEF Stacks, Sound
<1>5. ASSUME NEW p \in Peers, NEW x \in Prefixes, Covers(f, p, x, Best(table, x), gen[p])
      PROVE  p = d /\ x = ev.pfx /\ f.gen = gen[p]
  <2>1. "send" # "publish" /\ "send" # "deliver" /\ "send" # "dump"
    OBVIOUS
  <2>2. f.who = p /\ f.gen = gen[p] /\ Tells(f, x, Best(table, x))
    BY <1>3, <1>5, <2>1, Zenon DEF Covers
  <2>. QED
    BY <1>2, <1>4, <2>2, Zenon DEF Tells
<1>6. ASSUME NEW fr \in Elems(Below(t)), fr.op \in DumpOps
      PROVE  /\ fr.who = t
             /\ Current(t, fr.gen) => /\ Below(t) = <<fr>> /\ d = t /\ Untold(t, fr)
                                      /\ ev.pfx \notin About(fr) /\ About(fr) \subseteq Prefixes
  <2>1. InDump(t, fr)
    BY <1>0, <1>4, <1>6, Zenon DEF Dumps
  <2>2. fr \in Frames
    BY <1>3, ElemsIn, Zenon
  <2>3. ASSUME Current(t, fr.gen)
        PROVE  /\ Below(t) = <<fr>> /\ d = t /\ Untold(t, fr)
               /\ ev.pfx \notin About(fr) /\ About(fr) \subseteq Prefixes
    <3>1. Shape(t, stack[t], fr) /\ Untold(t, fr)
      BY <2>1, <2>3, Zenon DEF InDump
    <3>2. f # fr
      <4>1. "send" \notin DumpOps
        BY DEF DumpOps
      <4>. QED
        BY <1>3, <1>6, <4>1, Zenon
    <3>3. /\ Tail(stack[t]) = <<fr>> /\ fr.op = "dumping"
          /\ Head(stack[t]).who = t /\ Head(Head(stack[t]).evs).pfx \notin About(fr)
      <4>1. \/ Head(stack[t]) = fr /\ Tail(stack[t]) = <<>>
            \/ /\ Tail(stack[t]) = <<fr>> /\ fr.op = "dumping" /\ Head(stack[t]).op = "send"
               /\ Head(stack[t]).who = t /\ Head(Head(stack[t]).evs).pfx \notin About(fr)
        BY <1>4, <2>2, <3>1, OnDump, Zenon
      <4>2. Head(stack[t]) # fr
        BY <1>2, <3>2, Zenon DEF Top
      <4>. QED
        BY <4>1, <4>2, Zenon
    <3>4. Below(t) = <<fr>> /\ d = t /\ ev.pfx \notin About(fr)
      BY <1>2, <3>3, Zenon DEF Top, Below
    <3>5. About(fr) \subseteq Prefixes
      <4>1. fr \in FrameSet /\ "dumping" # "dump"
        BY <2>2 DEF Frames
      <4>2. fr.evs \in Seq(EventSet)
        BY <4>1, FrameTyped, Zenon
      <4>. QED
        BY <3>3, <4>1, <4>2, ElemsIn, Zenon DEF About
    <3>. QED
      BY <3>1, <3>4, <3>5, Zenon
  <2>. QED
    BY <2>1, <2>3, Zenon DEF InDump
<1>7. ASSUME NEW fr \in Elems(Below(t)), t \notin tainted PROVE Timely(fr, table')
  BY <1>0, <1>3, <1>4, <1>7, Zenon DEF Undisturbed
<1>8. CASE up[d] /\ Moved(t, Below(t)) /\ Tell(t, d, ev, f.late) /\ UNCHANGED <<up, gen>>
  <2>1. /\ ev.pfx \in Prefixes /\ told'[d][ev.pfx] = Message(ev)
        /\ \A p \in Peers, x \in Prefixes : <<p, x>> # <<d, ev.pfx>> => told'[p][x] = told[p][x]
    <3>1. AInv /\ d \in Peers /\ ev \in EventSet /\ Permitted(d, ev) /\ Tell(t, d, ev, f.late)
      BY <1>0, <1>3, <1>8, Zenon
    <3>2. ToldOnly(d, ev.pfx, Message(ev))
      BY <3>1, TellKeeps, Zenon
    <3>. QED
      BY <3>2, Zenon DEF ToldOnly
  <2>2. excused' = IF t \in tainted \/ ev.pfx \in f.late THEN excused \cup {<<d, ev.pfx>>}
                   ELSE excused \ {<<d, ev.pfx>>}
    BY <1>8, Zenon DEF Tell
  <2>3. \A p \in Peers, x \in Prefixes : <<p, x>> # <<d, ev.pfx>> /\ <<p, x>> \in excused =>
           <<p, x>> \in excused'
    BY <2>2, Zenon
  <2>4. Alone'
    BY <1>0, <1>3, <1>8, AloneKept, Zenon
  <2>5. Undisturbed'
    BY <1>0, <1>3, <1>7, <1>8, UndisturbedKept, Zenon
  <2>6. Forgotten'
    <3>1. ASSUME NEW p \in Peers, NEW x \in Prefixes, ~up'[p] PROVE told'[p][x] = NoRoute
      <4>1. p # d /\ ~up[p]
        BY <1>8, <3>1, Zenon
      <4>2. <<p, x>> # <<d, ev.pfx>>
        BY <4>1, Zenon
      <4>. QED
        BY <1>0, <2>1, <4>1, <4>2, Zenon DEF Forgotten
    <3>. QED
      BY <3>1, Zenon DEF Forgotten
  <2>7. Dumps'
    <3>1. ASSUME NEW v \in Peers, v # t, stack[v] # <<>>, NEW x \in Prefixes PROVE Leaves(v, x)
      <4>1. t \in tainted
        BY <1>0, <1>3, <3>1, Zenon DEF Alone
      <4>2. excused' = excused \cup {<<d, ev.pfx>>}
        BY <2>2, <4>1, Zenon
      <4>3. CASE <<v, x>> = <<d, ev.pfx>>
        BY <4>2, <4>3, Zenon DEF Leaves
      <4>4. CASE <<v, x>> # <<d, ev.pfx>>
        BY <2>1, <2>3, <4>4, Zenon DEF Leaves
      <4>. QED
        BY <4>3, <4>4, Zenon
    <3>2. ASSUME NEW fr \in Elems(Below(t)), fr.op \in DumpOps PROVE InDump(t, fr)'
      <4>1. CASE ~Current(t, fr.gen)
        BY <1>6, <1>8, <3>2, <4>1, EndedStays, Zenon
      <4>2. CASE Current(t, fr.gen)
        <5>1. /\ fr.who = t /\ Below(t) = <<fr>> /\ d = t /\ Untold(t, fr)
              /\ ev.pfx \notin About(fr) /\ About(fr) \subseteq Prefixes
          BY <1>6, <3>2, <4>2, Zenon
        <5>2. Shape(t, stack'[t], fr)
          BY <1>8, <5>1, Zenon DEF Shape, Moved
        <5>3. ASSUME NEW x \in About(fr) PROVE told'[t][x] = NoRoute \/ <<t, x>> \in excused'
          <6>1. x \in Prefixes /\ <<t, x>> # <<d, ev.pfx>>
            BY <5>1, <5>3, Zenon
          <6>2. told[t][x] = NoRoute \/ <<t, x>> \in excused
            BY <5>1, <5>3, Zenon DEF Untold
          <6>. QED
            BY <2>1, <2>3, <6>1, <6>2, Zenon
        <5>4. Untold(t, fr)'
          BY <5>3, Zenon DEF Untold
        <5>. QED
          BY <5>1, <5>2, <5>4, Zenon DEF InDump
      <4>. QED
        BY <4>1, <4>2, Zenon
    <3>3. \A v \in Peers : v # t /\ stack[v] # <<>> =>
             SessionKept(v) /\ \A x \in Prefixes : up'[v] => Leaves(v, x)
      BY <1>8, <3>1, Zenon DEF SessionKept
    <3>. QED
      BY <1>0, <1>8, <3>2, <3>3, DumpsKept, Zenon
  <2>8. ASSUME NEW p \in Peers, NEW x \in Prefixes PROVE Knows(p, x)'
    <3>1. CASE <<p, x>> # <<d, ev.pfx>>
      <4>1. /\ Knows(p, x) /\ (up'[p] => up[p]) /\ gen'[p] = gen[p] /\ told'[p][x] = told[p][x]
            /\ (<<p, x>> \in excused => <<p, x>> \in excused') /\ Best(table', x) = Best(table, x)
        BY <1>0, <1>3, <1>8, <2>1, <2>3, <3>1, Zenon DEF PendInv
      <4>2. ~Covers(Top(t), p, x, Best(table, x), gen[p])
        BY <1>2, <1>5, <3>1, Zenon
      <4>3. \A fr \in Elems(Below(t)) : Covers(fr, p, x, Best(table, x), gen[p]) =>
               \E g \in Elems(Below(t)) : Covers(g, p, x, Best(table, x), gen[p])
        BY Zenon
      <4>. QED
        BY <1>0, <1>3, <1>8, <4>1, <4>2, <4>3, KnowsOn, Zenon
    <3>2. CASE p = d /\ x = ev.pfx
      <4>1. CASE t \in tainted \/ ev.pfx \in f.late
        BY <2>2, <3>2, <4>1, Zenon DEF Knows
      <4>2. CASE t \notin tainted /\ ev.pfx \notin f.late
        <5>1. Message(ev) = Best(table, ev.pfx)
          BY <1>0, <1>3, <1>4, <4>2, Zenon DEF Undisturbed, Timely
        <5>2. Want(d, Message(ev)) = Message(ev)
          BY <1>3, EventMeans, Zenon
        <5>3. told'[p][x] = Want(p, Best(table', x))
          BY <1>3, <2>1, <3>2, <5>1, <5>2
        <5>. QED
          BY <5>3, Zenon DEF Knows, Informed
      <4>. QED
        BY <4>1, <4>2, Zenon
    <3>. QED
      BY <3>1, <3>2, Zenon
  <2>9. PendInv'
    BY <2>8, Zenon DEF PendInv
  <2>10. up' \in [Peers -> BOOLEAN] /\ tainted' \subseteq Peers
    BY <1>0, <1>3, <1>8, Zenon DEF Typed
  <2>. QED
    BY <1>1, <2>4, <2>5, <2>6, <2>7, <2>9, <2>10, Zenon DEF TellInv, Typed
<1>9. CASE ~Current(d, f.gen) /\ Moved(t, Below(t)) /\ UNCHANGED <<up, gen, told, excused>>
  <2>1. Alone'
    BY <1>0, <1>3, <1>9, AloneKept, Zenon
  <2>2. Undisturbed'
    BY <1>0, <1>3, <1>7, <1>9, UndisturbedKept, Zenon
  <2>3. Forgotten'
    BY <1>0, <1>9, Zenon DEF Forgotten
  <2>4. Dumps'
    <3>1. ASSUME NEW fr \in Elems(Below(t)), fr.op \in DumpOps PROVE InDump(t, fr)'
      <4>1. CASE ~Current(t, fr.gen)
        BY <1>6, <1>9, <3>1, <4>1, EndedStays, Zenon
      <4>2. CASE Current(t, fr.gen)
        <5>1. fr.who = t /\ Below(t) = <<fr>> /\ Untold(t, fr)
          BY <1>6, <3>1, <4>2, Zenon
        <5>2. Shape(t, stack'[t], fr)
          BY <1>9, <5>1, Zenon DEF Shape, Moved
        <5>3. Untold(t, fr)'
          BY <1>9, <5>1, Zenon DEF Untold
        <5>. QED
          BY <5>1, <5>2, <5>3, Zenon DEF InDump
      <4>. QED
        BY <4>1, <4>2, Zenon
    <3>2. \A v \in Peers : v # t /\ stack[v] # <<>> =>
             SessionKept(v) /\ \A x \in Prefixes : up'[v] => Leaves(v, x)
      BY <1>9, Zenon DEF SessionKept, Leaves
    <3>. QED
      BY <1>0, <1>9, <3>1, <3>2, DumpsKept, Zenon
  <2>5. ASSUME NEW p \in Peers, NEW x \in Prefixes PROVE Knows(p, x)'
    <3>1. /\ Knows(p, x) /\ (up'[p] => up[p]) /\ gen'[p] = gen[p] /\ told'[p][x] = told[p][x]
          /\ (<<p, x>> \in excused => <<p, x>> \in excused') /\ Best(table', x) = Best(table, x)
      BY <1>0, <1>3, <1>9, Zenon DEF PendInv
    <3>2. ASSUME Covers(Top(t), p, x, Best(table, x), gen[p]) PROVE Knows(p, x)'
      <4>1. p = d /\ f.gen = gen[p]
        BY <1>2, <1>5, <3>2, Zenon
      <4>2. ~up'[p]
        BY <1>9, <4>1, Zenon DEF Current
      <4>. QED
        BY <4>2, Zenon DEF Knows
    <3>3. \A fr \in Elems(Below(t)) : Covers(fr, p, x, Best(table, x), gen[p]) =>
             \E g \in Elems(Below(t)) : Covers(g, p, x, Best(table, x), gen[p])
      BY Zenon
    <3>. QED
      BY <1>0, <1>3, <1>9, <3>1, <3>2, <3>3, KnowsOn, Zenon
  <2>6. PendInv'
    BY <2>5, Zenon DEF PendInv
  <2>7. up' \in [Peers -> BOOLEAN] /\ tainted' \subseteq Peers
    BY <1>0, <1>3, <1>9, Zenon DEF Typed
  <2>. QED
    BY <1>1, <2>1, <2>2, <2>3, <2>4, <2>6, <2>7, Zenon DEF TellInv, Typed
<1>10. CASE /\ Current(d, f.gen) /\ TearDown(d) /\ Moved(t, <<Discard(d)>> \o Below(t))
            /\ Elems(stack'[t]) = {Discard(d)} \cup Elems(Below(t))
  <2>1. PICK g, c : g = Discard(d) /\ c = <<g>> \o Below(t)
    BY Zenon
  <2>2. Moved(t, c) /\ Elems(c) = {g} \cup Elems(Below(t)) /\ TearDown(d)
    BY <1>10, <2>1, Zenon DEF Moved
  <2>3. g.op = "discard" /\ g.evs = <<>>
    BY <1>3, <2>1, DiscardParts, Zenon
  <2>4. /\ up' \in [Peers -> BOOLEAN] /\ ~up'[d] /\ Forgotten'
        /\ \A p \in Peers, x \in Prefixes : p # d =>
              /\ up'[p] = up[p] /\ gen'[p] = gen[p] /\ told'[p][x] = told[p][x]
              /\ <<p, x>> \in excused' <=> <<p, x>> \in excused
    BY <1>0, <1>3, <2>2, TearDownOthers, Zenon
  <2>5. ASSUME NEW v \in Peers, v # d PROVE up'[v] = up[v] /\ gen'[v] = gen[v]
    <3>1. up' = [up EXCEPT ![d] = FALSE] /\ up \in [Peers -> BOOLEAN]
      BY <1>0, <2>2, Zenon DEF TearDown, Typed
    <3>. QED
      BY <1>0, <1>3, <2>2, <2>5, <3>1, TearDownKeeps, Zenon
  <2>6. Alone'
    BY <1>0, <1>3, <2>2, AloneKept, Zenon
  <2>7. Undisturbed'
    <3>1. Timely(g, table')
      BY <2>3, NoElems, Zenon DEF Timely
    <3>2. t \notin tainted => \A fr \in Elems(c) : Timely(fr, table')
      BY <1>7, <2>2, <3>1, Zenon
    <3>. QED
      BY <1>0, <1>3, <2>2, <3>2, UndisturbedKept, Zenon
  <2>8. Dumps'
    <3>1. ASSUME NEW fr \in Elems(Below(t)), fr.op \in DumpOps PROVE InDump(t, fr)'
      <4>1. fr.who = t /\ (Current(t, fr.gen) => d = t)
        BY <1>6, <3>1, Zenon
      <4>2. ~Current(t, fr.gen)'
        BY <2>4, <2>5, <4>1, Zenon DEF Current
      <4>. QED
        BY <4>1, <4>2, Zenon DEF InDump
    <3>2. "discard" \notin DumpOps
      BY DEF DumpOps
    <3>3. \A fr \in Elems(c) : fr.op \in DumpOps => InDump(t, fr)'
      BY <2>2, <2>3, <3>1, <3>2, Zenon
    <3>4. ASSUME NEW v \in Peers PROVE SessionKept(v) /\ \A x \in Prefixes : up'[v] => Leaves(v, x)
      <4>1. CASE v = d
        BY <2>4, <4>1, Zenon DEF SessionKept
      <4>2. CASE v # d
        BY <2>4, <2>5, <4>2, Zenon DEF SessionKept, Leaves
      <4>. QED
        BY <4>1, <4>2, Zenon
    <3>. QED
      BY <1>0, <2>2, <3>3, <3>4, DumpsKept, Zenon
  <2>9. ASSUME NEW p \in Peers, NEW x \in Prefixes PROVE Knows(p, x)'
    <3>1. CASE p = d
      BY <2>4, <3>1, Zenon DEF Knows
    <3>2. CASE p # d
      <4>1. /\ Knows(p, x) /\ (up'[p] => up[p]) /\ gen'[p] = gen[p] /\ told'[p][x] = told[p][x]
            /\ (<<p, x>> \in excused => <<p, x>> \in excused') /\ Best(table', x) = Best(table, x)
        BY <1>0, <1>3, <2>4, <3>2, Zenon DEF PendInv
      <4>2. ~Covers(Top(t), p, x, Best(table, x), gen[p])
        BY <1>2, <1>5, <3>2, Zenon
      <4>3. \A fr \in Elems(Below(t)) : Covers(fr, p, x, Best(table, x), gen[p]) =>
               \E h \in Elems(c) : Covers(h, p, x, Best(table, x), gen[p])
        BY <2>2, Zenon
      <4>. QED
        BY <1>0, <1>3, <2>2, <4>1, <4>2, <4>3, KnowsOn, Zenon
    <3>. QED
      BY <3>1, <3>2, Zenon
  <2>10. PendInv'
    BY <2>9, Zenon DEF PendInv
  <2>11. tainted' \subseteq Peers
    BY <1>0, <1>3, Zenon DEF Typed
  <2>. QED
    BY <1>1, <2>4, <2>6, <2>7, <2>8, <2>10, <2>11, Zenon DEF TellInv, Typed
<1>. QED
  BY <1>3, <1>8, <1>9, <1>10, Zenon

-----------------------------------------------------------------------------
(* Every peer is told. *)

\* At the start every peer knows what it should know.
LEMMA InitTells == Init => TellInv
<1>. SUFFICES ASSUME Init PROVE TellInv
  OBVIOUS
<1>1. AInv
  BY InitInv, Zenon
<1>2. /\ up \in [Peers -> BOOLEAN] /\ tainted = {} /\ \A t \in Peers : stack[t] = <<>>
  BY Zenon DEF Init
<1>3. \A p \in Peers, x \in Prefixes : told[p][x] = IF up[p] THEN Wanted(p, x) ELSE NoRoute
  <2>1. told = [p \in Peers |-> [x \in Prefixes |-> IF up[p] THEN Wanted(p, x) ELSE NoRoute]]
    BY Zenon DEF Init
  <2>. QED
    BY <2>1, Zenon
<1>4. \A p \in Peers, x \in Prefixes : Wanted(p, x) = Want(p, Best(table, x))
  BY Zenon DEF Wanted, Want
<1>5. Typed
  BY <1>1, <1>2, Zenon DEF Typed
<1>6. Alone
  BY <1>2, Zenon DEF Alone
<1>7. Forgotten
  BY <1>3, Zenon DEF Forgotten
<1>8. Dumps /\ Undisturbed
  BY <1>2, NoElems, Zenon DEF Dumps, Undisturbed
<1>9. PendInv
  BY <1>3, <1>4, Zenon DEF PendInv, Knows, Informed
<1>. QED
  BY <1>5, <1>6, <1>7, <1>8, <1>9, Zenon DEF TellInv

\* Every step of every thread keeps the invariant.
LEMMA StepTells == TellInv /\ [Next]_vars => TellInv'
<1>. SUFFICES ASSUME TellInv, [Next]_vars PROVE TellInv'
  OBVIOUS
<1>1. CASE UNCHANGED vars
  <2>1. AInv'
    BY StepInv, Zenon DEF TellInv, Typed
  <2>2. UNCHANGED <<table, up, gen, stack, told, tainted, excused>>
    BY <1>1, Zenon DEF vars
  <2>3. Typed' /\ Alone' /\ Forgotten'
    BY <2>1, <2>2, Zenon DEF TellInv, Typed, Alone, Forgotten
  <2>4. Dumps'
    BY <2>2, Zenon DEF TellInv, Dumps, InDump, Current, Untold
  <2>5. Undisturbed'
    BY <2>2, Zenon DEF TellInv, Undisturbed
  <2>6. PendInv'
    BY <2>2, Zenon DEF TellInv, PendInv, Knows, Pending
  <2>. QED
    BY <2>3, <2>4, <2>5, <2>6, Zenon DEF TellInv
<1>2. CASE Next
  BY <1>2, EstablishTells, UpdateTells, DownTells, DiscardTells, SnapshotTells, AdvertiseTells,
     BeginTells, CallbackTells, AbandonTells, SendTells, Zenon DEF Next
<1>. QED
  BY <1>1, <1>2, Zenon

\* For any number of peers, prefixes, UPDATEs and sends that fail, of sessions that
\* come and go and of threads in the library: once all calls have returned, every
\* peer with a session knows exactly the best route to every prefix, or nothing
\* where it is not to know it, unless it is excused (fsm_publish_update_events,
\* fsm_discard_peer_routes_publish, fsm_route_event_cb, fsm_run_established_actions).
THEOREM PeersAlwaysTold == Spec => []PeersTold
<1>1. TellInv => PeersTold
  <2>. SUFFICES ASSUME TellInv, Quiet, NEW p \in Peers, NEW x \in Prefixes, up[p],
                       <<p, x>> \notin excused
                PROVE  \/ told[p][x] = Wanted(p, x)
                       \/ told[p][x] = NoRoute /\ p \in Ibgp /\ Best(table, x).src \in Ibgp
    BY Zenon DEF PeersTold
  <2>1. Knows(p, x)
    BY Zenon DEF TellInv, PendInv
  <2>2. ~Pending(p, x)
    BY NoElems, Zenon DEF Quiet, Pending
  <2>3. Informed(p, told[p][x], Best(table, x))
    BY <2>1, <2>2, Zenon DEF Knows
  <2>4. Wanted(p, x) = Want(p, Best(table, x))
    BY Zenon DEF Wanted, Want
  <2>. QED
    BY <2>3, <2>4, Zenon DEF Informed
<1>. QED
  BY <1>1, InitTells, StepTells, PTL DEF Spec
=============================================================================
