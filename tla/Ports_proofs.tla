---------------------------- MODULE Ports_proofs ----------------------------
(***************************************************************************)
(* Proofs about what surrounds the loop of a node, for any wires, items,   *)
(* node objects and graphs: what a data port keeps while wires come and go *)
(* (InputPort, OutputPort); what goes by an id that several node objects   *)
(* share, where a scrape counts nothing twice (Metrics) and the route      *)
(* follows the id (Registry); and a graph that Engine.run() starts in the  *)
(* order of its wires, or turns away (GraphRun).                           *)
(***************************************************************************)
EXTENDS Ports, FiniteSetTheorems, WellFoundedInduction, TLAPS

-----------------------------------------------------------------------------
(* The input port: what each record of the wires says of the others.       *)

Places == Wires \cup {Own}

WiresTyped ==
  /\ sources \in Seq(Places) /\ placeholder \in BOOLEAN
  /\ fan \in 0..MaxFans /\ made \in 0..MaxFans /\ fan <= made
  /\ members \in [Fans -> SUBSET Wires]
  /\ removed \subseteq Wires
  /\ collapses \in [Wires -> Nat]

PipesTyped ==
  /\ taken \in [Pipes -> Nat]
  /\ waiting \in [Fans -> SUBSET Pipes]
  /\ ahead \in [Fans -> SUBSET (Pipes \X Nat)]
  /\ got \in [Pipes -> Seq(Nat)]

Different(s) == \A i, j \in DOMAIN s : i # j => s[i] # s[j]

\* No wire is drawn twice, or again; the port's own pipe is there alone; and
\* there is a FanInPipe of just the wires that are drawn if they are several.
WiresInv ==
  /\ Different(sources)
  /\ Range(sources) \cap removed = {}
  /\ Own \in Range(sources) => sources = <<Own>> /\ placeholder
  /\ Len(sources) = 0 => port = Nothing /\ fan = 0
  /\ Len(sources) = 1 => port = sources /\ fan = 0
  /\ Len(sources) > 1 => fan # 0 /\ port = <<fan>> /\ members[fan] = Range(sources)

Sources(g) == {x[1] : x \in ahead[g]}

\* A FanInPipe has one item of a source ahead, or waits for one, or neither; it
\* is nothing before it is made; and one that was made while the node read from
\* elsewhere has not been asked for anything.
FansInv ==
  \A g \in Fans :
    /\ \A x, y \in ahead[g] : x[1] = y[1] => x = y
    /\ Sources(g) \cap waiting[g] = {}
    /\ ((waiting[g] \cup Sources(g)) \cap Wires) \ removed \subseteq members[g]
    /\ g > made => members[g] = {} /\ waiting[g] = {} /\ ahead[g] = {}
    /\ reading = <<g>> => g <= made
    /\ g = fan /\ reading \notin {Nothing, <<g>>} => waiting[g] = {} /\ ahead[g] = {}

\* The FanInPipes that were dropped with w as the wire that was left.
Dropped(w) == {g \in 1..made : g # fan /\ w \in members[g]}

DropsInv == \A w \in Wires : Cardinality(Dropped(w)) <= collapses[w]

\* Those the node can be handed an item from.
Usable(g) == g = fan \/ reading = <<g>>

\* What the node was given is in order, and older than what it can be given;
\* and what was taken from a wire it was given, or a FanInPipe has it.
ItemsInv ==
  /\ \A p \in Pipes : \A i \in DOMAIN got[p] :
       /\ got[p][i] <= taken[p]
       /\ \A j \in DOMAIN got[p] : i < j => got[p][i] < got[p][j]
  /\ \A g \in Fans : \A x \in ahead[g] :
       /\ x[2] <= taken[x[1]]
       /\ Usable(g) => \A i \in DOMAIN got[x[1]] : got[x[1]][i] < x[2]
  /\ \A w \in Wires \ removed : \A k \in 1..taken[w] :
       k \in Range(got[w]) \/ \E g \in Fans : <<w, k>> \in ahead[g]

ReadsOnePipe == reading = Nothing \/ \E p \in Pipes : reading = <<p>>

InputInv ==
  WiresTyped /\ WiresInv /\ DropsInv /\ ReadsOnePipe /\ PipesTyped /\ FansInv /\ ItemsInv

-----------------------------------------------------------------------------
(* Sequences without repetitions.                                          *)

LEMMA Joined ==
  ASSUME NEW S, NEW a \in Seq(S), NEW b \in Seq(S)
  PROVE  /\ a \o b \in Seq(S) /\ Len(a \o b) = Len(a) + Len(b)
         /\ DOMAIN (a \o b) = 1..(Len(a) + Len(b))
         /\ \A k \in 1..(Len(a) + Len(b)) :
              (a \o b)[k] = IF k <= Len(a) THEN a[k] ELSE b[k - Len(a)]
OBVIOUS

LEMMA RemoveFrom ==
  ASSUME NEW S, NEW s \in Seq(S), NEW i \in DOMAIN s, Different(s)
  PROVE  /\ RemoveAt(s, i) \in Seq(S)
         /\ Len(RemoveAt(s, i)) = Len(s) - 1
         /\ Different(RemoveAt(s, i))
         /\ Range(RemoveAt(s, i)) = Range(s) \ {s[i]}
<1> DEFINE r == RemoveAt(s, i)
           a == SubSeq(s, 1, i - 1)
           b == SubSeq(s, i + 1, Len(s))
<1>1. /\ i \in 1..Len(s) /\ Len(s) \in Nat /\ DOMAIN s = 1..Len(s)
      /\ a \in Seq(S) /\ Len(a) = i - 1 /\ \A k \in 1..(i - 1) : a[k] = s[k]
      /\ b \in Seq(S) /\ Len(b) = Len(s) - i /\ \A k \in 1..(Len(s) - i) : b[k] = s[i + k]
  OBVIOUS
<1>2. r = a \o b
  BY DEF RemoveAt
<1> HIDE DEF a, b, r
<1>3. /\ r \in Seq(S) /\ Len(r) = Len(s) - 1 /\ DOMAIN r = 1..(Len(s) - 1)
      /\ \A k \in 1..(Len(s) - 1) : r[k] = IF k < i THEN s[k] ELSE s[k + 1]
  <2>1. Len(a) + Len(b) = Len(s) - 1
    BY <1>1
  <2>2. /\ r \in Seq(S) /\ Len(r) = Len(a) + Len(b) /\ DOMAIN r = 1..(Len(a) + Len(b))
        /\ \A k \in 1..(Len(a) + Len(b)) : r[k] = IF k <= Len(a) THEN a[k] ELSE b[k - Len(a)]
    <3>1. a \in Seq(S) /\ b \in Seq(S)
      BY <1>1
    <3> QED
      BY <1>2, <3>1, Joined, Zenon
  <2>3. r \in Seq(S) /\ Len(r) = Len(s) - 1 /\ DOMAIN r = 1..(Len(s) - 1)
    BY <2>1, <2>2, Zenon
  <2>4. \A k \in 1..(Len(s) - 1) :
          r[k] = IF k <= Len(a) THEN a[k] ELSE b[k - Len(a)]
    BY <2>1, <2>2, Zenon
  <2>5. ASSUME NEW k \in 1..(Len(s) - 1) PROVE r[k] = IF k < i THEN s[k] ELSE s[k + 1]
    <3>1. CASE k < i
      BY <1>1, <2>4, <3>1
    <3>2. CASE ~(k < i)
      <4>1. k - Len(a) \in 1..(Len(s) - i) /\ i + (k - Len(a)) = k + 1 /\ ~(k <= Len(a))
        BY <1>1, <3>2
      <4>2. r[k] = b[k - Len(a)]
        BY <1>1, <2>4, <4>1
      <4>3. b[k - Len(a)] = s[i + (k - Len(a))]
        BY <1>1, <4>1
      <4> QED
        BY <3>2, <4>1, <4>2, <4>3
    <3> QED
      BY <3>1, <3>2
  <2> QED
    BY <2>3, <2>5
<1>4. Different(r)
  <2> SUFFICES ASSUME NEW m \in 1..(Len(s) - 1), NEW n \in 1..(Len(s) - 1), m # n
               PROVE  r[m] # r[n]
    BY <1>3 DEF Different
  <2> DEFINE at(k) == IF k < i THEN k ELSE k + 1
  <2>1. at(m) \in DOMAIN s /\ at(n) \in DOMAIN s /\ at(m) # at(n)
    BY <1>1
  <2>2. r[m] = s[at(m)] /\ r[n] = s[at(n)]
    BY <1>3
  <2> HIDE DEF at
  <2> QED
    BY <2>1, <2>2 DEF Different
<1>5. Range(r) = Range(s) \ {s[i]}
  <2>1. ASSUME NEW x \in Range(r) PROVE x \in Range(s) /\ x # s[i]
    <3>1. PICK k \in 1..(Len(s) - 1) : x = r[k]
      BY <1>3 DEF Range
    <3>2. \E m \in DOMAIN s : m # i /\ x = s[m]
      <4>1. CASE k < i
        <5>1. k \in DOMAIN s /\ k # i /\ x = s[k]
          BY <1>1, <1>3, <3>1, <4>1
        <5> QED
          BY <5>1
      <4>2. CASE ~(k < i)
        <5>1. k + 1 \in DOMAIN s /\ k + 1 # i /\ x = s[k + 1]
          BY <1>1, <1>3, <3>1, <4>2
        <5> QED
          BY <5>1
      <4> QED
        BY <4>1, <4>2
    <3> QED
      BY <3>2 DEF Different, Range
  <2>2. ASSUME NEW x \in Range(s), x # s[i] PROVE x \in Range(r)
    <3>1. PICK k \in DOMAIN s : x = s[k] /\ k # i
      BY <2>2 DEF Range
    <3>2. \E m \in DOMAIN r : x = r[m]
      <4>1. CASE k < i
        <5>1. k \in 1..(Len(s) - 1)
          BY <1>1, <3>1, <4>1
        <5> QED
          BY <1>3, <3>1, <4>1, <5>1
      <4>2. CASE ~(k < i)
        <5>1. k - 1 \in 1..(Len(s) - 1) /\ ~(k - 1 < i) /\ (k - 1) + 1 = k
          BY <1>1, <3>1, <4>2
        <5> QED
          BY <1>3, <3>1, <5>1
      <4> QED
        BY <4>1, <4>2
    <3> QED
      BY <3>2 DEF Range
  <2> QED
    BY <2>1, <2>2
<1> QED
  BY <1>3, <1>4, <1>5 DEF r

LEMMA AddTo ==
  ASSUME NEW S, NEW s \in Seq(S), NEW e \in S, Different(s), e \notin Range(s)
  PROVE  /\ Append(s, e) \in Seq(S)
         /\ Len(Append(s, e)) = Len(s) + 1
         /\ Different(Append(s, e))
         /\ Range(Append(s, e)) = Range(s) \cup {e}
<1> DEFINE r == Append(s, e)
<1>1. /\ Len(s) \in Nat /\ DOMAIN s = 1..Len(s)
      /\ r \in Seq(S) /\ Len(r) = Len(s) + 1 /\ DOMAIN r = 1..(Len(s) + 1)
      /\ \A k \in 1..Len(s) : r[k] = s[k]
      /\ r[Len(s) + 1] = e
  OBVIOUS
<1> HIDE DEF r
<1>2. Different(r)
  BY <1>1 DEF Different, Range
<1>3. Range(r) = Range(s) \cup {e}
  BY <1>1 DEF Range
<1> QED
  BY <1>1, <1>2, <1>3 DEF r

\* The port's records of a port with one source, or several.
LEMMA OneOrMore ==
  ASSUME NEW S, NEW s \in Seq(S)
  PROVE  /\ Len(s) \in Nat
         /\ s = <<>> <=> Len(s) = 0
         /\ Len(s) = 1 => s = <<s[1]>> /\ Range(s) = {s[1]} /\ s[1] \in S
         /\ s # <<>> => Head(s) = s[1] /\ s[1] \in Range(s) /\ s[1] \in S
         /\ Range(s) \subseteq S
         /\ Range(s) = {} <=> s = <<>>
         /\ DOMAIN s = 1..Len(s)
<1>1. DOMAIN s = 1..Len(s) /\ Len(s) \in Nat /\ \A k \in 1..Len(s) : s[k] \in S
  OBVIOUS
<1>2. Len(s) = 1 => s = <<s[1]>>
  OBVIOUS
<1>3. s # <<>> <=> Len(s) # 0
  OBVIOUS
<1>4. s # <<>> => Head(s) = s[1]
  OBVIOUS
<1>5. Len(s) # 0 => s[1] \in Range(s)
  BY <1>1 DEF Range
<1>6. Len(s) = 1 => Range(s) = {s[1]}
  BY <1>1 DEF Range
<1>7. Range(s) \subseteq S
  BY <1>1 DEF Range
<1>8. Len(s) # 0 <=> s # <<>>
  BY <1>3
<1>9. s = <<>> => Range(s) = {}
  BY DEF Range
<1>10. Range(s) = {} <=> s = <<>>
  BY <1>5, <1>8, <1>9, Zenon
<1> QED
  BY <1>1, <1>2, <1>3, <1>4, <1>5, <1>6, <1>7, <1>10

-----------------------------------------------------------------------------
(* The wires of an input port come and go.                                 *)

LEMMA FanNumbers ==
  /\ MaxFans \in Nat
  /\ \A g \in Fans : g \in Nat \ {0} /\ g \notin Wires /\ g # Own /\ g \in Pipes
  /\ \A n \in 0..MaxFans : n # 0 => n \in Fans
  /\ \A p \in Places : p \in Pipes /\ p \notin Fans
  /\ Own \notin Wires /\ Wires \subseteq Places
BY InputPortAssumption DEF Fans, Pipes, Places

WiresKept == WiresTyped' /\ WiresInv' /\ DropsInv'

LEMMA SameWires ==
  ASSUME WiresTyped, WiresInv, DropsInv, UNCHANGED wiringVars PROVE WiresKept
BY DEF WiresKept, WiresTyped, WiresInv, DropsInv, Dropped, wiringVars

LEMMA SameDrops ==
  ASSUME DropsInv, collapses' = collapses, \A v \in Wires : Dropped(v)' = Dropped(v)
  PROVE  DropsInv'
BY Zenon DEF DropsInv

LEMMA AddKeepsWires ==
  ASSUME WiresTyped, WiresInv, DropsInv, NEW w \in Wires, AddInput(w) PROVE WiresKept
<1> DEFINE kept == IF placeholder /\ sources = <<Own>> THEN <<>> ELSE sources
<1>1. /\ sources \in Seq(Places) /\ fan \in 0..MaxFans /\ made \in 0..MaxFans /\ fan <= made
      /\ members \in [Fans -> SUBSET Wires] /\ removed \subseteq Wires
      /\ collapses \in [Wires -> Nat]
  BY DEF WiresTyped
<1>2. /\ Len(sources) \in Nat /\ (sources = <<>> <=> Len(sources) = 0)
      /\ sources # <<>> => Head(sources) = sources[1] /\ sources[1] \in Range(sources)
      /\ Len(sources) = 1 => Range(sources) = {sources[1]}
      /\ Range(sources) \subseteq Places /\ DOMAIN sources = 1..Len(sources)
  BY <1>1, OneOrMore
<1>3. /\ kept \in Seq(Wires) /\ Different(kept) /\ w \notin Range(kept)
      /\ Range(kept) \cap removed = {} /\ w \notin removed
      /\ kept = <<>> => fan = 0
      /\ kept # <<>> => kept = sources
  <2>1. CASE placeholder /\ sources = <<Own>>
    <3>1. Len(sources) = 1
      BY <2>1
    <3>2. kept = <<>> /\ Range(<<>>) = {} /\ Different(<<>>)
      BY <2>1 DEF Range, Different
    <3> QED
      BY <3>1, <3>2 DEF WiresInv, AddInput
  <2>2. CASE ~(placeholder /\ sources = <<Own>>)
    <3>1. kept = sources /\ Own \notin Range(sources)
      BY <2>2 DEF WiresInv
    <3>2. \A k \in 1..Len(sources) : sources[k] \in Wires
      BY <1>1, <1>2, <3>1 DEF Range, Places
    <3>3. sources \in Seq(Wires)
      BY <1>1, <1>2, <3>2
    <3> QED
      BY <1>2, <3>1, <3>3 DEF WiresInv, AddInput
  <2> QED
    BY <2>1, <2>2
<1>4. /\ sources' = Append(kept, w) /\ placeholder' = FALSE /\ removed' = removed
      /\ collapses' = collapses
      /\ \/ /\ kept = <<>>
            /\ port' = <<w>>
            /\ UNCHANGED <<fan, made, members>>
         \/ /\ kept # <<>> /\ fan = 0 /\ made < MaxFans
            /\ made' = made + 1
            /\ fan' = made'
            /\ members' = [members EXCEPT ![fan'] = {Head(kept), w}]
            /\ port' = <<fan'>>
         \/ /\ kept # <<>> /\ fan # 0
            /\ members' = [members EXCEPT ![fan] = @ \cup {w}]
            /\ port' = <<fan>>
            /\ UNCHANGED <<fan, made>>
  BY DEF AddInput
<1> HIDE DEF kept
<1>5. /\ sources' \in Seq(Wires) /\ Len(sources') = Len(kept) + 1 /\ Different(sources')
      /\ Range(sources') = Range(kept) \cup {w}
      /\ sources' \in Seq(Places) /\ Own \notin Range(sources')
      /\ Range(sources') \cap removed' = {}
  <2>1. /\ sources' \in Seq(Wires) /\ Len(sources') = Len(kept) + 1 /\ Different(sources')
        /\ Range(sources') = Range(kept) \cup {w}
    BY <1>3, <1>4, AddTo
  <2>2. Range(kept) \subseteq Wires
    BY <1>3, OneOrMore
  <2>3. sources' \in Seq(Places)
    BY <2>1, FanNumbers
  <2> QED
    BY <1>3, <1>4, <2>1, <2>2, <2>3, FanNumbers
<1>0. /\ placeholder' \in BOOLEAN /\ removed' \subseteq Wires /\ collapses' \in [Wires -> Nat]
      /\ collapses' = collapses
  BY <1>1, <1>4
<1>6. CASE kept = <<>>
  <2>1. port' = <<w>> /\ UNCHANGED <<fan, made, members>> /\ fan = 0
    BY <1>3, <1>4, <1>6
  <2>2. Len(sources') = 1 /\ sources' = <<w>>
    BY <1>4, <1>5, <1>6
  <2>3. \A v : Dropped(v)' = Dropped(v)
    BY <2>1 DEF Dropped
  <2>4. WiresTyped'
    BY <1>1, <1>4, <1>5, <2>1 DEF WiresTyped
  <2>5. WiresInv'
    BY <1>4, <1>5, <2>1, <2>2 DEF WiresInv
  <2> QED
    BY <1>4, <2>3, <2>4, <2>5, SameDrops DEF WiresKept
<1>7. CASE kept # <<>>
  <2>1. /\ kept = sources /\ Len(sources') = Len(sources) + 1 /\ Len(sources) >= 1
        /\ Head(kept) = sources[1] /\ sources[1] \in Range(sources) /\ Range(sources) \subseteq Wires
    BY <1>2, <1>3, <1>5, <1>7, OneOrMore
  <2>2. CASE fan = 0
    <3>1. /\ made < MaxFans /\ made' = made + 1 /\ fan' = made + 1
          /\ members' = [members EXCEPT ![made + 1] = {sources[1], w}]
          /\ port' = <<made + 1>>
      BY <1>4, <1>7, <2>1, <2>2
    <3>2. Len(sources) = 1 /\ Range(sources) = {sources[1]}
      BY <1>2, <2>1, <2>2 DEF WiresInv
    <3>3. made + 1 \in Fans /\ made + 1 \in 0..MaxFans /\ made + 1 # 0
      BY <1>1, <3>1, FanNumbers DEF Fans
    <3>4. members' \in [Fans -> SUBSET Wires] /\ members'[made + 1] = Range(sources')
      BY <1>1, <1>5, <2>1, <3>1, <3>2, <3>3
    <3>5. ASSUME NEW v \in Wires PROVE Dropped(v)' = Dropped(v)
      BY <1>1, <2>2, <3>1, FanNumbers DEF Dropped, Fans
    <3>6. WiresTyped'
      BY <1>0, <1>1, <1>5, <3>1, <3>3, <3>4 DEF WiresTyped
    <3>7. Len(sources') = 2 /\ fan' # 0
      BY <1>1, <2>1, <3>1, <3>2
    <3>8. /\ port' = <<fan'>> /\ members'[fan'] = Range(sources')
          /\ ~(Len(sources') = 0) /\ ~(Len(sources') = 1)
      BY <3>1, <3>4, <3>7
    <3>9. WiresInv'
      BY <1>5, <3>7, <3>8, Zenon DEF WiresInv
    <3> QED
      BY <1>0, <3>5, <3>6, <3>9, SameDrops DEF WiresKept
  <2>3. CASE fan # 0
    <3>1. /\ fan' = fan /\ made' = made /\ port' = <<fan>>
          /\ members' = [members EXCEPT ![fan] = @ \cup {w}]
      BY <1>4, <1>7, <2>3
    <3>2. Len(sources) > 1 /\ members[fan] = Range(sources) /\ fan \in Fans
      BY <1>1, <1>2, <2>1, <2>3, FanNumbers DEF WiresInv
    <3>3. members' \in [Fans -> SUBSET Wires] /\ members'[fan] = Range(sources')
      BY <1>1, <1>5, <2>1, <3>1, <3>2
    <3>4. ASSUME NEW v \in Wires PROVE Dropped(v)' = Dropped(v)
      BY <1>1, <3>1, FanNumbers DEF Dropped, Fans
    <3>5. WiresTyped'
      BY <1>1, <1>4, <1>5, <3>1, <3>3 DEF WiresTyped
    <3>6. Len(sources') > 1 /\ Len(sources') \in Nat
      BY <1>2, <2>1
    <3>7. port' = <<fan'>> /\ fan' # 0 /\ members'[fan'] = Range(sources')
      BY <2>3, <3>1, <3>3, Zenon
    <3>8. ~(Len(sources') = 0) /\ ~(Len(sources') = 1)
      BY <1>5, <3>6
    <3>9. WiresInv'
      BY <1>5, <3>7, <3>8, Zenon DEF WiresInv
    <3> QED
      BY <1>4, <3>4, <3>5, <3>9, SameDrops DEF WiresKept
  <2> QED
    BY <2>2, <2>3
<1> QED
  BY <1>6, <1>7

LEMMA OwnKeepsWires ==
  ASSUME WiresTyped, WiresInv, DropsInv, AddInputIfUnwired PROVE WiresKept
<1>1. /\ sources' = <<Own>> /\ port' = <<Own>> /\ placeholder' = TRUE /\ port = Nothing
      /\ UNCHANGED <<fan, made, members, removed, collapses>>
  BY DEF AddInputIfUnwired
<1>2. /\ Len(sources') = 1 /\ Range(sources') = {Own} /\ Different(sources')
      /\ sources' \in Seq(Places)
  BY <1>1 DEF Range, Different, Places
<1>3. fan = 0
  <2>1. sources \in Seq(Places) /\ Len(sources) \in Nat /\ Len(<<fan>>) = 1 /\ Len(<<>>) = 0
    BY DEF WiresTyped
  <2> QED
    BY <1>1, <2>1 DEF WiresInv, Nothing
<1>4. Own \notin removed
  BY FanNumbers DEF WiresTyped
<1>5. \A v : Dropped(v)' = Dropped(v)
  BY <1>1 DEF Dropped
<1> QED
  BY <1>1, <1>2, <1>3, <1>4, <1>5 DEF WiresKept, WiresTyped, WiresInv, DropsInv

LEMMA RemoveKeepsWires ==
  ASSUME WiresTyped, WiresInv, DropsInv, NEW w \in Wires, RemoveInput(w) PROVE WiresKept
<1>1. /\ sources \in Seq(Places) /\ fan \in 0..MaxFans /\ made \in 0..MaxFans /\ fan <= made
      /\ members \in [Fans -> SUBSET Wires] /\ removed \subseteq Wires
      /\ collapses \in [Wires -> Nat]
  BY DEF WiresTyped
<1>2. PICK i \in DOMAIN sources : sources[i] = w /\ sources' = RemoveAt(sources, i)
  BY DEF RemoveInput
<1>3. /\ sources' \in Seq(Places) /\ Len(sources') = Len(sources) - 1 /\ Different(sources')
      /\ Range(sources') = Range(sources) \ {w} /\ Len(sources) \in Nat \ {0}
  BY <1>1, <1>2, RemoveFrom, OneOrMore DEF WiresInv
<1>4. /\ placeholder' = placeholder /\ made' = made /\ removed' = removed \cup {w}
      /\ members' = IF fan = 0 THEN members ELSE [members EXCEPT ![fan] = @ \ {w}]
  BY DEF RemoveInput, ForgetSource
<1>5. Own \notin Range(sources)
  <2>1. Own \in Range(sources) => Range(sources) = {Own}
    BY DEF WiresInv, Range
  <2>2. w \in Range(sources) /\ w # Own
    BY <1>2, FanNumbers DEF Range
  <2> QED
    BY <2>1, <2>2
<1>6. /\ Own \notin Range(sources') /\ Range(sources') \cap removed' = {}
      /\ Range(sources') \subseteq Wires
  <2>1. Range(sources) \subseteq Places
    BY <1>1, OneOrMore
  <2> QED
    BY <1>3, <1>4, <1>5, <2>1 DEF WiresInv, Places
<1>7. /\ members' \in [Fans -> SUBSET Wires] /\ removed' \subseteq Wires
  BY <1>1, <1>4
<1>8. /\ Len(sources') \in Nat /\ (sources' = <<>> <=> Len(sources') = 0)
      /\ Len(sources') = 1 => Range(sources') = {sources'[1]}
  BY <1>3, OneOrMore
<1>12. \A n \in Nat : /\ n = 0 \/ n = 1 \/ n > 1
                      /\ n = 1 => n # 0 /\ ~(n > 1)
                      /\ n > 1 => n # 0 /\ n # 1
  OBVIOUS
<1>9. CASE sources' = <<>>
  <2>1. Len(sources) = 1 /\ Len(sources') = 0
    BY <1>3, <1>8, <1>9
  <2>2. fan = 0 /\ fan' = 0 /\ port' = Nothing /\ collapses' = collapses
    BY <1>8, <1>9, <2>1 DEF WiresInv, RemoveInput
  <2>3. \A v : Dropped(v)' = Dropped(v)
    BY <1>4, <2>2 DEF Dropped
  <2>4. WiresTyped'
    BY <1>1, <1>3, <1>4, <1>7, <2>2 DEF WiresTyped
  <2>5. WiresInv'
    BY <1>3, <1>6, <2>1, <2>2 DEF WiresInv
  <2> QED
    BY <2>2, <2>3, <2>4, <2>5, SameDrops DEF WiresKept
<1>10. CASE Len(sources') = 1
  <2>1. fan # 0 /\ fan \in Fans /\ members[fan] = Range(sources) /\ fan \in Nat
    <3>1. Len(sources) > 1
      BY <1>3, <1>10
    <3> QED
      BY <1>1, <3>1, FanNumbers DEF WiresInv
  <2> DEFINE v == sources'[1]
  <2>2. /\ fan' = 0 /\ port' = sources' /\ v \in Wires
        /\ collapses' = [collapses EXCEPT ![v] = @ + 1]
    BY <1>6, <1>8, <1>10, <2>1 DEF RemoveInput
  <2>3. members'[fan] = {v} /\ \A g \in Fans : g # fan => members'[g] = members[g]
    BY <1>1, <1>3, <1>4, <1>8, <1>10, <2>1
  <2> HIDE DEF v
  <2>4. collapses' \in [Wires -> Nat] /\ collapses'[v] = collapses[v] + 1
        /\ \A u \in Wires : u # v => collapses'[u] = collapses[u]
    BY <1>1, <2>2
  <2>5. ASSUME NEW u \in Wires PROVE Cardinality(Dropped(u))' <= collapses'[u]
    <3>1. /\ Dropped(u)' = IF u = v THEN Dropped(u) \cup {fan} ELSE Dropped(u)
          /\ fan \notin Dropped(u)
      <4>1. /\ 1..made \subseteq Fans /\ fan \in 1..made /\ 0 \notin 1..made
        BY <1>1, <2>1, FanNumbers DEF Fans
      <4>2. Dropped(u)' = {g \in 1..made : g # 0 /\ u \in members'[g]}
        BY <1>4, <2>2 DEF Dropped
      <4>3. ASSUME NEW g PROVE g \in {h \in 1..made : h # 0 /\ u \in members'[h]} <=>
              g \in {h \in 1..made : h # fan /\ u \in members[h]} \/ (u = v /\ g = fan)
        <5>1. CASE g = fan
          BY <2>1, <2>3, <4>1, <5>1
        <5>2. CASE g # fan
          BY <2>1, <2>3, <4>1, <5>2
        <5> QED
          BY <5>1, <5>2
      <4> QED
        BY <4>2, <4>3 DEF Dropped
    <3>2. IsFiniteSet(Dropped(u)) /\ Cardinality(Dropped(u)) \in Nat
      <4>1. IsFiniteSet(1..made)
        BY <1>1, FS_Interval, FanNumbers
      <4>2. Dropped(u) \in SUBSET (1..made)
        BY DEF Dropped
      <4> QED
        BY <4>1, <4>2, FS_Subset, FS_CardinalityType
    <3>3. Cardinality(Dropped(u)) <= collapses[u] /\ collapses[u] \in Nat
      BY <1>1 DEF DropsInv
    <3>4. Cardinality(Dropped(u) \cup {fan}) = Cardinality(Dropped(u)) + 1
      BY <3>1, <3>2, FS_AddElement
    <3>5. Cardinality(Dropped(u))' = Cardinality(Dropped(u)')
      OBVIOUS
    <3>6. CASE u = v
      <4>1. Dropped(u)' = Dropped(u) \cup {fan}
        BY <3>1, <3>6
      <4>2. Cardinality(Dropped(u)') = Cardinality(Dropped(u)) + 1
        BY <3>4, <4>1, Zenon
      <4>3. collapses'[u] = collapses[u] + 1
        BY <2>4, <3>6
      <4> HIDE DEF Dropped
      <4> QED
        BY <3>2, <3>3, <3>5, <4>2, <4>3
    <3>7. CASE u # v
      <4>1. Dropped(u)' = Dropped(u) /\ collapses'[u] = collapses[u]
        BY <2>4, <3>1, <3>7
      <4> QED
        BY <3>3, <3>5, <4>1, Zenon
    <3> QED
      BY <3>6, <3>7
  <2>6. DropsInv'
    BY <2>5, Zenon DEF DropsInv
  <2>7. WiresTyped'
    BY <1>1, <1>3, <1>4, <1>7, <2>2, <2>4, FanNumbers DEF WiresTyped
  <2>8. WiresInv'
    BY <1>3, <1>6, <1>8, <1>10, <1>12, <2>2, Zenon DEF WiresInv
  <2> QED
    BY <2>6, <2>7, <2>8 DEF WiresKept
<1>11. CASE Len(sources') > 1
  <2>1. Len(sources) > 1 /\ fan # 0 /\ port = <<fan>> /\ members[fan] = Range(sources)
    <3>1. Len(sources) > 1
      BY <1>3, <1>11
    <3> QED
      BY <3>1 DEF WiresInv
  <2>2. fan' = fan /\ port' = port /\ collapses' = collapses
    BY <1>8, <1>11, <1>12, Zenon DEF RemoveInput
  <2>3. members'[fan] = Range(sources') /\ fan \in Fans
    BY <1>1, <1>3, <1>4, <2>1, FanNumbers
  <2>4. ASSUME NEW u \in Wires PROVE Dropped(u)' = Dropped(u)
    BY <1>1, <1>4, <2>2, FanNumbers DEF Dropped, Fans
  <2>5. WiresTyped'
    BY <1>1, <1>3, <1>4, <1>7, <2>2 DEF WiresTyped
  <2>6. WiresInv'
    BY <1>3, <1>6, <1>8, <1>11, <1>12, <2>1, <2>2, <2>3, Zenon DEF WiresInv
  <2> QED
    BY <2>2, <2>4, <2>5, <2>6, SameDrops DEF WiresKept
<1> QED
  BY <1>8, <1>9, <1>10, <1>11, <1>12, Zenon

-----------------------------------------------------------------------------
(* What the FanInPipes hold, and what the node was given.                  *)

FlowInv == PipesTyped /\ FansInv /\ ItemsInv

LEMMA SameFlow ==
  ASSUME FlowInv, UNCHANGED <<fan, made, members, removed, taken, fanVars, reading, got>>
  PROVE  FlowInv'
BY DEF FlowInv, PipesTyped, FansInv, ItemsInv, Usable, Sources, fanVars

\* Which FanInPipe the port reads, if any.
LEMMA PortReads ==
  ASSUME WiresTyped, WiresInv
  PROVE  /\ fan # 0 => fan \in Fans /\ port = <<fan>> /\ IsFan(port)
         /\ IsFan(port) => fan \in Fans /\ port = <<fan>> /\ port[1] = fan
         /\ 0 \notin Fans
<1>1. sources \in Seq(Places) /\ fan \in 0..MaxFans
  BY DEF WiresTyped
<1>2. Len(sources) \in Nat /\ (Len(sources) = 1 => sources[1] \in Places)
  BY <1>1, OneOrMore
<1>3. \A n \in Nat : n = 0 \/ n = 1 \/ n > 1
  OBVIOUS
<1>4. 0 \notin Fans /\ (fan # 0 => fan \in Fans)
  BY <1>1, FanNumbers
<1>5. <<fan>> # Nothing /\ <<fan>>[1] = fan
  BY DEF Nothing
<1>6. CASE Len(sources) = 0
  BY <1>4, <1>6 DEF WiresInv, IsFan
<1>7. CASE Len(sources) = 1
  BY <1>2, <1>4, <1>7, FanNumbers DEF WiresInv, IsFan
<1>8. CASE Len(sources) > 1
  BY <1>4, <1>5, <1>8 DEF WiresInv, IsFan
<1> QED
  BY <1>2, <1>3, <1>6, <1>7, <1>8

LEMMA PortShape ==
  ASSUME WiresTyped, WiresInv PROVE port = Nothing \/ \E p \in Pipes : port = <<p>>
<1>1. /\ sources \in Seq(Places) /\ Len(sources) \in Nat
      /\ Len(sources) = 1 => sources = <<sources[1]>> /\ sources[1] \in Places
  <2>1. sources \in Seq(Places)
    BY DEF WiresTyped
  <2> QED
    BY <2>1, OneOrMore
<1>2. \A n \in Nat : n = 0 \/ n = 1 \/ n > 1
  OBVIOUS
<1>3. CASE Len(sources) = 0
  BY <1>3 DEF WiresInv
<1>4. CASE Len(sources) = 1
  BY <1>1, <1>4, FanNumbers DEF WiresInv
<1>5. CASE Len(sources) > 1
  BY <1>5, PortReads, FanNumbers DEF WiresInv
<1> QED
  BY <1>1, <1>2, <1>3, <1>4, <1>5

LEMMA AddKeepsFlow ==
  ASSUME WiresTyped, WiresInv, WiresTyped', FlowInv, NEW w \in Wires, AddInput(w) PROVE FlowInv'
<1>1. /\ fan \in 0..MaxFans /\ made \in 0..MaxFans /\ fan <= made
      /\ members \in [Fans -> SUBSET Wires]
      /\ fan' \in 0..MaxFans /\ made' \in 0..MaxFans /\ fan' <= made'
  BY DEF WiresTyped
<1>2. /\ removed' = removed /\ taken' = taken /\ waiting' = waiting /\ ahead' = ahead
      /\ reading' = reading /\ got' = got
  BY DEF AddInput, fanVars, readVars
<1>3. /\ (fan' = fan /\ made' = made) \/ (made' = made + 1 /\ fan' = made + 1)
      /\ \/ members' = members
         \/ (members' = [members EXCEPT ![fan] = @ \cup {w}] /\ made' = made)
         \/ /\ made' = made + 1
            /\ \E s : members' = [members EXCEPT ![made'] = s]
  <2> DEFINE kept == IF placeholder /\ sources = <<Own>> THEN <<>> ELSE sources
  <2>1. CASE UNCHANGED <<fan, made, members>>
    BY <2>1
  <2>2. CASE made' = made + 1 /\ fan' = made' /\ members' = [members EXCEPT ![fan'] = {Head(kept), w}]
    BY <2>2
  <2>3. CASE members' = [members EXCEPT ![fan] = @ \cup {w}] /\ UNCHANGED <<fan, made>>
    BY <2>3
  <2> QED
    BY <2>1, <2>2, <2>3, Zenon DEF AddInput
<1>4. \A g \in Fans : g > made => members[g] = {} /\ waiting[g] = {} /\ ahead[g] = {}
  BY DEF FlowInv, FansInv
<1>5. \A g \in Fans : g \in Nat \ {0} /\ fan \in Nat /\ made \in Nat
  BY <1>1, FanNumbers
<1>6. \A g \in Fans : /\ members[g] \subseteq members'[g]
                      /\ g > made' => members'[g] = {} /\ g > made
                      /\ g <= made => g <= made'
  <2>1. CASE members' = members
    BY <1>3, <1>4, <1>5, <2>1
  <2>2. CASE members' = [members EXCEPT ![fan] = @ \cup {w}] /\ made' = made
    BY <1>1, <1>3, <1>4, <1>5, <2>2
  <2>3. CASE made' = made + 1 /\ \E s : members' = [members EXCEPT ![made'] = s]
    BY <1>1, <1>3, <1>4, <1>5, <2>3
  <2> QED
    BY <1>3, <2>1, <2>2, <2>3
<1>7. \A g \in Fans : g = fan' => g = fan \/ (waiting[g] = {} /\ ahead[g] = {})
  BY <1>3, <1>4, <1>5
<1>8. FansInv'
  BY <1>2, <1>4, <1>6, <1>7 DEF FlowInv, FansInv, Sources
<1>9. ItemsInv'
  BY <1>2, <1>7 DEF FlowInv, ItemsInv, Usable
<1> QED
  BY <1>2, <1>8, <1>9 DEF FlowInv, PipesTyped

LEMMA RemoveKeepsFlow ==
  ASSUME WiresTyped, WiresInv, FlowInv, NEW w \in Wires, RemoveInput(w) PROVE FlowInv'
<1>1. /\ fan \in 0..MaxFans /\ made \in 0..MaxFans
      /\ members \in [Fans -> SUBSET Wires] /\ removed \subseteq Wires
      /\ waiting \in [Fans -> SUBSET Pipes]
      /\ ahead \in [Fans -> SUBSET (Pipes \X Nat)]
  BY DEF WiresTyped, FlowInv, PipesTyped
<1>2. /\ removed' = removed \cup {w} /\ taken' = taken /\ reading' = reading /\ got' = got
      /\ made' = made /\ (fan' = fan \/ fan' = 0)
  BY DEF RemoveInput, readVars
<1>3. ASSUME NEW g \in Fans
      PROVE  /\ members'[g] \subseteq members[g] /\ members[g] \ {w} \subseteq members'[g]
             /\ waiting'[g] \subseteq waiting[g]
             /\ ahead'[g] \subseteq ahead[g]
             /\ \A x \in ahead[g] : x[1] # w => x \in ahead'[g]
  BY <1>1 DEF RemoveInput, ForgetSource, fanVars
<1>4. PipesTyped'
  <2>1. /\ waiting' \in [Fans -> SUBSET Pipes]
        /\ ahead' \in [Fans -> SUBSET (Pipes \X Nat)]
    BY <1>1 DEF RemoveInput, ForgetSource, fanVars
  <2> QED
    BY <1>2, <2>1 DEF FlowInv, PipesTyped
<1>5. \A g \in Fans : g = fan' => g = fan
  BY <1>2, PortReads
<1>6. FansInv'
  <2> SUFFICES ASSUME NEW g \in Fans
               PROVE  /\ \A x, y \in ahead'[g] : x[1] = y[1] => x = y
                      /\ Sources(g)' \cap waiting'[g] = {}
                      /\ ((waiting'[g] \cup Sources(g)') \cap Wires) \ removed' \subseteq members'[g]
                      /\ g > made' => members'[g] = {} /\ waiting'[g] = {} /\ ahead'[g] = {}
                      /\ reading' = <<g>> => g <= made'
                      /\ g = fan' /\ reading' \notin {Nothing, <<g>>} => waiting'[g] = {} /\ ahead'[g] = {}
    BY Zenon DEF FansInv
  <2>1. Sources(g)' \subseteq Sources(g)
    BY <1>3 DEF Sources
  <2> QED
    BY <1>2, <1>3, <1>5, <2>1 DEF FlowInv, FansInv
<1>7. ItemsInv'
  <2>1. \A g \in Fans : Usable(g)' => Usable(g)
    BY <1>2, <1>5 DEF Usable
  <2>2. \A v \in Wires : \A k : \A g \in Fans :
          v # w /\ <<v, k>> \in ahead[g] => <<v, k>> \in ahead'[g]
    BY <1>3
  <2>3. \A v \in Wires \ removed' : v # w /\ v \in Wires \ removed
    BY <1>2
  <2>4. \A v \in Wires \ removed' : \A k \in 1..taken'[v] :
          k \in Range(got'[v]) \/ \E g \in Fans : <<v, k>> \in ahead'[g]
    BY <1>2, <2>2, <2>3 DEF FlowInv, ItemsInv
  <2>5. \A g \in Fans : \A x \in ahead'[g] :
          /\ x[2] <= taken'[x[1]]
          /\ Usable(g)' => \A i \in DOMAIN got'[x[1]] : got'[x[1]][i] < x[2]
    BY <1>2, <1>3, <2>1 DEF FlowInv, ItemsInv
  <2> QED
    BY <1>2, <2>4, <2>5 DEF FlowInv, ItemsInv
<1> QED
  BY <1>4, <1>6, <1>7 DEF FlowInv

\* A get() task takes the next item of its source.
LEMMA TaskKeepsFlow ==
  ASSUME WiresTyped, FlowInv, NEW h \in Fans, NEW p \in Pipes, TaskTakes(h, p) PROVE FlowInv'
<1> DEFINE n == taken[p] + 1
           x == <<p, n>>
<1>1. /\ taken \in [Pipes -> Nat] /\ got \in [Pipes -> Seq(Nat)]
      /\ waiting \in [Fans -> SUBSET Pipes] /\ ahead \in [Fans -> SUBSET (Pipes \X Nat)]
  BY DEF FlowInv, PipesTyped
<1>2. /\ p \in waiting[h] /\ UNCHANGED wiringVars /\ reading' = reading /\ got' = got
      /\ taken' = [taken EXCEPT ![p] = n]
      /\ waiting' = [waiting EXCEPT ![h] = @ \ {p}]
      /\ ahead' = [ahead EXCEPT ![h] = @ \cup {x}]
  BY <1>1 DEF TaskTakes, readVars
<1>3. /\ fan' = fan /\ made' = made /\ members' = members /\ removed' = removed
  BY <1>2 DEF wiringVars
<1>4. n \in Nat /\ n > taken[p] /\ x[1] = p /\ x[2] = n /\ x \in Pipes \X Nat
      /\ taken[p] \in Nat
  BY <1>1
<1> HIDE DEF n, x
<1>5. /\ taken'[p] = n /\ \A q \in Pipes : q # p => taken'[q] = taken[q]
      /\ \A g \in Fans : waiting'[g] \subseteq waiting[g] /\ ahead[g] \subseteq ahead'[g]
      /\ ahead'[h] = ahead[h] \cup {x} /\ p \notin waiting'[h]
      /\ \A g \in Fans : g # h => ahead'[g] = ahead[g] /\ waiting'[g] = waiting[g]
  BY <1>1, <1>2
<1>6. PipesTyped'
  BY <1>1, <1>2, <1>4 DEF PipesTyped
<1>7. p \notin Sources(h)
  BY <1>2 DEF FlowInv, FansInv
<1>8. ASSUME NEW g \in Fans
      PROVE  /\ \A a, b \in ahead'[g] : a[1] = b[1] => a = b
             /\ Sources(g)' \cap waiting'[g] = {}
             /\ ((waiting'[g] \cup Sources(g)') \cap Wires) \ removed' \subseteq members'[g]
             /\ g > made' => members'[g] = {} /\ waiting'[g] = {} /\ ahead'[g] = {}
             /\ reading' = <<g>> => g <= made'
             /\ g = fan' /\ reading' \notin {Nothing, <<g>>} => waiting'[g] = {} /\ ahead'[g] = {}
  <2>1. CASE g # h
    BY <1>2, <1>3, <1>5, <2>1 DEF FlowInv, FansInv, Sources
  <2>2. CASE g = h
    <3>1. Sources(h)' = Sources(h) \cup {p}
      BY <1>4, <1>5 DEF Sources
    <3>2. \A a, b \in ahead[h] \cup {x} : a[1] = b[1] => a = b
      BY <1>4, <1>7 DEF FlowInv, FansInv, Sources
    <3> QED
      BY <1>2, <1>3, <1>5, <2>2, <3>1, <3>2 DEF FlowInv, FansInv
  <2> QED
    BY <2>1, <2>2
<1>9. FansInv'
  BY <1>8, Zenon DEF FansInv
<1>10. ASSUME NEW q \in Pipes, NEW i \in DOMAIN got[q]
       PROVE  got[q][i] <= taken[q] /\ got[q][i] \in Nat /\ got[q][i] <= taken'[q]
              /\ taken[q] \in Nat /\ taken'[q] \in Nat
  BY <1>1, <1>4, <1>5 DEF FlowInv, ItemsInv
<1>11. ASSUME NEW g \in Fans, NEW y \in ahead'[g]
       PROVE  /\ y[2] <= taken'[y[1]]
              /\ Usable(g)' => \A i \in DOMAIN got'[y[1]] : got'[y[1]][i] < y[2]
  <2>1. CASE y \in ahead[g]
    <3>1. y[1] \in Pipes /\ y[2] \in Nat
      BY <1>1, <2>1
    <3> QED
      BY <1>1, <1>2, <1>3, <1>4, <1>5, <2>1, <3>1 DEF FlowInv, ItemsInv, Usable
  <2>2. CASE y = x
    BY <1>1, <1>2, <1>4, <1>5, <1>10, <2>2
  <2> QED
    BY <1>5, <1>11, <2>1, <2>2
<1>12. ASSUME NEW w \in Wires \ removed', NEW k \in 1..taken'[w]
       PROVE  k \in Range(got'[w]) \/ \E g \in Fans : <<w, k>> \in ahead'[g]
  <2>1. w \in Pipes /\ taken[w] \in Nat
    BY <1>1, FanNumbers
  <2>2. CASE k \in 1..taken[w]
    BY <1>2, <1>3, <1>5, <2>2 DEF FlowInv, ItemsInv
  <2>3. CASE k \notin 1..taken[w]
    <3>1. w = p /\ k = n
      BY <1>4, <1>5, <1>12, <2>1, <2>3 DEF n
    <3> QED
      BY <1>5, <3>1 DEF x
  <2> QED
    BY <2>2, <2>3
<1>13. ItemsInv'
  BY <1>2, <1>10, <1>11, <1>12 DEF FlowInv, ItemsInv
<1> QED
  BY <1>6, <1>9, <1>13 DEF FlowInv

\* get() makes the tasks that are missing, in the FanInPipe it is called on.
LEMMA ArmKeepsFlow ==
  ASSUME WiresTyped, FlowInv, NEW h \in Fans, Arm(h), h <= made,
         reading \in {Nothing, <<h>>}, reading' = <<h>>, h = fan \/ reading = <<h>>,
         UNCHANGED <<wiringVars, taken, ahead, got>>
  PROVE  FlowInv'
<1>1. /\ waiting \in [Fans -> SUBSET Pipes] /\ ahead \in [Fans -> SUBSET (Pipes \X Nat)]
      /\ members \in [Fans -> SUBSET Wires]
  BY DEF FlowInv, PipesTyped, WiresTyped
<1>2. /\ fan' = fan /\ made' = made /\ members' = members /\ removed' = removed
      /\ taken' = taken /\ ahead' = ahead /\ got' = got
      /\ waiting' = [waiting EXCEPT ![h] = @ \cup ((members[h] \cup {h}) \ Sources(h))]
  BY DEF wiringVars, Arm, Sources
<1>3. \A g \in Fans : Sources(g)' = Sources(g)
  BY <1>2 DEF Sources
<1>4. h \in Pipes /\ h \notin Wires /\ Wires \subseteq Pipes
  BY FanNumbers
<1>5. PipesTyped'
  BY <1>1, <1>2, <1>4 DEF FlowInv, PipesTyped
<1>6. /\ waiting'[h] = waiting[h] \cup ((members[h] \cup {h}) \ Sources(h))
      /\ \A g \in Fans : g # h => waiting'[g] = waiting[g]
  BY <1>1, <1>2
<1>7. \A g : <<g>> = <<h>> <=> g = h
  OBVIOUS
<1>8. <<h>> # Nothing
  BY DEF Nothing
<1>9. ASSUME NEW g \in Fans
      PROVE  /\ \A a, b \in ahead'[g] : a[1] = b[1] => a = b
             /\ Sources(g)' \cap waiting'[g] = {}
             /\ ((waiting'[g] \cup Sources(g)') \cap Wires) \ removed' \subseteq members'[g]
             /\ g > made' => members'[g] = {} /\ waiting'[g] = {} /\ ahead'[g] = {}
             /\ reading' = <<g>> => g <= made'
             /\ g = fan' /\ reading' \notin {Nothing, <<g>>} => waiting'[g] = {} /\ ahead'[g] = {}
  <2>1. CASE g # h
    <3>1. g = fan => waiting[g] = {} /\ ahead[g] = {}
      BY <1>7, <1>8, <2>1 DEF FlowInv, FansInv
    <3> QED
      BY <1>2, <1>3, <1>6, <1>7, <2>1, <3>1 DEF FlowInv, FansInv
  <2>2. CASE g = h
    <3>1. ~(h > made)
      BY FanNumbers DEF WiresTyped
    <3> QED
      BY <1>2, <1>3, <1>4, <1>6, <2>2, <3>1 DEF FlowInv, FansInv
  <2> QED
    BY <2>1, <2>2
<1>10. FansInv'
  BY <1>9, Zenon DEF FansInv
<1>11. ItemsInv'
  <2>1. \A g \in Fans : Usable(g)' => Usable(g)
    BY <1>2, <1>7 DEF Usable
  <2> QED
    BY <1>2, <2>1 DEF FlowInv, ItemsInv
<1> QED
  BY <1>5, <1>10, <1>11 DEF FlowInv

LEMMA GivenMore ==
  ASSUME NEW s \in Seq(Nat), NEW e \in Nat, \A i \in DOMAIN s : s[i] < e,
         \A i, j \in DOMAIN s : i < j => s[i] < s[j]
  PROVE  /\ Append(s, e) \in Seq(Nat)
         /\ \A i, j \in DOMAIN Append(s, e) : i < j => Append(s, e)[i] < Append(s, e)[j]
         /\ \A i \in DOMAIN Append(s, e) : (i \in DOMAIN s /\ Append(s, e)[i] = s[i])
                                           \/ Append(s, e)[i] = e
         /\ Range(Append(s, e)) = Range(s) \cup {e}
<1> DEFINE r == Append(s, e)
<1>1. /\ r \in Seq(Nat) /\ DOMAIN s = 1..Len(s) /\ Len(s) \in Nat /\ DOMAIN r = 1..(Len(s) + 1)
      /\ \A k \in 1..Len(s) : r[k] = s[k]
      /\ r[Len(s) + 1] = e
  OBVIOUS
<1> HIDE DEF r
<1>2. ASSUME NEW i \in DOMAIN r, NEW j \in DOMAIN r, i < j PROVE r[i] < r[j]
  <2>1. i \in DOMAIN s /\ r[i] = s[i] /\ (j \in DOMAIN s \/ j = Len(s) + 1)
    BY <1>1, <1>2
  <2>2. CASE j \in DOMAIN s
    <3>1. r[j] = s[j]
      BY <1>1, <2>2
    <3> QED
      BY <1>2, <2>1, <2>2, <3>1
  <2>3. CASE j = Len(s) + 1
    <3>1. r[j] = e
      BY <1>1, <2>3
    <3> QED
      BY <2>1, <3>1
  <2> QED
    BY <2>1, <2>2, <2>3
<1>3. \A i \in DOMAIN r : (i \in DOMAIN s /\ r[i] = s[i]) \/ r[i] = e
  BY <1>1
<1>4. Range(r) = Range(s) \cup {e}
  <2>1. \A i \in DOMAIN s : i \in DOMAIN r /\ r[i] = s[i]
    BY <1>1
  <2>2. Len(s) + 1 \in DOMAIN r /\ r[Len(s) + 1] = e
    BY <1>1
  <2> QED
    BY <1>3, <2>1, <2>2, Zenon DEF Range
<1> QED
  BY <1>1, <1>2, <1>4, <1>3 DEF r

\* The node is handed an item that its FanInPipe has ahead.
LEMMA HandOutKeepsFlow ==
  ASSUME WiresTyped, FlowInv, NEW h \in Fans, HandOut(h),
         reading \in {Nothing, <<h>>}, reading' \in {Nothing, reading},
         h = fan \/ reading = <<h>>,
         UNCHANGED <<wiringVars, taken, waiting>>
  PROVE  FlowInv'
<1>1. /\ taken \in [Pipes -> Nat] /\ got \in [Pipes -> Seq(Nat)]
      /\ waiting \in [Fans -> SUBSET Pipes] /\ ahead \in [Fans -> SUBSET (Pipes \X Nat)]
  BY DEF FlowInv, PipesTyped
<1>2. PICK x \in ahead[h] :
        /\ ahead' = [ahead EXCEPT ![h] = @ \ {x}]
        /\ got' = [got EXCEPT ![x[1]] = Append(@, x[2])]
  BY DEF HandOut
<1>3. PICK p \in Pipes, k \in Nat : x[1] = p /\ x[2] = k /\ x = <<p, k>>
  BY <1>1
<1>4. /\ fan' = fan /\ made' = made /\ members' = members /\ removed' = removed
      /\ taken' = taken /\ waiting' = waiting
      /\ ahead'[h] = ahead[h] \ {x} /\ got'[p] = Append(got[p], k)
      /\ \A g \in Fans : g # h => ahead'[g] = ahead[g]
      /\ \A q \in Pipes : q # p => got'[q] = got[q]
  BY <1>1, <1>2, <1>3 DEF wiringVars
<1>5. \A i \in DOMAIN got[p] : got[p][i] < k
  BY <1>2, <1>3 DEF FlowInv, ItemsInv, Usable
<1>6. /\ got'[p] \in Seq(Nat)
      /\ \A i, j \in DOMAIN got'[p] : i < j => got'[p][i] < got'[p][j]
      /\ \A i \in DOMAIN got'[p] : (i \in DOMAIN got[p] /\ got'[p][i] = got[p][i]) \/ got'[p][i] = k
      /\ Range(got'[p]) = Range(got[p]) \cup {k}
  <2>1. got[p] \in Seq(Nat) /\ \A i, j \in DOMAIN got[p] : i < j => got[p][i] < got[p][j]
    BY <1>1 DEF FlowInv, ItemsInv
  <2> QED
    BY <1>4, <1>5, <2>1, GivenMore
<1>7. PipesTyped'
  <2>1. got' \in [Pipes -> Seq(Nat)]
    BY <1>1, <1>2, <1>3, <1>4, <1>6
  <2>2. ahead' \in [Fans -> SUBSET (Pipes \X Nat)]
    BY <1>1, <1>2
  <2> QED
    BY <1>1, <1>4, <2>1, <2>2 DEF PipesTyped
<1>8. ASSUME NEW g \in Fans
      PROVE  /\ \A a, b \in ahead'[g] : a[1] = b[1] => a = b
             /\ Sources(g)' \cap waiting'[g] = {}
             /\ ((waiting'[g] \cup Sources(g)') \cap Wires) \ removed' \subseteq members'[g]
             /\ g > made' => members'[g] = {} /\ waiting'[g] = {} /\ ahead'[g] = {}
             /\ reading' = <<g>> => g <= made'
             /\ g = fan' /\ reading' \notin {Nothing, <<g>>} => waiting'[g] = {} /\ ahead'[g] = {}
  <2>1. ahead'[g] \subseteq ahead[g]
    BY <1>4
  <2>2. Sources(g)' \subseteq Sources(g)
    BY <2>1 DEF Sources
  <2>3. <<g>> # Nothing
    BY DEF Nothing
  <2> QED
    BY <1>4, <2>1, <2>2, <2>3 DEF FlowInv, FansInv
<1>9. FansInv'
  BY <1>8, Zenon DEF FansInv
<1>10. \A g : <<g>> = <<h>> <=> g = h
  OBVIOUS
<1>11. ASSUME NEW g \in Fans, NEW y \in ahead'[g]
       PROVE  /\ y[2] <= taken'[y[1]]
              /\ Usable(g)' => \A i \in DOMAIN got'[y[1]] : got'[y[1]][i] < y[2]
  <2>1. y \in ahead[g] /\ y[1] \in Pipes
    <3>3. y \in ahead[g]
      <4>1. ahead'[g] \subseteq ahead[g]
        BY <1>4
      <4> QED
        BY <1>11, <4>1
    <3>4. ahead[g] \subseteq Pipes \X Nat
      BY <1>1
    <3> QED
      BY <3>3, <3>4
  <2>2. y[2] <= taken'[y[1]]
    BY <1>4, <2>1 DEF FlowInv, ItemsInv
  <2>3. ASSUME Usable(g)' PROVE \A i \in DOMAIN got'[y[1]] : got'[y[1]][i] < y[2]
    <3>1. Usable(g)
      <4>1. <<g>> # Nothing
        BY DEF Nothing
      <4> QED
        BY <1>4, <2>3, <4>1 DEF Usable
    <3>2. CASE y[1] # p
      BY <1>4, <2>1, <3>1, <3>2 DEF FlowInv, ItemsInv
    <3>3. CASE y[1] = p
      <4>1. CASE g = h
        BY <1>2, <1>3, <1>4, <1>11, <2>1, <3>3, <4>1 DEF FlowInv, FansInv
      <4>2. CASE g # h
        <5>1. g = fan /\ reading = <<h>> /\ reading # <<g>>
          <6>1. <<g>> # Nothing
            BY DEF Nothing
          <6> QED
            BY <1>10, <3>1, <4>2, <6>1 DEF Usable
        <5>2. <<h>> # Nothing
          BY DEF Nothing
        <5> QED
          BY <2>1, <5>1, <5>2 DEF FlowInv, FansInv
      <4> QED
        BY <4>1, <4>2
    <3> QED
      BY <3>2, <3>3
  <2> QED
    BY <2>2, <2>3
<1>12. ASSUME NEW w \in Wires \ removed', NEW n \in 1..taken'[w]
       PROVE  n \in Range(got'[w]) \/ \E g \in Fans : <<w, n>> \in ahead'[g]
  <2>1. n \in Range(got[w]) \/ \E g \in Fans : <<w, n>> \in ahead[g]
    BY <1>4, <1>12 DEF FlowInv, ItemsInv
  <2>2. n \in Range(got[w]) => n \in Range(got'[w])
    BY <1>4, <1>6, FanNumbers
  <2>3. ASSUME NEW g \in Fans, <<w, n>> \in ahead[g], <<w, n>> \notin ahead'[g]
        PROVE  n \in Range(got'[w])
    <3>1. <<w, n>> = <<p, k>>
      BY <1>3, <1>4, <2>3
    <3> QED
      BY <1>6, <3>1
  <2> QED
    BY <2>1, <2>2, <2>3
<1>13. ASSUME NEW q \in Pipes, NEW i \in DOMAIN got'[q]
       PROVE  /\ got'[q][i] <= taken'[q]
              /\ \A j \in DOMAIN got'[q] : i < j => got'[q][i] < got'[q][j]
  <2>1. k <= taken[p]
    BY <1>2, <1>3 DEF FlowInv, ItemsInv
  <2>2. CASE q = p
    <3>1. \A j \in DOMAIN got'[p] : i < j => got'[p][i] < got'[p][j]
      BY <1>6, <1>13, <2>2
    <3>2. got'[p][i] <= taken[p]
      <4>1. CASE got'[p][i] = k
        BY <2>1, <4>1
      <4>2. CASE i \in DOMAIN got[p] /\ got'[p][i] = got[p][i]
        BY <4>2 DEF FlowInv, ItemsInv
      <4> QED
        BY <1>6, <1>13, <2>2, <4>1, <4>2
    <3> QED
      BY <1>4, <2>2, <3>1, <3>2
  <2>3. CASE q # p
    BY <1>4, <1>13, <2>3 DEF FlowInv, ItemsInv
  <2> QED
    BY <2>2, <2>3
<1>14. ItemsInv'
  BY <1>11, <1>12, <1>13, Zenon DEF ItemsInv
<1> QED
  BY <1>7, <1>9, <1>14 DEF FlowInv

\* The node reads a wire, or its own pipe, directly.
LEMMA ReceiveKeepsFlow ==
  ASSUME WiresTyped, WiresInv, FlowInv, NEW p \in Pipes, Receive(p) PROVE FlowInv'
<1> DEFINE k == taken[p] + 1
<1>1. /\ taken \in [Pipes -> Nat] /\ got \in [Pipes -> Seq(Nat)]
      /\ ahead \in [Fans -> SUBSET (Pipes \X Nat)]
  BY DEF FlowInv, PipesTyped
<1>2. /\ reading = <<p>> /\ p \notin Fans /\ reading' = Nothing
      /\ taken' = [taken EXCEPT ![p] = @ + 1] /\ taken'[p] = k
      /\ got' = [got EXCEPT ![p] = Append(@, taken'[p])]
      /\ UNCHANGED <<wiringVars, waiting, ahead>>
  BY <1>1 DEF Receive, fanVars
<1>3. /\ fan' = fan /\ made' = made /\ members' = members /\ removed' = removed
      /\ ahead' = ahead /\ waiting' = waiting
      /\ got'[p] = Append(got[p], k) /\ \A q \in Pipes : q # p => got'[q] = got[q]
      /\ \A q \in Pipes : q # p => taken'[q] = taken[q]
      /\ k \in Nat /\ taken[p] \in Nat /\ k > taken[p]
  BY <1>1, <1>2 DEF wiringVars
<1> HIDE DEF k
<1>4. \A i \in DOMAIN got[p] : got[p][i] < k /\ got[p][i] \in Nat
  BY <1>1, <1>3 DEF FlowInv, ItemsInv
<1>5. /\ got'[p] \in Seq(Nat)
      /\ \A i, j \in DOMAIN got'[p] : i < j => got'[p][i] < got'[p][j]
      /\ \A i \in DOMAIN got'[p] : (i \in DOMAIN got[p] /\ got'[p][i] = got[p][i]) \/ got'[p][i] = k
      /\ Range(got'[p]) = Range(got[p]) \cup {k}
  <2>1. got[p] \in Seq(Nat) /\ \A i, j \in DOMAIN got[p] : i < j => got[p][i] < got[p][j]
    BY <1>1 DEF FlowInv, ItemsInv
  <2>2. \A i \in DOMAIN got[p] : got[p][i] < k
    BY <1>4
  <2>3. k \in Nat /\ got'[p] = Append(got[p], k)
    BY <1>3
  <2> QED
    BY <2>1, <2>2, <2>3, GivenMore, Zenon
<1>6. PipesTyped'
  <2>1. got' \in [Pipes -> Seq(Nat)] /\ taken' \in [Pipes -> Nat]
    BY <1>1, <1>2, <1>3, <1>5
  <2> QED
    BY <1>3, <2>1 DEF FlowInv, PipesTyped
<1>7. \A g \in Fans : <<g>> # <<p>> /\ <<g>> # Nothing /\ <<p>> # Nothing
  BY <1>2 DEF Nothing
<1>8. FansInv'
  BY <1>2, <1>3, <1>7 DEF FlowInv, FansInv, Sources
<1>9. \A g \in Fans : Usable(g)' => ahead[g] = {}
  BY <1>2, <1>3, <1>7 DEF Usable, FlowInv, FansInv
<1>10. ASSUME NEW g \in Fans, NEW y \in ahead'[g] PROVE y[2] <= taken'[y[1]]
  <2>1. y \in ahead[g] /\ y[1] \in Pipes /\ y[2] \in Nat /\ taken[y[1]] \in Nat
    BY <1>1, <1>3, <1>10
  <2> QED
    BY <1>2, <1>3, <2>1 DEF FlowInv, ItemsInv
<1>11. ASSUME NEW w \in Wires \ removed', NEW n \in 1..taken'[w]
       PROVE  n \in Range(got'[w]) \/ \E g \in Fans : <<w, n>> \in ahead'[g]
  <2>1. w \in Pipes /\ taken[w] \in Nat
    BY <1>1, FanNumbers
  <2>2. CASE n \in 1..taken[w]
    <3>1. n \in Range(got[w]) \/ \E g \in Fans : <<w, n>> \in ahead[g]
      BY <1>3, <1>11, <2>2 DEF FlowInv, ItemsInv
    <3> QED
      BY <1>3, <1>5, <2>1, <3>1
  <2>3. CASE n \notin 1..taken[w]
    <3>1. w = p /\ n = k
      BY <1>2, <1>3, <1>11, <2>1, <2>3 DEF k
    <3> QED
      BY <1>5, <3>1
  <2> QED
    BY <2>2, <2>3
<1>12. ASSUME NEW q \in Pipes, NEW i \in DOMAIN got'[q]
       PROVE  /\ got'[q][i] <= taken'[q]
              /\ \A j \in DOMAIN got'[q] : i < j => got'[q][i] < got'[q][j]
  BY <1>2, <1>3, <1>4, <1>5, <1>12 DEF FlowInv, ItemsInv
<1>13. ItemsInv'
  <2>1. \A g \in Fans : \A y \in ahead'[g] :
          /\ y[2] <= taken'[y[1]]
          /\ Usable(g)' => \A i \in DOMAIN got'[y[1]] : got'[y[1]][i] < y[2]
    BY <1>3, <1>9, <1>10
  <2> QED
    BY <1>11, <1>12, <2>1, Zenon DEF ItemsInv
<1> QED
  BY <1>6, <1>8, <1>13 DEF FlowInv

\* The node suspends on what the port wraps, if that is no FanInPipe.
LEMMA DirectKeepsFlow ==
  ASSUME WiresTyped, WiresInv, FlowInv, GetDirectly PROVE FlowInv'
<1>1. /\ reading = Nothing /\ port # Nothing /\ ~IsFan(port) /\ reading' = port
      /\ UNCHANGED <<fan, made, members, removed, taken, waiting, ahead, got>>
  BY DEF GetDirectly, wiringVars, fanVars
<1>2. fan \notin Fans /\ \A g \in Fans : port # <<g>>
  BY <1>1, PortReads DEF IsFan
<1>3. FansInv'
  BY <1>1, <1>2 DEF FlowInv, FansInv, Sources
<1>4. ItemsInv'
  BY <1>1, <1>2 DEF FlowInv, ItemsInv, Usable
<1> QED
  BY <1>1, <1>3, <1>4 DEF FlowInv, PipesTyped

LEMMA AbandonKeepsFlow ==
  ASSUME FlowInv, Abandon PROVE FlowInv'
<1>1. /\ reading' = Nothing
      /\ UNCHANGED <<fan, made, members, removed, taken, waiting, ahead, got>>
  BY DEF Abandon, wiringVars, fanVars
<1>2. \A g : <<g>> # Nothing
  BY DEF Nothing
<1>3. FansInv'
  BY <1>1, <1>2, Zenon DEF FlowInv, FansInv, Sources
<1>4. \A g : Usable(g)' => Usable(g)
  BY <1>1, <1>2 DEF Usable
<1>5. ItemsInv'
  BY <1>1, <1>4, Zenon DEF FlowInv, ItemsInv
<1> QED
  BY <1>1, <1>3, <1>5 DEF FlowInv, PipesTyped

\* What the node is suspended on, if it is a FanInPipe.
LEMMA ReadsFan ==
  ASSUME ReadsOnePipe, IsFan(reading)
  PROVE  reading[1] \in Fans /\ reading = <<reading[1]>>
BY DEF ReadsOnePipe, IsFan

LEMMA SameReading ==
  ASSUME ReadsOnePipe, reading' \in {Nothing, reading} PROVE ReadsOnePipe'
BY DEF ReadsOnePipe

LEMMA MadeFan ==
  ASSUME WiresTyped, fan # 0 PROVE fan \in Fans /\ fan <= made
BY FanNumbers DEF WiresTyped

\* The wiring steps.
LEMMA WiringStep ==
  ASSUME InputInv, AddInputIfUnwired \/ \E w \in Wires : AddInput(w) \/ RemoveInput(w)
  PROVE  InputInv'
<1>1. WiresTyped /\ WiresInv /\ DropsInv /\ ReadsOnePipe /\ FlowInv
  BY DEF InputInv, FlowInv
<1>2. WiresKept
  BY <1>1, AddKeepsWires, RemoveKeepsWires, OwnKeepsWires
<1>3. reading' = reading
  BY DEF AddInput, RemoveInput, AddInputIfUnwired, readVars
<1>4. ASSUME NEW w \in Wires, AddInput(w) PROVE FlowInv'
  BY <1>1, <1>2, <1>4, AddKeepsFlow DEF WiresKept
<1>5. ASSUME NEW w \in Wires, RemoveInput(w) PROVE FlowInv'
  BY <1>1, <1>5, RemoveKeepsFlow
<1>6. ASSUME AddInputIfUnwired PROVE FlowInv'
  <2>1. UNCHANGED <<fan, made, members, removed, taken, fanVars, reading, got>>
    BY <1>6 DEF AddInputIfUnwired, readVars
  <2> QED
    BY <1>1, <2>1, SameFlow
<1>7. FlowInv'
  BY <1>4, <1>5, <1>6
<1>8. ReadsOnePipe'
  BY <1>1, <1>3, SameReading
<1> QED
  BY <1>2, <1>7, <1>8 DEF WiresKept, FlowInv, InputInv

\* The steps that read.
LEMMA ReadingStep ==
  ASSUME InputInv,
         GetDirectly \/ GetAhead \/ GetMerged \/ WakeDelivers \/ WakeRearms \/ Abandon
  PROVE  InputInv'
<1>1. WiresTyped /\ WiresInv /\ DropsInv /\ ReadsOnePipe /\ FlowInv
  BY DEF InputInv, FlowInv
<1>2. UNCHANGED wiringVars
  BY DEF GetDirectly, GetAhead, GetMerged, WakeDelivers, WakeRearms, Abandon
<1>3. WiresKept
  BY <1>1, <1>2, SameWires
<1>4. ASSUME GetDirectly PROVE FlowInv' /\ ReadsOnePipe'
  <2>1. reading' = port /\ port # Nothing
    BY <1>4 DEF GetDirectly
  <2>2. ReadsOnePipe'
    BY <1>1, <2>1, PortShape DEF ReadsOnePipe
  <2> QED
    BY <1>1, <1>4, <2>2, DirectKeepsFlow
<1>5. ASSUME GetAhead PROVE FlowInv' /\ ReadsOnePipe'
  <2>1. /\ reading = Nothing /\ IsFan(port) /\ HandOut(port[1])
        /\ UNCHANGED <<wiringVars, taken, waiting>> /\ reading' = reading
    BY <1>5 DEF GetAhead
  <2>2. fan \in Fans /\ HandOut(fan)
    BY <1>1, <2>1, PortReads
  <2> QED
    BY <1>1, <2>1, <2>2, HandOutKeepsFlow, SameReading
<1>6. ASSUME GetMerged PROVE FlowInv' /\ ReadsOnePipe'
  <2>1. /\ reading = Nothing /\ IsFan(port) /\ Arm(port[1]) /\ reading' = port
        /\ UNCHANGED <<wiringVars, taken, ahead, got>>
    BY <1>6 DEF GetMerged
  <2>2. fan \in Fans /\ Arm(fan) /\ reading' = <<fan>> /\ fan # 0
    BY <1>1, <2>1, PortReads
  <2>3. fan <= made /\ fan \in Pipes
    BY <1>1, <2>2, MadeFan, FanNumbers
  <2>4. ReadsOnePipe'
    BY <2>2, <2>3 DEF ReadsOnePipe
  <2> QED
    BY <1>1, <2>1, <2>2, <2>3, <2>4, ArmKeepsFlow
<1>7. ASSUME WakeDelivers PROVE FlowInv' /\ ReadsOnePipe'
  <2>1. /\ IsFan(reading) /\ HandOut(reading[1]) /\ reading' = Nothing
        /\ UNCHANGED <<wiringVars, taken, waiting>>
    BY <1>7 DEF WakeDelivers, Woken
  <2>2. PICK h \in Fans : reading = <<h>> /\ reading[1] = h
    BY <1>1, <2>1, ReadsFan
  <2>3. HandOut(h)
    BY <2>1, <2>2
  <2> QED
    BY <1>1, <2>1, <2>2, <2>3, HandOutKeepsFlow, SameReading
<1>8. ASSUME WakeRearms PROVE FlowInv' /\ ReadsOnePipe'
  <2>1. /\ IsFan(reading) /\ Arm(reading[1]) /\ reading' = reading
        /\ UNCHANGED <<wiringVars, taken, ahead, got>>
    BY <1>8 DEF WakeRearms, Woken
  <2>2. PICK h \in Fans : reading = <<h>> /\ reading[1] = h
    BY <1>1, <2>1, ReadsFan
  <2>3. Arm(h)
    BY <2>1, <2>2
  <2>4. h <= made
    BY <1>1, <2>2 DEF FlowInv, FansInv
  <2> QED
    BY <1>1, <2>1, <2>2, <2>3, <2>4, ArmKeepsFlow, SameReading
<1>9. ASSUME Abandon PROVE FlowInv' /\ ReadsOnePipe'
  <2>1. reading' = Nothing
    BY <1>9 DEF Abandon
  <2> QED
    BY <1>1, <1>9, <2>1, AbandonKeepsFlow, SameReading
<1>10. FlowInv' /\ ReadsOnePipe'
  BY <1>4, <1>5, <1>6, <1>7, <1>8, <1>9
<1> QED
  BY <1>3, <1>10 DEF WiresKept, FlowInv, InputInv

\* The steps of the pipes.
LEMMA PipeStep ==
  ASSUME InputInv, NEW p \in Pipes,
         Put(p) \/ Receive(p) \/ \E g \in Fans : TaskTakes(g, p)
  PROVE  InputInv'
<1>1. WiresTyped /\ WiresInv /\ DropsInv /\ ReadsOnePipe /\ FlowInv
  BY DEF InputInv, FlowInv
<1>2. UNCHANGED wiringVars
  BY DEF Put, Receive, TaskTakes
<1>3. WiresKept
  BY <1>1, <1>2, SameWires
<1>4. reading' \in {Nothing, reading}
  BY DEF Put, Receive, TaskTakes, readVars
<1>5. ASSUME Put(p) PROVE FlowInv'
  BY <1>1, <1>5, SameFlow DEF Put, wiringVars, readVars
<1>6. ASSUME Receive(p) PROVE FlowInv'
  BY <1>1, <1>6, ReceiveKeepsFlow
<1>7. ASSUME NEW g \in Fans, TaskTakes(g, p) PROVE FlowInv'
  BY <1>1, <1>7, TaskKeepsFlow
<1>8. FlowInv'
  BY <1>5, <1>6, <1>7
<1> QED
  BY <1>1, <1>3, <1>4, <1>8, SameReading DEF WiresKept, FlowInv, InputInv

LEMMA InputStep ==
  ASSUME InputInv, [InputNext]_inputVars PROVE InputInv'
<1>1. CASE UNCHANGED inputVars
  <2>1. UNCHANGED <<wiringVars, taken, fanVars, reading, got>>
    BY <1>1 DEF inputVars, readVars
  <2>2. WiresTyped /\ WiresInv /\ DropsInv /\ ReadsOnePipe /\ FlowInv
    BY DEF InputInv, FlowInv
  <2>3. FlowInv'
    BY <2>1, <2>2, SameFlow DEF wiringVars
  <2>4. WiresKept
    BY <2>1, <2>2, SameWires
  <2>5. ReadsOnePipe'
    BY <2>1, <2>2, SameReading
  <2> QED
    BY <2>3, <2>4, <2>5 DEF WiresKept, FlowInv, InputInv
<1>2. CASE AddInputIfUnwired \/ \E w \in Wires : AddInput(w) \/ RemoveInput(w)
  BY <1>2, WiringStep
<1>3. CASE GetDirectly \/ GetAhead \/ GetMerged \/ WakeDelivers \/ WakeRearms \/ Abandon
  BY <1>3, ReadingStep
<1>4. CASE \E p \in Pipes : Put(p) \/ Receive(p) \/ \E g \in Fans : TaskTakes(g, p)
  BY <1>4, PipeStep
<1> QED
  BY <1>1, <1>2, <1>3, <1>4, Zenon DEF InputNext

LEMMA InputStarts ==
  ASSUME InputInit PROVE InputInv
<1>1. /\ sources = <<>> /\ placeholder = FALSE /\ fan = 0 /\ made = 0
      /\ members = [g \in Fans |-> {}] /\ port = Nothing /\ removed = {}
      /\ taken = [p \in Pipes |-> 0]
      /\ waiting = [g \in Fans |-> {}] /\ ahead = [g \in Fans |-> {}]
      /\ reading = Nothing /\ got = [p \in Pipes |-> <<>>]
      /\ collapses = [w \in Wires |-> 0]
  BY DEF InputInit
<1>2. /\ \A g : <<g>> # Nothing
      /\ \A g \in Fans : members[g] = {} /\ waiting[g] = {} /\ ahead[g] = {}
      /\ \A p \in Pipes : got[p] = <<>> /\ taken[p] = 0
  BY <1>1 DEF Nothing
<1>3. WiresTyped
  <2>1. 0 \in 0..MaxFans /\ 0 <= 0
    BY FanNumbers
  <2>2. /\ <<>> \in Seq(Places) /\ FALSE \in BOOLEAN /\ {} \subseteq Wires
        /\ [g \in Fans |-> {}] \in [Fans -> SUBSET Wires]
        /\ [w \in Wires |-> 0] \in [Wires -> Nat]
    OBVIOUS
  <2> QED
    BY <1>1, <2>1, <2>2, Zenon DEF WiresTyped
<1>4. WiresInv
  <2>1. Len(sources) = 0 /\ DOMAIN sources = {} /\ Range(sources) = {}
    BY <1>1 DEF Range
  <2> QED
    BY <1>1, <2>1 DEF WiresInv, Different
<1>5. DropsInv
  <2>1. \A w : Dropped(w) = {}
    BY <1>1 DEF Dropped
  <2>2. Cardinality({}) = 0
    BY FS_EmptySet
  <2>3. \A w \in Wires : collapses[w] = 0
    BY <1>1
  <2> QED
    BY <2>1, <2>2, <2>3 DEF DropsInv
<1>6. PipesTyped
  BY <1>1 DEF PipesTyped
<1>7. FansInv
  BY <1>1, <1>2 DEF FansInv, Sources
<1>8. ItemsInv
  <2>1. \A p \in Pipes : DOMAIN got[p] = {}
    BY <1>2
  <2>2. \A w \in Wires : 1..taken[w] = {}
    BY <1>2, FanNumbers
  <2> QED
    BY <1>2, <2>1, <2>2 DEF ItemsInv
<1> QED
  BY <1>1, <1>3, <1>4, <1>5, <1>6, <1>7, <1>8 DEF InputInv, ReadsOnePipe

LEMMA InputAlways == InputSpec => []InputInv
<1>1. InputInit => InputInv
  BY InputStarts
<1>2. InputInv /\ [InputNext]_inputVars => InputInv'
  BY InputStep
<1> QED
  BY <1>1, <1>2, PTL DEF InputSpec

\* An item that is neither with the node nor within its reach is in a FanInPipe
\* that was dropped, and no two of them are in the same one.
LEMMA OneLostPerDrop ==
  ASSUME InputInv, NEW w \in Wires \ removed
  PROVE  Cardinality(Missing(w)) <= collapses[w]
<1>1. WiresTyped /\ WiresInv /\ DropsInv /\ PipesTyped /\ FansInv /\ ItemsInv
  BY DEF InputInv
<1>2. /\ taken \in [Pipes -> Nat] /\ made \in 0..MaxFans /\ w \in Pipes /\ w \in Wires
      /\ w \notin removed /\ collapses[w] \in Nat
  BY <1>1, FanNumbers DEF WiresTyped, PipesTyped
<1>3. IsFiniteSet(Missing(w)) /\ Cardinality(Missing(w)) \in Nat
  <2>1. Missing(w) \subseteq 1..taken[w]
    BY DEF Missing
  <2>2. IsFiniteSet(1..taken[w])
    BY <1>2, FS_Interval
  <2> QED
    BY <2>1, <2>2, FS_Subset, FS_CardinalityType
<1>4. IsFiniteSet(Dropped(w)) /\ Cardinality(Dropped(w)) \in Nat
  <2>1. Dropped(w) \subseteq 1..made
    BY DEF Dropped
  <2>2. IsFiniteSet(1..made)
    BY <1>2, FS_Interval, FanNumbers
  <2> QED
    BY <2>1, <2>2, FS_Subset, FS_CardinalityType
<1>5. ASSUME NEW m \in Missing(w) PROVE \E g \in Dropped(w) : g \in Fans /\ <<w, m>> \in ahead[g]
  <2>1. m \in 1..taken[w] /\ m \notin Range(got[w]) /\ m \notin Within(w)
    BY <1>5 DEF Missing
  <2>2. PICK g \in Fans : <<w, m>> \in ahead[g]
    BY <1>1, <1>2, <2>1 DEF ItemsInv
  <2>3. <<g>> # port
    <3>1. ASSUME <<g>> = port PROVE m \in Within(w)
      <4>1. m \in {x[2] : x \in {y \in ahead[g] : y[1] = w}}
        BY <2>2
      <4>2. g \in {h \in Fans : <<h>> \in {port, reading}}
        BY <3>1
      <4> QED
        BY <4>1, <4>2 DEF Within
    <3> QED
      BY <2>1, <3>1
  <2>4. g # fan
    <3>1. 0 \notin Fans
      BY FanNumbers
    <3> QED
      BY <1>1, <2>3, <3>1, PortReads
  <2>5. g \in 1..made
    <3>1. ~(g > made) /\ g \in Nat \ {0} /\ made \in Nat
      BY <1>1, <1>2, <2>2, FanNumbers DEF FansInv
    <3> QED
      BY <3>1
  <2>6. w \in members[g]
    <3>1. w \in Sources(g)
      <4>1. <<w, m>>[1] = w
        OBVIOUS
      <4> QED
        BY <2>2, <4>1 DEF Sources
    <3> QED
      BY <1>1, <1>2, <3>1 DEF FansInv
  <2> QED
    BY <2>2, <2>4, <2>5, <2>6 DEF Dropped
<1> DEFINE f == [m \in Missing(w) |-> CHOOSE g \in Dropped(w) : g \in Fans /\ <<w, m>> \in ahead[g]]
<1>6. \A m \in Missing(w) : f[m] \in Dropped(w) /\ f[m] \in Fans /\ <<w, m>> \in ahead[f[m]]
  BY <1>5
<1>7. f \in [Missing(w) -> Dropped(w)]
  BY <1>6
<1> HIDE DEF f
<1>8. ASSUME NEW m \in Missing(w), NEW n \in Missing(w), f[m] = f[n] PROVE m = n
  <2>1. PICK g \in Fans : <<w, m>> \in ahead[g] /\ <<w, n>> \in ahead[g]
    BY <1>6, <1>8
  <2>2. <<w, m>>[1] = <<w, n>>[1]
    OBVIOUS
  <2>3. <<w, m>> = <<w, n>>
    BY <1>1, <2>1, <2>2 DEF FansInv
  <2> QED
    BY <2>3
<1>9. ~(Cardinality(Dropped(w)) < Cardinality(Missing(w)))
  BY <1>3, <1>4, <1>7, <1>8, FS_PigeonHole
<1>10. Cardinality(Dropped(w)) <= collapses[w]
  BY <1>1, <1>2 DEF DropsInv
<1> QED
  BY <1>2, <1>3, <1>4, <1>9, <1>10

\* Whatever was wired and unwired in between, the port reads just the wires
\* there are; what a wire that is there brings reaches the node in order, and
\* it loses at most one item each time a FanInPipe was dropped for it.
THEOREM InputKept == InputSpec => []InputPortKept
<1>1. ASSUME InputInv PROVE InputPortKept
  <2>1. WiresTyped /\ WiresInv /\ ItemsInv
    BY <1>1 DEF InputInv
  <2>2. ReadsWhatIsWired
    BY <2>1 DEF WiresInv, ReadsWhatIsWired
  <2>3. OnlyCollapsesLose
    <3> SUFFICES ASSUME NEW w \in Wires \ removed
                 PROVE  /\ \A i, j \in DOMAIN got[w] : i < j => got[w][i] < got[w][j]
                        /\ Cardinality(Missing(w)) <= collapses[w]
      BY Zenon DEF OnlyCollapsesLose
    <3>1. \A i, j \in DOMAIN got[w] : i < j => got[w][i] < got[w][j]
      BY <2>1, FanNumbers DEF ItemsInv
    <3> QED
      BY <1>1, <3>1, OneLostPerDrop
  <2> QED
    BY <2>2, <2>3 DEF InputPortKept
<1> QED
  BY <1>1, InputAlways, PTL

-----------------------------------------------------------------------------
(* The output port.                                                        *)

Payloads == {"bare", "whole"} \X Nat

OutputTyped ==
  /\ outputs \in Seq(OutPipes \X Kinds) /\ ownPlaced \in BOOLEAN
  /\ drawn \subseteq Consumers \X Kinds
  /\ puts \in Seq(OutPipes \X Payloads)
  /\ received \in [OutPipes -> Seq(Payloads)] /\ due \in [OutPipes -> Seq(Payloads)]
  /\ last \in Seq(Nat) /\ emitted \in Nat

\* The node's own pipe is there alone; otherwise the port has just the wires
\* that are drawn, and none of them twice.
OutputsInv ==
  /\ Different(outputs)
  /\ \A x, y \in Range(outputs) : x[1] = y[1] => x = y
  /\ ownPlaced => outputs = <<<<OwnOut, "data">>>> /\ drawn = {}
  /\ ~ownPlaced => Range(outputs) = drawn

\* The newest record with an item is that of the last emission.
RecordsInv ==
  /\ \A i \in DOMAIN last :
       last[i] # 0 /\ (\A k \in DOMAIN last : k > i => last[k] = 0) => last[i] = newest
  /\ stale = FALSE

OutputInv == OutputTyped /\ OutputsInv /\ EachConsumerGetsAll /\ RecordsInv

\* A sequence of the members of a set with one element, or none.
LEMMA SequenceOfOne ==
  /\ SetToSeq({}) = <<>>
  /\ \A x : SetToSeq({x}) = <<x>>
<1>1. SetToSeq({}) = <<>>
  <2>1. Cardinality({}) = 0
    BY FS_EmptySet
  <2>2. <<>> \in [1..0 -> {}] /\ IsInjective(<<>>)
    BY DEF IsInjective
  <2>3. SetToSeq({}) \in [1..0 -> {}]
    BY <2>1, <2>2 DEF SetToSeq
  <2> QED
    BY <2>3
<1>2. ASSUME NEW x PROVE SetToSeq({x}) = <<x>>
  <2>1. Cardinality({x}) = 1
    BY FS_Singleton
  <2>2. <<x>> \in [1..1 -> {x}] /\ IsInjective(<<x>>)
    BY DEF IsInjective
  <2>3. SetToSeq({x}) \in [1..1 -> {x}]
    BY <2>1, <2>2 DEF SetToSeq
  <2> HIDE DEF SetToSeq
  <2>4. ASSUME NEW f \in [1..1 -> {x}] PROVE f = <<x>>
    <3>1. f \in Seq({x}) /\ Len(f) = 1 /\ f[1] = x
      OBVIOUS
    <3> QED
      BY <3>1
  <2> QED
    BY <2>3, <2>4
<1> QED
  BY <1>1, <1>2

\* Those of the first n puts of s that are for p, and how many there are.
For(s, p, n) == {i \in 1..n : s[i][1] = p}

LEMMA CountFor ==
  ASSUME NEW S, NEW s \in Seq(S), NEW p, NEW n \in Nat
  PROVE  /\ IsFiniteSet(For(s, p, n)) /\ Cardinality(For(s, p, n)) \in Nat
         /\ \A i \in For(s, p, n) :
              /\ For(s, p, i) \subseteq For(s, p, n) /\ i \in For(s, p, i)
              /\ Cardinality(For(s, p, i)) \in 1..Cardinality(For(s, p, n))
<1>1. ASSUME NEW m \in Nat
      PROVE  IsFiniteSet(For(s, p, m)) /\ Cardinality(For(s, p, m)) \in Nat
  <2>1. For(s, p, m) \subseteq 1..m
    BY DEF For
  <2>2. IsFiniteSet(1..m)
    BY FS_Interval
  <2> QED
    BY <2>1, <2>2, FS_Subset, FS_CardinalityType
<1>2. ASSUME NEW i \in For(s, p, n)
      PROVE  /\ For(s, p, i) \subseteq For(s, p, n) /\ i \in For(s, p, i)
             /\ Cardinality(For(s, p, i)) \in 1..Cardinality(For(s, p, n))
  <2>1. i \in Nat /\ For(s, p, i) \subseteq For(s, p, n) /\ i \in For(s, p, i)
    BY DEF For
  <2>2. Cardinality(For(s, p, i)) <= Cardinality(For(s, p, n))
    BY <1>1, <2>1, FS_Subset
  <2>3. Cardinality(For(s, p, i)) # 0
    BY <1>1, <2>1, FS_EmptySet
  <2>4. Cardinality(For(s, p, i)) \in Nat /\ Cardinality(For(s, p, n)) \in Nat
    BY <1>1, <2>1
  <2>5. \A a, b \in Nat : a <= b /\ a # 0 => a \in 1..b
    OBVIOUS
  <2>6. Cardinality(For(s, p, i)) \in 1..Cardinality(For(s, p, n))
    BY <2>2, <2>3, <2>4, <2>5
  <2> QED
    BY <2>1, <2>6
<1> QED
  BY <1>1, <1>2

\* The first put is no longer pending: the others are one further to the front.
LEMMA CountTail ==
  ASSUME NEW S, NEW s \in Seq(S), s # <<>>, NEW p, NEW n \in 0..(Len(s) - 1)
  PROVE  Cardinality(For(s, p, n + 1)) =
           Cardinality(For(Tail(s), p, n)) + (IF s[1][1] = p THEN 1 ELSE 0)
<1> DEFINE A == For(Tail(s), p, n)
           B == For(s, p, n + 1) \ {1}
<1>1. /\ Len(s) \in Nat \ {0} /\ n \in Nat /\ Len(Tail(s)) = Len(s) - 1
      /\ \A i \in 1..n : Tail(s)[i] = s[i + 1]
  OBVIOUS
<1>2. A = {i \in 1..n : s[i + 1][1] = p}
  BY <1>1 DEF For
<1>3. B = {i \in 2..(n + 1) : s[i][1] = p}
  BY <1>1 DEF For
<1>4. 1 \in For(s, p, n + 1) <=> s[1][1] = p
  BY <1>1 DEF For
<1>5. IsFiniteSet(A)
  <2>1. A \subseteq 1..n
    BY <1>2
  <2>2. IsFiniteSet(1..n)
    BY <1>1, FS_Interval
  <2> QED
    BY <2>1, <2>2, FS_Subset
<1>6. IsFiniteSet(For(s, p, n + 1)) /\ Cardinality(For(s, p, n + 1)) \in Nat
  BY <1>1, CountFor
<1>7. Cardinality(B) = IF s[1][1] = p THEN Cardinality(For(s, p, n + 1)) - 1
                                      ELSE Cardinality(For(s, p, n + 1))
  BY <1>4, <1>6, FS_RemoveElement
<1> HIDE DEF A, B
<1>8. Cardinality(B) = Cardinality(A)
  <2> DEFINE f == [i \in A |-> i + 1]
  <2>1. f \in [A -> B]
    BY <1>1, <1>2, <1>3
  <2>2. \A a, b \in A : f[a] = f[b] => a = b
    BY <1>1, <1>2
  <2>3. \A b \in B : \E a \in A : f[a] = b
    <3> SUFFICES ASSUME NEW b \in B PROVE b - 1 \in A /\ f[b - 1] = b
      OBVIOUS
    <3>1. b \in 2..(n + 1) /\ s[b][1] = p
      BY <1>3
    <3>2. b - 1 \in 1..n /\ (b - 1) + 1 = b
      BY <1>1, <3>1
    <3>3. b - 1 \in A
      BY <1>2, <3>1, <3>2
    <3> QED
      BY <3>2, <3>3
  <2>4. DOMAIN f = A
    OBVIOUS
  <2> HIDE DEF f
  <2>5. f \in Bijection(A, B)
    BY <2>1, <2>2, <2>3, <2>4 DEF Bijection, Injection, Surjection, IsInjective
  <2> QED
    BY <1>5, <2>5, FS_Bijection DEF ExistsBijection
<1> QED
  BY <1>6, <1>7, <1>8 DEF A

LEMMA DueToOutputs ==
  ASSUME OutputTyped, OutputsInv PROVE DueTo = Range(outputs)
<1>1. CASE ownPlaced
  <2>1. Range(<<<<OwnOut, "data">>>>) = {<<OwnOut, "data">>}
    BY DEF Range
  <2> QED
    BY <1>1, <2>1 DEF OutputsInv, DueTo
<1>2. CASE ~ownPlaced
  BY <1>2 DEF OutputsInv, DueTo
<1> QED
  BY <1>1, <1>2

\* What an emission makes of the puts, for the n-th put or an earlier one: at
\* most one put of the item for each pipe.
LEMMA EmitPuts ==
  ASSUME OutputTyped, OutputsInv, EachConsumerGetsAll, NEW item \in Nat, EmitItem(item)
  PROVE  /\ puts' \in Seq(OutPipes \X Payloads) /\ due' \in [OutPipes -> Seq(Payloads)]
         /\ EachConsumerGetsAll'
<1> DEFINE news == [i \in DOMAIN outputs |-> <<outputs[i][1], Payload(item, outputs[i][2])>>]
           more(p) == SetToSeq({Payload(item, x[2]) : x \in {y \in Range(outputs) : y[1] = p}})
           L == Len(puts)
<1>1. /\ outputs \in Seq(OutPipes \X Kinds) /\ puts \in Seq(OutPipes \X Payloads)
      /\ received \in [OutPipes -> Seq(Payloads)] /\ due \in [OutPipes -> Seq(Payloads)]
  BY DEF OutputTyped
<1>2. \A kind \in Kinds : Payload(item, kind) \in Payloads
  BY DEF Payload, Payloads, Kinds
<1>3. /\ puts' = puts \o news /\ received' = received
      /\ due' = [p \in OutPipes |-> due[p] \o more(p)]
  BY DueToOutputs DEF EmitItem
<1>4. /\ Len(outputs) \in Nat /\ DOMAIN outputs = 1..Len(outputs) /\ L \in Nat
      /\ \A i \in 1..Len(outputs) : outputs[i][1] \in OutPipes /\ outputs[i][2] \in Kinds
  BY <1>1
<1>5. /\ news \in Seq(OutPipes \X Payloads) /\ Len(news) = Len(outputs)
      /\ \A i \in 1..Len(outputs) : news[i][1] = outputs[i][1]
                                    /\ news[i][2] = Payload(item, outputs[i][2])
  <2>1. \A i \in 1..Len(outputs) : news[i] \in OutPipes \X Payloads
    BY <1>2, <1>4
  <2>2. news = [i \in 1..Len(outputs) |-> news[i]]
    BY <1>4
  <2>3. news \in [1..Len(outputs) -> OutPipes \X Payloads]
    BY <2>1, <2>2
  <2>4. news \in Seq(OutPipes \X Payloads) /\ Len(news) = Len(outputs)
    BY <1>4, <2>3
  <2>5. \A i \in 1..Len(outputs) : news[i][1] = outputs[i][1]
                                   /\ news[i][2] = Payload(item, outputs[i][2])
    BY <1>4
  <2> QED
    BY <2>4, <2>5
<1> HIDE DEF news
<1>6. /\ puts' \in Seq(OutPipes \X Payloads) /\ Len(puts') = L + Len(outputs)
      /\ \A i \in 1..L : puts'[i] = puts[i]
      /\ \A i \in (L + 1)..(L + Len(outputs)) : puts'[i] = news[i - L]
  <2>1. /\ puts' \in Seq(OutPipes \X Payloads) /\ Len(puts') = L + Len(outputs)
        /\ \A k \in 1..(L + Len(outputs)) : puts'[k] = IF k <= L THEN puts[k] ELSE news[k - L]
    <3>1. /\ puts \o news \in Seq(OutPipes \X Payloads)
          /\ Len(puts \o news) = Len(puts) + Len(news)
          /\ \A k \in 1..(Len(puts) + Len(news)) :
               (puts \o news)[k] = IF k <= Len(puts) THEN puts[k] ELSE news[k - Len(puts)]
      <4>1. puts \in Seq(OutPipes \X Payloads) /\ news \in Seq(OutPipes \X Payloads)
        BY <1>1, <1>5
      <4> QED
        BY <4>1, Joined, Zenon
    <3> QED
      BY <1>3, <1>5, <3>1
  <2> HIDE DEF L
  <2>2. \A i \in 1..L : i \in 1..(L + Len(outputs)) /\ i <= L
    BY <1>4
  <2>3. \A i \in (L + 1)..(L + Len(outputs)) : i \in 1..(L + Len(outputs)) /\ ~(i <= L)
    BY <1>4
  <2> QED
    BY <2>1, <2>2, <2>3 DEF L
<1> HIDE DEF L
<1>7. ASSUME NEW p \in OutPipes
      PROVE  /\ due'[p] \in Seq(Payloads)
             /\ Len(due'[p]) = Len(received'[p]) + Cardinality(For(puts', p, Len(puts')))
             /\ \A k \in DOMAIN received'[p] : received'[p][k] = due'[p][k]
             /\ \A i \in For(puts', p, Len(puts')) :
                  puts'[i][2] = due'[p][Len(received'[p]) + Cardinality(For(puts', p, i))]
  <2> DEFINE all == For(puts, p, L)
             R == Len(received[p])
  <2>1. /\ due[p] \in Seq(Payloads) /\ received[p] \in Seq(Payloads)
        /\ R \in Nat /\ DOMAIN received[p] = 1..R
    BY <1>1
  <2>2. /\ Len(due[p]) = R + Cardinality(all)
        /\ \A k \in DOMAIN received[p] : received[p][k] = due[p][k]
        /\ \A i \in all : puts[i][2] = due[p][R + Cardinality(For(puts, p, i))]
    BY <1>1, <1>4 DEF EachConsumerGetsAll, Pending, For, L
  <2>3. /\ IsFiniteSet(all) /\ Cardinality(all) \in Nat
        /\ \A i \in all : Cardinality(For(puts, p, i)) \in 1..Cardinality(all)
    BY <1>1, <1>4, CountFor
  <2>4. \A i \in 1..L : For(puts', p, i) = For(puts, p, i)
    BY <1>4, <1>6 DEF For
  <2>5. received'[p] = received[p] /\ due'[p] = due[p] \o more(p)
    BY <1>3
  <2>6. For(puts', p, Len(puts')) =
          all \cup {i \in (L + 1)..(L + Len(outputs)) : news[i - L][1] = p}
    <3>1. \A i \in 1..(L + Len(outputs)) : i \in 1..L \/ i \in (L + 1)..(L + Len(outputs))
      BY <1>4
    <3>2. \A i : i \in 1..L \/ i \in (L + 1)..(L + Len(outputs)) => i \in 1..(L + Len(outputs))
      BY <1>4
    <3> QED
      BY <1>6, <3>1, <3>2 DEF For
  <2>7. \A k \in 1..Len(outputs) : (k + L) - L = k /\ k + L \in (L + 1)..(L + Len(outputs))
    BY <1>4
  <2>8. \A i \in (L + 1)..(L + Len(outputs)) : i - L \in 1..Len(outputs) /\ (i - L) + L = i
    BY <1>4
  <2>9. \A i \in all : i \in 1..L
    BY DEF For
  <2> HIDE DEF R, more, all
  <2>10. CASE \A k \in 1..Len(outputs) : outputs[k][1] # p
    <3>1. For(puts', p, Len(puts')) = all
      BY <1>5, <2>6, <2>8, <2>10
    <3>2. {y \in Range(outputs) : y[1] = p} = {}
      BY <1>4, <2>10 DEF Range
    <3>3. {Payload(item, x[2]) : x \in {y \in Range(outputs) : y[1] = p}} = {}
      BY <3>2
    <3>4. more(p) = <<>>
      BY <3>3, SequenceOfOne DEF more
    <3>5. due'[p] = due[p]
      BY <2>1, <2>5, <3>4
    <3> QED
      BY <1>6, <2>1, <2>2, <2>4, <2>5, <2>9, <3>1, <3>5 DEF R
  <2>11. ASSUME NEW j \in 1..Len(outputs), outputs[j][1] = p
         PROVE  /\ due'[p] \in Seq(Payloads)
                /\ Len(due'[p]) = Len(received'[p]) + Cardinality(For(puts', p, Len(puts')))
                /\ \A k \in DOMAIN received'[p] : received'[p][k] = due'[p][k]
                /\ \A i \in For(puts', p, Len(puts')) :
                     puts'[i][2] = due'[p][Len(received'[p]) + Cardinality(For(puts', p, i))]
    <3> DEFINE n == j + L
               e == Payload(item, outputs[j][2])
    <3>1. \A k \in 1..Len(outputs) : outputs[k][1] = p => k = j
      <4>1. \A k \in 1..Len(outputs) : outputs[k] \in Range(outputs)
        BY <1>4 DEF Range
      <4> QED
        BY <1>4, <2>11, <4>1 DEF OutputsInv, Different
    <3>2. {y \in Range(outputs) : y[1] = p} = {outputs[j]}
      BY <1>4, <2>11, <3>1 DEF Range
    <3>3. {Payload(item, x[2]) : x \in {y \in Range(outputs) : y[1] = p}} = {e}
      BY <3>2
    <3>4. more(p) = <<e>> /\ e \in Payloads
      BY <1>2, <1>4, <3>3, SequenceOfOne DEF more
    <3>5. For(puts', p, Len(puts')) = all \cup {n} /\ n \notin all /\ n \in Nat
      <4>1. {i \in (L + 1)..(L + Len(outputs)) : news[i - L][1] = p} = {n}
        <5>1. n \in (L + 1)..(L + Len(outputs)) /\ n - L = j
          BY <2>7, <2>11
        <5>2. news[j][1] = p
          BY <1>5, <2>11
        <5>3. \A i \in (L + 1)..(L + Len(outputs)) : news[i - L][1] = p => i = n
          BY <1>5, <2>8, <3>1
        <5> QED
          BY <5>1, <5>2, <5>3
      <4>2. n \notin 1..L
        BY <1>4
      <4> QED
        BY <1>4, <2>6, <2>9, <4>1, <4>2
    <3>6. For(puts', p, n) = all \cup {n}
      <4>1. \A i \in all : i \in 1..n
        BY <1>4, <2>9
      <4>2. n \in 1..n
        BY <1>4
      <4>3. For(puts', p, n) \subseteq For(puts', p, Len(puts'))
        BY <1>4, <1>6 DEF For
      <4>4. \A i \in all \cup {n} : puts'[i][1] = p
        BY <3>5 DEF For
      <4>5. all \cup {n} \subseteq For(puts', p, n)
        BY <4>1, <4>2, <4>4 DEF For
      <4> QED
        BY <3>5, <4>3, <4>5
    <3>7. Cardinality(all \cup {n}) = Cardinality(all) + 1
      BY <2>3, <3>5, FS_AddElement
    <3>8. puts'[n][2] = e
      BY <1>5, <1>6, <2>7, <2>11
    <3> HIDE DEF e, n
    <3>9. /\ due'[p] \in Seq(Payloads) /\ Len(due'[p]) = Len(due[p]) + 1
          /\ \A k \in 1..Len(due[p]) : due'[p][k] = due[p][k]
          /\ due'[p][Len(due[p]) + 1] = e
      <4>1. due'[p] = Append(due[p], e)
        BY <2>1, <2>5, <3>4
      <4> QED
        BY <2>1, <3>4, <4>1
    <3>10. \A m \in 1..Cardinality(all) : R + m \in 1..Len(due[p])
      BY <2>1, <2>2, <2>3
    <3>11. Len(due'[p]) = R + (Cardinality(all) + 1)
      BY <2>1, <2>2, <2>3, <3>9
    <3>12. \A k \in DOMAIN received[p] : k \in 1..Len(due[p])
      BY <2>1, <2>2, <2>3
    <3>13. \A i \in all : puts'[i][2] = due'[p][R + Cardinality(For(puts', p, i))]
      <4> TAKE i \in all
      <4>1. For(puts', p, i) = For(puts, p, i) /\ puts'[i] = puts[i]
        BY <1>6, <2>4, <2>9
      <4>2. R + Cardinality(For(puts, p, i)) \in 1..Len(due[p])
        BY <2>3, <3>10
      <4> QED
        BY <2>2, <3>9, <4>1, <4>2
    <3>14. puts'[n][2] = due'[p][R + Cardinality(For(puts', p, n))]
      <4>1. R + (Cardinality(all) + 1) = Len(due[p]) + 1
        BY <2>1, <2>2, <2>3
      <4> QED
        BY <3>6, <3>7, <3>8, <3>9, <4>1
    <3> QED
      BY <2>2, <2>5, <3>5, <3>7, <3>9, <3>11, <3>12, <3>13, <3>14 DEF R
  <2> QED
    BY <2>10, <2>11
<1>8. due' \in [OutPipes -> Seq(Payloads)]
  <2>1. DOMAIN due' = OutPipes /\ due' = [p \in OutPipes |-> due'[p]]
    BY <1>3
  <2> QED
    BY <1>7, <2>1
<1>9. EachConsumerGetsAll'
  BY <1>7, Zenon DEF EachConsumerGetsAll, Pending, For
<1> QED
  BY <1>6, <1>8, <1>9

\* An item that arrives is no longer pending.
LEMMA PutArrives ==
  ASSUME OutputTyped, EachConsumerGetsAll, PutRuns
  PROVE  /\ puts' \in Seq(OutPipes \X Payloads) /\ received' \in [OutPipes -> Seq(Payloads)]
         /\ EachConsumerGetsAll'
<1>1. /\ puts \in Seq(OutPipes \X Payloads) /\ puts # <<>>
      /\ received \in [OutPipes -> Seq(Payloads)] /\ due \in [OutPipes -> Seq(Payloads)]
      /\ puts' = Tail(puts) /\ due' = due
      /\ received' = [received EXCEPT ![Head(puts)[1]] = Append(@, Head(puts)[2])]
  BY DEF OutputTyped, PutRuns
<1>2. /\ Len(puts) \in Nat \ {0} /\ Head(puts) = puts[1] /\ puts[1] \in OutPipes \X Payloads
      /\ puts' \in Seq(OutPipes \X Payloads) /\ Len(puts') = Len(puts) - 1
      /\ \A i \in 1..(Len(puts) - 1) : puts'[i] = puts[i + 1]
  BY <1>1
<1>3. PICK q \in OutPipes, e \in Payloads : puts[1][1] = q /\ puts[1][2] = e
  BY <1>2
<1>4. /\ received'[q] = Append(received[q], e)
      /\ \A p \in OutPipes : p # q => received'[p] = received[p]
      /\ received' \in [OutPipes -> Seq(Payloads)]
  BY <1>1, <1>2, <1>3
<1>5. ASSUME NEW p \in OutPipes
      PROVE  /\ Len(due[p]) = Len(received'[p]) + Cardinality(For(puts', p, Len(puts')))
             /\ \A k \in DOMAIN received'[p] : received'[p][k] = due[p][k]
             /\ \A i \in For(puts', p, Len(puts')) :
                  puts'[i][2] = due[p][Len(received'[p]) + Cardinality(For(puts', p, i))]
  <2> DEFINE R == Len(received[p])
             N == Len(puts)
             one == IF p = q THEN 1 ELSE 0
  <2>1. /\ Len(due[p]) = R + Cardinality(For(puts, p, N))
        /\ \A k \in DOMAIN received[p] : received[p][k] = due[p][k]
        /\ \A i \in For(puts, p, N) : puts[i][2] = due[p][R + Cardinality(For(puts, p, i))]
    BY DEF EachConsumerGetsAll, Pending, For
  <2>2. ASSUME NEW n \in 0..(N - 1)
        PROVE  /\ Cardinality(For(puts, p, n + 1)) = Cardinality(For(puts', p, n)) + one
               /\ Cardinality(For(puts', p, n)) \in Nat
    <3>1. Cardinality(For(puts, p, n + 1)) =
            Cardinality(For(Tail(puts), p, n)) + (IF puts[1][1] = p THEN 1 ELSE 0)
      BY <1>1, CountTail
    <3>2. n \in Nat
      BY <1>2
    <3>3. Cardinality(For(puts', p, n)) \in Nat
      BY <1>2, <3>2, CountFor
    <3> QED
      BY <1>1, <1>3, <3>1, <3>3
  <2>3. /\ R \in Nat /\ received[p] \in Seq(Payloads) /\ DOMAIN received[p] = 1..R
        /\ N - 1 \in 0..(N - 1) /\ (N - 1) + 1 = N
    BY <1>1, <1>2
  <2>4. /\ Len(received'[p]) = R + one
        /\ \A k \in 1..R : received'[p][k] = received[p][k]
        /\ p = q => received'[p][R + 1] = e
        /\ DOMAIN received'[p] = 1..(R + one)
    <3>1. CASE p = q
      BY <1>4, <2>3, <3>1
    <3>2. CASE p # q
      BY <1>4, <2>3, <3>2
    <3> QED
      BY <3>1, <3>2
  <2> HIDE DEF R, N
  <2>5. Len(due[p]) = Len(received'[p]) + Cardinality(For(puts', p, Len(puts')))
    <3>1. /\ Cardinality(For(puts, p, N)) = Cardinality(For(puts', p, N - 1)) + one
          /\ Cardinality(For(puts', p, N - 1)) \in Nat
      BY <2>2, <2>3
    <3>2. Len(puts') = N - 1
      BY <1>2 DEF N
    <3> QED
      BY <2>1, <2>3, <2>4, <3>1, <3>2
  <2>6. \A k \in DOMAIN received'[p] : received'[p][k] = due[p][k]
    <3>1. CASE p # q
      BY <2>1, <2>3, <2>4, <3>1
    <3>2. CASE p = q
      <4>1. 1 \in For(puts, p, N) /\ For(puts, p, 1) = {1} /\ Cardinality(For(puts, p, 1)) = 1
        <5>1. 1 \in For(puts, p, N) /\ For(puts, p, 1) = {1}
          BY <1>2, <1>3, <3>2 DEF For, N
        <5> QED
          BY <5>1, FS_Singleton
      <4>2. e = due[p][R + 1]
        BY <1>3, <2>1, <4>1
      <4>3. \A k \in 1..(R + 1) : k \in 1..R \/ k = R + 1
        BY <2>3
      <4> QED
        BY <2>1, <2>3, <2>4, <3>2, <4>2, <4>3
    <3> QED
      BY <3>1, <3>2
  <2>7. ASSUME NEW i \in For(puts', p, Len(puts'))
        PROVE  puts'[i][2] = due[p][Len(received'[p]) + Cardinality(For(puts', p, i))]
    <3>1. /\ i \in 1..(N - 1) /\ puts'[i] = puts[i + 1] /\ puts'[i][1] = p
      BY <1>2 DEF For, N
    <3>2. i + 1 \in For(puts, p, N) /\ i \in 0..(N - 1)
      BY <1>2, <3>1 DEF For, N
    <3>3. puts[i + 1][2] = due[p][R + Cardinality(For(puts, p, i + 1))]
      BY <2>1, <3>2
    <3>4. R + Cardinality(For(puts, p, i + 1)) = (R + one) + Cardinality(For(puts', p, i))
      BY <2>2, <2>3, <3>2
    <3> QED
      BY <2>4, <3>1, <3>3, <3>4
  <2> QED
    BY <2>5, <2>6, <2>7
<1>6. EachConsumerGetsAll'
  BY <1>1, <1>5, Zenon DEF EachConsumerGetsAll, Pending, For
<1> QED
  BY <1>2, <1>4, <1>6

\* What the wiring steps leave alone is all that EachConsumerGetsAll is about.
LEMMA SameDeliveries ==
  ASSUME EachConsumerGetsAll, UNCHANGED <<puts, received, due>> PROVE EachConsumerGetsAll'
<1>1. puts' = puts /\ received' = received /\ due' = due
  OBVIOUS
<1> QED
  BY <1>1, SMTT(40) DEF EachConsumerGetsAll, Pending

LEMMA SameRecords ==
  ASSUME RecordsInv, UNCHANGED <<last, newest, stale>> PROVE RecordsInv'
BY DEF RecordsInv

LEMMA OwnOutput ==
  /\ <<OwnOut, "data">> \in OutPipes \X Kinds
  /\ Range(<<<<OwnOut, "data">>>>) = {<<OwnOut, "data">>} /\ Len(<<<<OwnOut, "data">>>>) = 1
  /\ Different(<<<<OwnOut, "data">>>>) /\ <<<<OwnOut, "data">>>> \in Seq(OutPipes \X Kinds)
  /\ \A p \in Consumers : p # OwnOut /\ p \in OutPipes
  /\ <<>> \in Seq(OutPipes \X Kinds) /\ Range(<<>>) = {} /\ Different(<<>>)
BY OutputPortAssumption DEF OutPipes, Kinds, Range, Different

LEMMA AddKeepsOutputs ==
  ASSUME OutputTyped, OutputsInv, NEW p \in Consumers, NEW kind \in Kinds, AddOutput(p, kind)
  PROVE  OutputTyped' /\ OutputsInv'
<1> DEFINE kept == IF ownPlaced /\ outputs = <<<<OwnOut, "data">>>> THEN <<>> ELSE outputs
           e == <<p, kind>>
<1>1. /\ outputs' = Append(kept, e) /\ ownPlaced' = FALSE /\ drawn' = drawn \cup {e}
      /\ p \notin Wired /\ UNCHANGED <<puts, received, due, last, emitted>>
  BY DEF AddOutput, lastVars
<1>2. /\ kept \in Seq(OutPipes \X Kinds) /\ Different(kept)
      /\ \A x, y \in Range(kept) : x[1] = y[1] => x = y
      /\ Range(kept) = drawn /\ Range(kept) \subseteq Range(outputs)
  <2>1. CASE ownPlaced
    <3>1. kept = <<>> /\ drawn = {}
      BY <2>1 DEF OutputsInv
    <3> QED
      BY <3>1, OwnOutput
  <2>2. CASE ~ownPlaced
    <3>1. kept = outputs
      BY <2>2
    <3> QED
      BY <2>2, <3>1 DEF OutputsInv, OutputTyped
  <2> QED
    BY <2>1, <2>2
<1>3. e \in OutPipes \X Kinds /\ e \in Consumers \X Kinds /\ e[1] = p
  BY OwnOutput
<1> HIDE DEF kept, e
<1>4. \A x \in Range(kept) : x[1] # p
  BY <1>1, <1>2 DEF Wired
<1>5. e \notin Range(kept)
  BY <1>3, <1>4
<1>6. /\ outputs' \in Seq(OutPipes \X Kinds) /\ Different(outputs')
      /\ Range(outputs') = Range(kept) \cup {e}
  BY <1>1, <1>2, <1>3, <1>5, AddTo
<1>7. OutputTyped'
  BY <1>1, <1>3, <1>6 DEF OutputTyped
<1>8. \A x, y \in Range(outputs') : x[1] = y[1] => x = y
  BY <1>2, <1>3, <1>4, <1>6
<1> QED
  BY <1>1, <1>2, <1>6, <1>7, <1>8 DEF OutputsInv

LEMMA OwnKeepsOutputs ==
  ASSUME OutputTyped, OutputsInv, AddOutputIfUnwired PROVE OutputTyped' /\ OutputsInv'
<1>1. /\ outputs = <<>> /\ outputs' = <<<<OwnOut, "data">>>> /\ ownPlaced' = TRUE
      /\ UNCHANGED <<puts, received, drawn, due, last, emitted>>
  BY DEF AddOutputIfUnwired, lastVars
<1>2. drawn = {}
  <2>1. <<>> # <<<<OwnOut, "data">>>>
    BY OwnOutput
  <2>2. ~ownPlaced
    BY <1>1, <2>1 DEF OutputsInv
  <2> QED
    BY <1>1, <2>2, OwnOutput DEF OutputsInv
<1>3. \A x, y \in Range(outputs') : x[1] = y[1] => x = y
  BY <1>1, OwnOutput
<1> QED
  BY <1>1, <1>2, <1>3, OwnOutput DEF OutputTyped, OutputsInv

LEMMA RemoveKeepsOutputs ==
  ASSUME OutputTyped, OutputsInv, NEW p \in Consumers, RemoveOutput(p)
  PROVE  OutputTyped' /\ OutputsInv'
<1>1. PICK i \in DOMAIN outputs : outputs[i][1] = p /\ outputs' = RemoveAt(outputs, i)
  BY DEF RemoveOutput
<1>2. /\ drawn' = {x \in drawn : x[1] # p}
      /\ UNCHANGED <<ownPlaced, puts, received, due, last, emitted>>
  BY DEF RemoveOutput, lastVars
<1>3. /\ outputs \in Seq(OutPipes \X Kinds) /\ Different(outputs) /\ outputs[i] \in Range(outputs)
  BY <1>1 DEF OutputTyped, OutputsInv, Range
<1>4. /\ outputs' \in Seq(OutPipes \X Kinds) /\ Different(outputs')
      /\ Range(outputs') = Range(outputs) \ {outputs[i]}
  BY <1>1, <1>3, RemoveFrom
<1>5. ~ownPlaced
  <2>1. ASSUME ownPlaced PROVE FALSE
    <3>1. outputs[i] = <<OwnOut, "data">>
      BY <1>3, <2>1, OwnOutput DEF OutputsInv
    <3> QED
      BY <1>1, <3>1, OwnOutput
  <2> QED
    BY <2>1
<1>6. Range(outputs) = drawn /\ \A x, y \in Range(outputs) : x[1] = y[1] => x = y
  BY <1>5 DEF OutputsInv
<1>7. Range(outputs') = drawn'
  BY <1>1, <1>2, <1>3, <1>4, <1>6
<1>8. OutputTyped'
  BY <1>2, <1>4 DEF OutputTyped
<1> QED
  BY <1>2, <1>4, <1>5, <1>6, <1>7, <1>8 DEF OutputsInv

\* The newest records, in their order.
LEMMA TrimmedRecords ==
  ASSUME NEW r \in Seq(Nat), Len(r) > 0
  PROVE  /\ Trimmed(r) \in Seq(Nat)
         /\ \E d \in Nat, m \in Nat \ {0} :
              /\ m + d = Len(r)
              /\ DOMAIN Trimmed(r) = 1..m
              /\ \A i \in 1..m : Trimmed(r)[i] = r[i + d]
<1>1. MaxLast \in Nat \ {0} /\ Len(r) \in Nat \ {0}
  BY OutputPortAssumption
<1>2. CASE Len(r) <= MaxLast
  <2>1. Trimmed(r) = r
    BY <1>2 DEF Trimmed
  <2>2. Len(r) + 0 = Len(r) /\ 0 \in Nat /\ DOMAIN r = 1..Len(r)
    BY <1>1
  <2>3. \A i \in 1..Len(r) : r[i] = r[i + 0]
    BY <1>1
  <2> QED
    BY <1>1, <2>1, <2>2, <2>3, Zenon
<1>3. CASE ~(Len(r) <= MaxLast)
  <2> DEFINE d == Len(r) - MaxLast
  <2>1. d \in Nat /\ MaxLast + d = Len(r) /\ d + 1 \in 1..Len(r) /\ d + 1 \in Nat
    BY <1>1, <1>3
  <2>2. Trimmed(r) = SubSeq(r, d + 1, Len(r))
    BY <1>3 DEF Trimmed
  <2> HIDE DEF d
  <2>3. /\ SubSeq(r, d + 1, Len(r)) \in Seq(Nat)
        /\ DOMAIN SubSeq(r, d + 1, Len(r)) = 1..MaxLast
        /\ \A i \in 1..MaxLast : SubSeq(r, d + 1, Len(r))[i] = r[i + d]
    <3>1. /\ SubSeq(r, d + 1, Len(r)) \in Seq(Nat)
          /\ Len(SubSeq(r, d + 1, Len(r))) = MaxLast
      BY <1>1, <2>1
    <3>2. ASSUME NEW i \in 1..MaxLast PROVE SubSeq(r, d + 1, Len(r))[i] = r[i + d]
      BY <1>1, <2>1
    <3> QED
      BY <3>1, <3>2
  <2> QED
    BY <1>1, <2>1, <2>2, <2>3
<1> QED
  BY <1>2, <1>3

\* What becomes of the records when one is made: it is the newest of them, and
\* the ones before it are, in their order, the newest of those there were.
LEMMA RecordMade ==
  ASSUME last \in Seq(Nat), NEW item \in Nat, last' = Trimmed(Append(last, item)),
         \A i \in DOMAIN last :
           last[i] # 0 /\ (\A k \in DOMAIN last : k > i => last[k] = 0) => last[i] = newest,
         newest' = (IF item = 0 THEN newest ELSE item)
  PROVE  /\ last' \in Seq(Nat)
         /\ \A i \in DOMAIN last' :
              last'[i] # 0 /\ (\A k \in DOMAIN last' : k > i => last'[k] = 0) => last'[i] = newest'
<1> DEFINE r == Append(last, item)
           n == Len(last)
<1>1. /\ n \in Nat /\ DOMAIN last = 1..n /\ r \in Seq(Nat) /\ Len(r) = n + 1
      /\ \A i \in 1..n : r[i] = last[i]
      /\ r[n + 1] = item
  OBVIOUS
<1> HIDE DEF r, n
<1>2. last' = Trimmed(r) /\ Len(r) > 0
  BY <1>1 DEF r
<1>3. PICK d \in Nat, m \in Nat \ {0} :
        m + d = Len(r) /\ DOMAIN last' = 1..m /\ \A i \in 1..m : last'[i] = r[i + d]
  <2>1. \E d \in Nat, m \in Nat \ {0} :
          /\ m + d = Len(r)
          /\ DOMAIN Trimmed(r) = 1..m
          /\ \A i \in 1..m : Trimmed(r)[i] = r[i + d]
    BY <1>1, <1>2, TrimmedRecords, Zenon
  <2> QED
    BY <1>2, <2>1, Zenon
<1>4. last' \in Seq(Nat)
  BY <1>1, <1>2, TrimmedRecords
<1>5. ASSUME NEW i \in DOMAIN last', last'[i] # 0, \A k \in DOMAIN last' : k > i => last'[k] = 0
      PROVE  last'[i] = newest'
  <2>1. m \in DOMAIN last' /\ m + d = n + 1 /\ i \in 1..m
    BY <1>1, <1>3, <1>5
  <2>2. last'[m] = item
    BY <1>1, <1>3, <2>1
  <2>3. CASE i = m
    BY <1>5, <2>2, <2>3
  <2>4. CASE i # m
    <3>1. m > i
      BY <2>1, <2>4
    <3>2. item = 0 /\ newest' = newest
      BY <1>5, <2>1, <2>2, <3>1
    <3>3. i + d \in 1..n /\ last'[i] = last[i + d]
      <4>1. i + d \in 1..n
        BY <1>1, <2>1, <2>4
      <4> QED
        BY <1>1, <1>3, <2>1, <4>1
    <3>4. ASSUME NEW k \in 1..n, k > i + d PROVE last[k] = 0
      <4>1. k - d \in 1..m /\ k - d > i /\ (k - d) + d = k
        BY <1>1, <2>1, <3>4
      <4>2. last'[k - d] = r[k]
        BY <1>3, <4>1
      <4> QED
        BY <1>1, <1>3, <1>5, <4>1, <4>2
    <3> QED
      BY <1>1, <1>5, <3>2, <3>3, <3>4
  <2> QED
    BY <2>3, <2>4
<1> QED
  BY <1>4, <1>5

LEMMA EmitKeeps ==
  ASSUME OutputInv, NEW item \in Nat \ {0}, EmitItem(item), emitted' \in Nat,
         stale' = FALSE
  PROVE  OutputInv'
<1>1. OutputTyped /\ OutputsInv /\ EachConsumerGetsAll /\ RecordsInv
  BY DEF OutputInv
<1>2. /\ last' = Trimmed(Append(last, item)) /\ newest' = item
      /\ UNCHANGED <<outputs, ownPlaced, received, drawn>>
  BY DEF EmitItem
<1>3. /\ puts' \in Seq(OutPipes \X Payloads) /\ due' \in [OutPipes -> Seq(Payloads)]
      /\ EachConsumerGetsAll'
  BY <1>1, EmitPuts
<1>4. last' \in Seq(Nat) /\ RecordsInv'
  <2>1. last \in Seq(Nat) /\ newest' = (IF item = 0 THEN newest ELSE item)
    BY <1>1, <1>2 DEF OutputTyped
  <2> QED
    BY <1>1, <1>2, <2>1, RecordMade DEF RecordsInv
<1>5. OutputTyped'
  BY <1>1, <1>2, <1>3, <1>4 DEF OutputTyped
<1>6. OutputsInv'
  BY <1>1, <1>2 DEF OutputsInv
<1> QED
  BY <1>3, <1>4, <1>5, <1>6 DEF OutputInv

LEMMA OutputStep ==
  ASSUME OutputInv, [OutputNext]_outputVars PROVE OutputInv'
<1>1. OutputTyped /\ OutputsInv /\ EachConsumerGetsAll /\ RecordsInv
  BY DEF OutputInv
<1>2. CASE UNCHANGED outputVars
  <2>1. UNCHANGED <<outputs, ownPlaced, unwired, puts, received, drawn, due,
                    last, emitted, newest, stale>>
    BY <1>2 DEF outputVars, portVars, lastVars
  <2>2. OutputTyped' /\ OutputsInv'
    BY <1>1, <2>1 DEF OutputTyped, OutputsInv
  <2> QED
    BY <1>1, <2>1, <2>2, SameDeliveries, SameRecords DEF OutputInv
<1>3. ASSUME NEW p \in Consumers, NEW kind \in Kinds, AddOutput(p, kind) PROVE OutputInv'
  <2>1. UNCHANGED <<puts, received, due, last, newest, stale>>
    BY <1>3 DEF AddOutput, lastVars
  <2> QED
    BY <1>1, <1>3, <2>1, AddKeepsOutputs, SameDeliveries, SameRecords DEF OutputInv
<1>4. ASSUME NEW p \in Consumers, RemoveOutput(p) PROVE OutputInv'
  <2>1. UNCHANGED <<puts, received, due, last, newest, stale>>
    BY <1>4 DEF RemoveOutput, lastVars
  <2> QED
    BY <1>1, <1>4, <2>1, RemoveKeepsOutputs, SameDeliveries, SameRecords DEF OutputInv
<1>5. CASE AddOutputIfUnwired
  <2>1. UNCHANGED <<puts, received, due, last, newest, stale>>
    BY <1>5 DEF AddOutputIfUnwired, lastVars
  <2> QED
    BY <1>1, <1>5, <2>1, OwnKeepsOutputs, SameDeliveries, SameRecords DEF OutputInv
<1>6. CASE Emit
  <2>1. emitted \in Nat
    BY <1>1 DEF OutputTyped
  <2>2. emitted + 1 \in Nat \ {0} /\ EmitItem(emitted + 1) /\ emitted' \in Nat /\ stale' = FALSE
    BY <1>1, <1>6, <2>1 DEF Emit, RecordsInv
  <2> QED
    BY <2>2, EmitKeeps
<1>7. CASE PutRuns
  <2>1. UNCHANGED <<outputs, ownPlaced, drawn, due, last, emitted, newest, stale>>
    BY <1>7 DEF PutRuns, lastVars
  <2>2. /\ puts' \in Seq(OutPipes \X Payloads) /\ received' \in [OutPipes -> Seq(Payloads)]
        /\ EachConsumerGetsAll'
    BY <1>1, <1>7, PutArrives
  <2>3. OutputTyped' /\ OutputsInv'
    BY <1>1, <2>1, <2>2 DEF OutputTyped, OutputsInv
  <2> QED
    BY <1>1, <2>1, <2>2, <2>3, SameRecords DEF OutputInv
<1>8. CASE ManualEmit
  <2>1. PICK item \in Replayable : EmitItem(item) /\ stale' = (stale \/ item # newest)
    BY <1>8 DEF ManualEmit
  <2>2. item \in Nat \ {0} /\ item = newest
    BY <1>1, <2>1 DEF Replayable, OutputTyped, RecordsInv
  <2>3. emitted' \in Nat /\ stale' = FALSE
    BY <1>1, <1>8, <2>1, <2>2 DEF ManualEmit, OutputTyped, RecordsInv
  <2> QED
    BY <2>1, <2>2, <2>3, EmitKeeps
<1>9. CASE Record
  <2>1. /\ UNCHANGED <<outputs, ownPlaced, puts, received, drawn, due, emitted, newest, stale>>
        /\ last' = Trimmed(Append(last, 0))
    BY <1>9 DEF Record, portVars
  <2>2. last' \in Seq(Nat) /\ RecordsInv'
    <3>1. last \in Seq(Nat) /\ newest' = (IF 0 = 0 THEN newest ELSE 0) /\ 0 \in Nat
      BY <1>1, <2>1 DEF OutputTyped
    <3> QED
      BY <1>1, <2>1, <3>1, RecordMade DEF RecordsInv
  <2>3. OutputTyped' /\ OutputsInv'
    BY <1>1, <2>1, <2>2 DEF OutputTyped, OutputsInv
  <2> QED
    BY <1>1, <2>1, <2>2, <2>3, SameDeliveries DEF OutputInv
<1>10. CASE Reset
  <2>1. /\ UNCHANGED <<outputs, ownPlaced, puts, received, drawn, due, emitted, stale>>
        /\ last' = <<>>
    BY <1>10 DEF Reset, portVars
  <2>2. last' \in Seq(Nat) /\ RecordsInv'
    BY <1>1, <2>1 DEF RecordsInv
  <2>3. OutputTyped' /\ OutputsInv'
    BY <1>1, <2>1, <2>2 DEF OutputTyped, OutputsInv
  <2> QED
    BY <1>1, <2>1, <2>2, <2>3, SameDeliveries DEF OutputInv
<1> QED
  BY <1>2, <1>3, <1>4, <1>5, <1>6, <1>7, <1>8, <1>9, <1>10 DEF OutputNext

LEMMA OutputStarts ==
  ASSUME OutputInit PROVE OutputInv
<1>1. /\ outputs = <<>> /\ ownPlaced = FALSE /\ puts = <<>> /\ drawn = {}
      /\ received = [p \in OutPipes |-> <<>>] /\ due = [p \in OutPipes |-> <<>>]
      /\ last = <<>> /\ emitted = 0 /\ stale = FALSE
  BY DEF OutputInit
<1>2. OutputTyped
  <2>1. <<>> \in Seq(OutPipes \X Payloads) /\ <<>> \in Seq(Payloads) /\ <<>> \in Seq(Nat)
    OBVIOUS
  <2>2. [p \in OutPipes |-> <<>>] \in [OutPipes -> Seq(Payloads)]
    BY <2>1
  <2> QED
    BY <1>1, <2>1, <2>2, OwnOutput DEF OutputTyped
<1>3. OutputsInv
  BY <1>1, OwnOutput DEF OutputsInv
<1>4. EachConsumerGetsAll
  <2> SUFFICES ASSUME NEW p \in OutPipes
               PROVE  LET all == Pending(p, Len(puts)) IN
                      /\ Len(due[p]) = Len(received[p]) + Cardinality(all)
                      /\ \A k \in DOMAIN received[p] : received[p][k] = due[p][k]
                      /\ \A i \in all : puts[i][2] = due[p][Len(received[p]) + Cardinality(Pending(p, i))]
    BY Zenon DEF EachConsumerGetsAll
  <2>1. Pending(p, Len(puts)) = {} /\ Cardinality({}) = 0
    BY <1>1, FS_EmptySet DEF Pending
  <2>2. due[p] = <<>> /\ received[p] = <<>>
    BY <1>1
  <2> QED
    BY <2>1, <2>2
<1>5. RecordsInv
  BY <1>1 DEF RecordsInv
<1> QED
  BY <1>2, <1>3, <1>4, <1>5 DEF OutputInv

\* Each consumer gets what was emitted while its wire was drawn, whatever other
\* wires came and went; and a manual emit replays nothing but the last item.
THEOREM OutputKept == OutputSpec => []OutputPortKept
<1>1. OutputInit => OutputInv
  BY OutputStarts
<1>2. OutputInv /\ [OutputNext]_outputVars => OutputInv'
  BY OutputStep
<1>3. OutputInv => OutputPortKept
  BY DEF OutputInv, RecordsInv, OutputPortKept, ReplaysTheNewest
<1> QED
  BY <1>1, <1>2, <1>3, PTL DEF OutputSpec

-----------------------------------------------------------------------------
(* The counters. *)

TotalsTyped ==
  /\ known \in Instances \cup {NoInstance}
  /\ total \in [Instances -> Nat]
  /\ seen \in Nat /\ counter \in Nat
  /\ processed \in Nat /\ regained \in Nat
  /\ forgotten \in BOOLEAN

\* What the next scrape will add is paid for: by what was counted, or by what
\* an instance brought along.
Covered ==
  /\ counter <= processed + regained
  /\ known # NoInstance => counter + total[known] <= processed + regained + seen

\* Until a total is lost there was one instance at most, and nothing before it.
Unforgotten ==
  ~forgotten =>
    IF known = NoInstance
    THEN /\ counter = 0 /\ processed = 0 /\ seen = 0
         /\ \A i \in Instances : total[i] = 0
    ELSE /\ seen <= total[known]
         /\ counter + total[known] = processed + seen

TotalsInv == TotalsTyped /\ Covered /\ Unforgotten

LEMMA TotalsStart == MetricsInit => TotalsInv
<1> SUFFICES ASSUME MetricsInit
             PROVE  TotalsInv
  OBVIOUS
<1>1. TotalsTyped
  BY DEF MetricsInit, TotalsTyped
<1>2. Covered
  BY DEF MetricsInit, Covered
<1>3. Unforgotten
  BY DEF MetricsInit, Unforgotten
<1> QED
  BY <1>1, <1>2, <1>3 DEF TotalsInv

LEMMA CountKeeps ==
  ASSUME TotalsInv, NEW i \in Instances, Count(i)
  PROVE  TotalsInv'
<1>1. TotalsTyped'
  BY DEF TotalsInv, TotalsTyped, Count
<1>2. Covered'
  BY DEF TotalsInv, TotalsTyped, Covered, Count
<1>3. ~forgotten' => ~forgotten /\ known = i
  BY Zenon DEF Count
<1>4. ~forgotten /\ known = i => Unforgotten'
  BY MetricsAssumption DEF TotalsInv, TotalsTyped, Unforgotten, Count
<1>5. Unforgotten'
  BY <1>3, <1>4 DEF Unforgotten
<1> QED
  BY <1>1, <1>2, <1>5 DEF TotalsInv

LEMMA ResetKeeps ==
  ASSUME TotalsInv, NEW i \in Instances, ResetTotals(i)
  PROVE  TotalsInv'
<1>1. TotalsTyped'
  BY DEF TotalsInv, TotalsTyped, ResetTotals
<1>2. Covered'
  BY DEF TotalsInv, TotalsTyped, Covered, ResetTotals
<1>3. Unforgotten'
  BY DEF TotalsInv, TotalsTyped, Unforgotten, ResetTotals
<1> QED
  BY <1>1, <1>2, <1>3 DEF TotalsInv

\* An instance that gets the id brings its total along, which is all that the
\* next scrape can add for it.
LEMMA RegisterKeeps ==
  ASSUME TotalsInv, NEW i \in Instances, Register(i)
  PROVE  TotalsInv'
<1>1. TotalsTyped'
  BY DEF TotalsInv, TotalsTyped, Register
<1>2. Covered'
  BY DEF TotalsInv, TotalsTyped, Covered, Register
<1>3. ~forgotten' => ~forgotten /\ known = NoInstance
  BY Zenon DEF Register
<1>4. ~forgotten /\ known = NoInstance => Unforgotten'
  BY MetricsAssumption DEF TotalsInv, TotalsTyped, Unforgotten, Register
<1>5. Unforgotten'
  BY <1>3, <1>4 DEF Unforgotten
<1> QED
  BY <1>1, <1>2, <1>5 DEF TotalsInv

LEMMA UnregisterKeeps ==
  ASSUME TotalsInv, Unregister
  PROVE  TotalsInv'
BY DEF TotalsInv, TotalsTyped, Covered, Unforgotten, Unregister

LEMMA ScrapeKeeps ==
  ASSUME TotalsInv, Scrape
  PROVE  TotalsInv'
<1>1. TotalsTyped'
  BY DEF TotalsInv, TotalsTyped, Scrape
<1>2. Covered'
  BY DEF TotalsInv, TotalsTyped, Covered, Scrape
<1>3. Unforgotten'
  BY DEF TotalsInv, TotalsTyped, Unforgotten, Scrape
<1> QED
  BY <1>1, <1>2, <1>3 DEF TotalsInv

LEMMA TotalsStep ==
  ASSUME TotalsInv, [MetricsNext]_metricVars
  PROVE  TotalsInv'
<1>1. CASE \E i \in Instances : Count(i)
  BY <1>1, CountKeeps
<1>2. CASE \E i \in Instances : ResetTotals(i)
  BY <1>2, ResetKeeps
<1>3. CASE \E i \in Instances : Register(i)
  BY <1>3, RegisterKeeps
<1>4. CASE Unregister
  BY <1>4, UnregisterKeeps
<1>5. CASE Scrape
  BY <1>5, ScrapeKeeps
<1>6. CASE UNCHANGED metricVars
  BY <1>6 DEF metricVars, TotalsInv, TotalsTyped, Covered, Unforgotten
<1> QED
  BY <1>1, <1>2, <1>3, <1>4, <1>5, <1>6 DEF MetricsNext

\* The counter of an id never says more than its instances have counted and
\* brought along, and misses nothing while one of them keeps the id
\* (update_metrics()).
THEOREM NothingTwice == MetricsSpec => []CountedOnce
<1>1. MetricsInit => TotalsInv
  BY TotalsStart
<1>2. TotalsInv /\ [MetricsNext]_metricVars => TotalsInv'
  BY TotalsStep
<1>3. TotalsInv => CountedOnce
  BY DEF TotalsInv, TotalsTyped, Covered, Unforgotten, CountedOnce
<1> QED
  BY <1>1, <1>2, <1>3, PTL DEF MetricsSpec

-----------------------------------------------------------------------------
(* The owner of the id, and its route. *)

IdTyped ==
  /\ life \in [Copies -> {"made", "running", "paused", "stopped"}]
  /\ registered \in Copies \cup {NoCopy}
  /\ session \in [Sessions -> {"idle", "running", "ending", "deleted"}]
  /\ current \in [Sessions -> Copies \cup {NoCopy}]

\* The route leads to the node that has the id from its init() until it stops:
\* also while it is paused, since resume() registers no route.
RouteHeld ==
  selfRegisters /\ registered # NoCopy /\ life[registered] \in {"running", "paused"} =>
    route = registered

Ending(n) == \E s \in Sessions : session[s] = "ending" /\ current[s] = n

\* Whoever could run on, or begin to run, without the id has been seen off.
Accounted ==
  \A n \in Copies :
    life[n] # "stopped" /\ n # registered => n \in stops \cup strays \/ Ending(n)

\* Only a session that runs has an engine with a node of its own.
IdleHasNone == \A s \in Sessions : session[s] = "idle" => current[s] = NoCopy

IdInv == IdTyped /\ RouteHeld /\ Accounted /\ IdleHasNone

LEMMA IdStart == RegistryInit => IdInv
BY DEF RegistryInit, IdInv, IdTyped, RouteHeld, Accounted, IdleHasNone

-----------------------------------------------------------------------------

\* Who takes the id over leaves nobody behind that is not stopped, or known to
\* be a stray.
LEMMA RegisterAccounts ==
  ASSUME IdInv, NEW n \in Copies, NEW o, RegisterNode(n, o),
         NEW m \in Copies, m # n, life[m] # "stopped"
  PROVE  m \in stops' \cup strays' \/ Ending(m)
<1>1. CASE m = registered
  <2>1. m \in Superseded(n)
    BY <1>1, RegistryAssumption DEF Superseded
  <2>2. life[m] \in {"made", "running", "paused"}
    BY DEF IdInv, IdTyped
  <2> QED
    BY <2>1, <2>2 DEF RegisterNode, StoppedFor
<1>2. CASE m # registered
  BY <1>2 DEF IdInv, Accounted, RegisterNode
<1> QED
  BY <1>1, <1>2

\* A node that begins, or retries, has the id and the route if its type
\* registers itself; otherwise nothing moves.
LEMMA InitKeeps ==
  ASSUME IdInv, NEW n \in Copies, InitNode(n), life[n] # "stopped" \/ registered = n,
         UNCHANGED <<selfRegisters, session, current>>,
         life' = [life EXCEPT ![n] = "running"]
  PROVE  IdInv'
<1>1. IdTyped'
  BY DEF IdInv, IdTyped, InitNode, RegisterNode
<1>2. IdleHasNone'
  BY DEF IdInv, IdleHasNone
<1>3. \A m \in Copies : m # n => life'[m] = life[m]
  BY DEF IdInv, IdTyped
<1>4. \A m : Ending(m)' <=> Ending(m)
  BY DEF Ending
<1>5. CASE selfRegisters
  <2>1. RegisterNode(n, owner[n]) /\ registered' = n /\ route' = n
    BY <1>5 DEF InitNode, RegisterNode, RouteTo
  <2>2. RouteHeld'
    BY <2>1 DEF RouteHeld
  <2>3. Accounted'
    BY <2>1, <1>3, <1>4, RegisterAccounts DEF Accounted
  <2> QED
    BY <1>1, <1>2, <2>2, <2>3 DEF IdInv
<1>6. CASE ~ selfRegisters
  <2>1. UNCHANGED <<registered, stops, strays>>
    BY <1>6 DEF InitNode
  <2>2. RouteHeld'
    BY <1>6 DEF RouteHeld
  <2>3. Accounted'
    BY <2>1, <1>3, <1>4 DEF IdInv, Accounted
  <2> QED
    BY <1>1, <1>2, <2>2, <2>3 DEF IdInv
<1> QED
  BY <1>5, <1>6

LEMMA BeginsKeeps ==
  ASSUME IdInv, NEW n \in Copies, Begins(n), life[n] # "stopped" \/ registered = n
  PROVE  IdInv'
BY InitKeeps DEF Begins

LEMMA TellKeeps ==
  ASSUME IdInv, NEW n \in Copies, NEW to \in {"running", "paused", "stopped"},
         NEW from \in SUBSET {"running", "paused"}, Tell(n, from, to)
  PROVE  IdInv'
<1>1. IdTyped'
  BY DEF IdInv, IdTyped, Tell
<1>2. IdleHasNone'
  BY DEF IdInv, IdleHasNone, Tell
<1>3. RouteHeld'
  BY DEF IdInv, IdTyped, RouteHeld, Tell
<1>4. Accounted'
  BY DEF IdInv, IdTyped, Accounted, Ending, Tell
<1> QED
  BY <1>1, <1>2, <1>3, <1>4 DEF IdInv

LEMMA CreateKeeps ==
  ASSUME IdInv, NEW n \in Copies, CreateNode(n)
  PROVE  IdInv'
<1>1. IdTyped'
  BY DEF IdInv, IdTyped, CreateNode
<1>2. IdleHasNone'
  BY DEF IdInv, IdleHasNone, CreateNode
<1>3. RouteHeld'
  BY DEF IdInv, IdTyped, RouteHeld, CreateNode
<1>4. Accounted'
  BY RegistryAssumption DEF IdInv, IdTyped, Accounted, Ending, CreateNode
<1> QED
  BY <1>1, <1>2, <1>3, <1>4 DEF IdInv

LEMMA DeleteKeeps ==
  ASSUME IdInv, NEW n \in Copies, DeleteNode(n)
  PROVE  IdInv'
<1>1. IdTyped'
  BY DEF IdInv, IdTyped, DeleteNode
<1>2. IdleHasNone'
  BY DEF IdInv, IdleHasNone, DeleteNode
<1>3. RouteHeld'
  BY DEF RouteHeld, DeleteNode
<1>4. Accounted'
  BY DEF IdInv, IdTyped, Accounted, Ending, DeleteNode
<1> QED
  BY <1>1, <1>2, <1>3, <1>4 DEF IdInv

LEMMA RetryKeeps ==
  ASSUME IdInv, NEW n \in Copies, RetryNode(n)
  PROVE  IdInv'
<1>1. life' = [life EXCEPT ![n] = "running"]
  BY DEF IdInv, IdTyped, RetryNode
<1> QED
  BY <1>1, InitKeeps DEF RetryNode

LEMMA ScheduledStopKeeps ==
  ASSUME IdInv, NEW n \in Copies, ScheduledStop(n)
  PROVE  IdInv'
<1>1. IdTyped'
  BY DEF IdInv, IdTyped, ScheduledStop
<1>2. IdleHasNone'
  BY DEF IdInv, IdleHasNone, ScheduledStop
<1>3. RouteHeld'
  BY DEF IdInv, IdTyped, RouteHeld, ScheduledStop
<1>4. Accounted'
  BY DEF IdInv, IdTyped, Accounted, Ending, ScheduledStop
<1> QED
  BY <1>1, <1>2, <1>3, <1>4 DEF IdInv

-----------------------------------------------------------------------------
(* Sessions *)

LEMMA StartSessionKeeps ==
  ASSUME IdInv, NEW n \in Copies, NEW s \in Sessions, StartSession(s, n)
  PROVE  IdInv'
<1>1. IdTyped'
  BY DEF IdInv, IdTyped, StartSession, RegisterNode
<1>2. IdleHasNone'
  BY DEF IdInv, IdTyped, IdleHasNone, StartSession
<1>3. registered' = n /\ life'[n] = "made"
  BY DEF IdInv, IdTyped, StartSession, RegisterNode
<1>4. RouteHeld'
  BY <1>3 DEF RouteHeld
<1>5. \A m \in Copies : Ending(m) => Ending(m)'
  BY DEF IdInv, IdTyped, Ending, StartSession
<1>6. \A m \in Copies : m # n => life'[m] = life[m]
  BY DEF IdInv, IdTyped, StartSession
<1>7. Accounted'
  BY <1>3, <1>5, <1>6, RegisterAccounts DEF Accounted, StartSession
<1> QED
  BY <1>1, <1>2, <1>4, <1>7 DEF IdInv

LEMMA StopSessionKeeps ==
  ASSUME IdInv, NEW s \in Sessions, StopSession(s)
  PROVE  IdInv'
<1>1. IdTyped'
  BY DEF IdInv, IdTyped, StopSession
<1>2. IdleHasNone'
  BY DEF IdInv, IdTyped, IdleHasNone, StopSession
<1>3. RouteHeld'
  BY DEF IdInv, IdTyped, RouteHeld, StopSession
<1>4. \A m \in Copies : Ending(m) /\ m # current[s] => Ending(m)'
  BY DEF IdInv, IdTyped, Ending, StopSession
<1>5. Accounted'
  BY <1>4 DEF IdInv, IdTyped, Accounted, StopSession
<1> QED
  BY <1>1, <1>2, <1>3, <1>5 DEF IdInv

\* The node that loses the id is the session's own, to be stopped with it, or a
\* stray.
LEMMA DeleteSessionKeeps ==
  ASSUME IdInv, NEW s \in Sessions, DeleteSession(s)
  PROVE  IdInv'
<1>1. IdTyped'
  BY DEF IdInv, IdTyped, DeleteSession
<1>2. IdleHasNone'
  BY DEF IdInv, IdTyped, IdleHasNone, DeleteSession
<1>3. RouteHeld'
  BY DEF IdInv, IdTyped, RouteHeld, DeleteSession
<1>4. \A m \in Copies : Ending(m) => Ending(m)'
  BY DEF IdInv, IdTyped, Ending, DeleteSession
<1>5. SUFFICES ASSUME NEW m \in Copies, life[m] # "stopped", m # registered'
               PROVE  m \in stops' \cup strays' \/ Ending(m)'
  BY <1>1, <1>2, <1>3 DEF IdInv, Accounted, DeleteSession
<1>6. CASE m # registered
  BY <1>4, <1>5, <1>6 DEF IdInv, Accounted, DeleteSession
<1>7. CASE m = registered /\ m = current[s]
  <2>1. session[s] = "running"
    BY <1>7, RegistryAssumption DEF IdInv, IdleHasNone, DeleteSession
  <2> QED
    BY <2>1, <1>7 DEF IdInv, IdTyped, Ending, DeleteSession
<1>8. CASE m = registered /\ m # current[s]
  <2>1. m = ofSession[s] /\ m # NoCopy
    BY <1>5, <1>8, RegistryAssumption DEF DeleteSession
  <2> QED
    BY <2>1, <1>5, <1>8 DEF DeleteSession
<1> QED
  BY <1>6, <1>7, <1>8

-----------------------------------------------------------------------------

LEMMA NodeStep ==
  ASSUME IdInv, NEW n \in Copies,
         \/ CreateNode(n) \/ EditorNodeBegins(n) \/ StartNode(n)
         \/ PauseNode(n) \/ ResumeNode(n) \/ StopNode(n)
         \/ DeleteNode(n) \/ RetryNode(n) \/ ScheduledStop(n)
  PROVE  IdInv'
<1>1. CASE CreateNode(n)
  BY <1>1, CreateKeeps
<1>2. CASE EditorNodeBegins(n) \/ StartNode(n)
  BY <1>2, BeginsKeeps DEF EditorNodeBegins, StartNode
<1>3. CASE PauseNode(n) \/ ResumeNode(n) \/ StopNode(n)
  BY <1>3, TellKeeps DEF PauseNode, ResumeNode, StopNode
<1>4. CASE DeleteNode(n)
  BY <1>4, DeleteKeeps
<1>5. CASE RetryNode(n)
  BY <1>5, RetryKeeps
<1>6. CASE ScheduledStop(n)
  BY <1>6, ScheduledStopKeeps
<1> QED
  BY <1>1, <1>2, <1>3, <1>4, <1>5, <1>6

LEMMA SessionStep ==
  ASSUME IdInv, NEW s \in Sessions,
         SessionNodeBegins(s) \/ StopSession(s) \/ DeleteSession(s)
  PROVE  IdInv'
<1>1. CASE SessionNodeBegins(s)
  <2>1. current[s] \in Copies /\ life[current[s]] # "stopped" /\ Begins(current[s])
    BY <1>1 DEF IdInv, IdTyped, SessionNodeBegins
  <2> QED
    BY <2>1, BeginsKeeps
<1>2. CASE StopSession(s)
  BY <1>2, StopSessionKeeps
<1>3. CASE DeleteSession(s)
  BY <1>3, DeleteSessionKeeps
<1> QED
  BY <1>1, <1>2, <1>3

LEMMA IdStep ==
  ASSUME IdInv, [RegistryNext]_registryVars
  PROVE  IdInv'
<1>1. CASE \E n \in Copies :
             \/ CreateNode(n) \/ EditorNodeBegins(n) \/ StartNode(n)
             \/ PauseNode(n) \/ ResumeNode(n) \/ StopNode(n)
             \/ DeleteNode(n) \/ RetryNode(n) \/ ScheduledStop(n)
  BY <1>1, NodeStep
<1>2. CASE \E n \in Copies, s \in Sessions : StartSession(s, n)
  BY <1>2, StartSessionKeeps
<1>3. CASE \E s \in Sessions : SessionNodeBegins(s) \/ StopSession(s) \/ DeleteSession(s)
  BY <1>3, SessionStep
<1>4. CASE UNCHANGED registryVars
  BY <1>4 DEF registryVars, IdInv, IdTyped, RouteHeld, Accounted, Ending, IdleHasNone
<1> QED
  BY <1>1, <1>2, <1>3, <1>4 DEF RegistryNext

\* The route of an id leads to the node that has it, as long as that runs; and
\* no node runs on without the id but one whose stop() is on its way, or that
\* was not running, or not the session's own, when it lost the id
\* (register_node(), register_route(), unregister_session()).
THEOREM IdKept == RegistrySpec => []RegistryKept
<1>1. RegistryInit => IdInv
  BY IdStart
<1>2. IdInv /\ [RegistryNext]_registryVars => IdInv'
  BY IdStep
<1>3. IdInv => RegistryKept
  BY DEF IdInv, RouteHeld, Accounted, Ending, RegistryKept, RouteFollows, OnlyStraysRunOn
<1> QED
  BY <1>1, <1>2, <1>3, PTL DEF RegistrySpec

-----------------------------------------------------------------------------
(* The graph: exactly the cyclic ones are turned away (and those that list *)
(* an id twice), the nodes of the others start each after those that send  *)
(* to it, and every wire ends where it is read.                            *)

\* The nodes taken so far, and the wires a node still waits for.
Taken == {order[i] : i \in DOMAIN order}
Waiting(n) == {e \in edges : e.target = n /\ (e.source \notin Taken \/ e \in follow)}

Stages == {"none", "invalid", "check", "cyclic", "wire", "order", "start"}
Rejected == stage \in {"none", "invalid"}

GraphTyped ==
  /\ stage \in Stages
  /\ IsFiniteSet(listed) /\ IsFiniteSet(edges)
  /\ twice \in BOOLEAN
  /\ order \in Seq(listed)
  /\ ready \subseteq listed
  /\ follow \subseteq edges
  /\ ~Rejected =>
       /\ degree \in [listed -> Nat]
       /\ \A e \in edges : e.source \in listed /\ e.target \in listed /\ ValidEdge(e)

\* in_degree counts the wires a node still waits for; a node is in the queue or
\* taken when there are none, once, and after those it waited for.
SearchInv ==
  ~Rejected =>
    /\ \A n \in listed : degree[n] = Cardinality(Waiting(n))
    /\ \A n \in listed : degree[n] = 0 <=> n \in ready \/ n \in Taken
    /\ \A n \in ready : n \notin Taken
    /\ \A e \in follow : e.source \in Taken
    /\ \A i, j \in DOMAIN order : order[i] = order[j] => i = j
    /\ \A e \in edges : \A i \in DOMAIN order :
         order[i] = e.target => \E j \in 1..(i - 1) : order[j] = e.source

Unwired == Rejected \/ stage \in {"check", "cyclic", "wire"} => landed = {}

GraphInv == GraphTyped /\ SearchInv /\ Unwired /\ GraphKept

-----------------------------------------------------------------------------
LEMMA LeastIndex ==
  ASSUME NEW I, I \subseteq Nat, I # {}
  PROVE  \E i \in I : \A j \in I : i <= j
<1> DEFINE Less == {p \in Nat \X Nat : p[1] < p[2]}
<1>1. IsWellFoundedOn(Less, Nat)
  BY NatLessThanWellFounded DEF OpToRel
<1>2. PICK i \in I : \A j \in I : <<j, i>> \notin Less
  <2> HIDE DEF Less
  <2> QED BY <1>1, WFMin
<1>3. ASSUME NEW j \in I PROVE i <= j
  <2>1. <<j, i>> \notin Less
    BY <1>2
  <2>2. ~(j < i)
    BY <2>1
  <2> QED BY <2>2
<1> QED BY <1>3

\* The first node of T in the order would have a source in T before it.
LEMMA NoCycleInOrder ==
  ASSUME GraphTyped, SearchInv, ~Rejected, listed \subseteq Taken
  PROVE  ~Cyclic
<1>1. SUFFICES ASSUME NEW T \in SUBSET listed, T # {},
                      \A n \in T : \E e \in edges : e.target = n /\ e.source \in T
               PROVE  FALSE
  BY DEF Cyclic
<1> DEFINE I == {i \in DOMAIN order : order[i] \in T}
<1>2. I \subseteq Nat
  BY DEF GraphTyped
<1>3. I # {}
  BY <1>1 DEF Taken
<1>4. PICK i \in I : \A j \in I : i <= j
  <2> HIDE DEF I
  <2> QED BY <1>2, <1>3, LeastIndex
<1>5. PICK e \in edges : e.target = order[i] /\ e.source \in T
  BY <1>1
<1>6. PICK j \in 1..(i - 1) : order[j] = e.source
  BY <1>5 DEF SearchInv
<1>7. j \in I /\ j < i
  BY <1>5, <1>6, <1>2 DEF GraphTyped
<1> QED BY <1>4, <1>7, <1>2

\* What is left when the queue is empty is a cycle.
LEMMA RestIsCyclic ==
  ASSUME GraphTyped, SearchInv, ~Rejected, Exhausted, ~(listed \subseteq Taken)
  PROVE  Cyclic
<1> DEFINE S == listed \ Taken
<1>1. S \in SUBSET listed /\ S # {}
  OBVIOUS
<1>2. ASSUME NEW n \in S PROVE \E e \in edges : e.target = n /\ e.source \in S
  <2>1. degree[n] # 0
    BY DEF SearchInv, Exhausted
  <2>2. Waiting(n) # {}
    BY <2>1, FS_EmptySet DEF SearchInv
  <2>3. PICK e \in Waiting(n) : TRUE
    BY <2>2
  <2>4. e \in edges /\ e.target = n /\ e.source \notin Taken
    BY <2>3 DEF Waiting, Exhausted
  <2> QED BY <2>4 DEF GraphTyped
<1> QED BY <1>1, <1>2 DEF Cyclic

\* The length of the order counts the nodes taken.
LEMMA LengthCounts ==
  ASSUME GraphTyped, SearchInv, ~Rejected
  PROVE  /\ Len(order) <= Cardinality(listed)
         /\ Cardinality(listed) \in Nat
         /\ Len(order) = Cardinality(listed) <=> listed \subseteq Taken
<1>1. order \in [1..Len(order) -> listed] /\ Len(order) \in Nat
  BY DEF GraphTyped
<1>2. IsFiniteSet(1..Len(order)) /\ Cardinality(1..Len(order)) = Len(order)
  <2>1. /\ IsFiniteSet(1..Len(order))
        /\ Cardinality(1..Len(order)) = IF 1 > Len(order) THEN 0 ELSE Len(order) - 1 + 1
    BY <1>1, FS_Interval
  <2> QED BY <1>1, <2>1
<1>3. Taken \subseteq listed
  BY <1>1 DEF Taken
<1>4. IsFiniteSet(Taken) /\ Cardinality(Taken) <= Cardinality(listed)
      /\ (Cardinality(listed) = Cardinality(Taken) => listed = Taken)
  BY <1>3, FS_Subset DEF GraphTyped
<1>5. order \in Bijection(1..Len(order), Taken)
  <2>1. order \in [1..Len(order) -> Taken]
    BY <1>1 DEF Taken
  <2>2. \A i, j \in 1..Len(order) : order[i] = order[j] => i = j
    BY <1>1 DEF SearchInv
  <2>3. \A t \in Taken : \E i \in 1..Len(order) : order[i] = t
    BY <1>1 DEF Taken
  <2> QED BY <2>1, <2>2, <2>3 DEF Bijection, Injection, Surjection, IsInjective
<1>6. Cardinality(Taken) = Len(order)
  BY <1>2, <1>5, FS_Bijection DEF ExistsBijection
<1>7. Cardinality(listed) \in Nat
  BY FS_CardinalityType DEF GraphTyped
<1> QED BY <1>3, <1>4, <1>6, <1>7

-----------------------------------------------------------------------------
(* Steps.                                                                  *)

\* Whatever graph it is about, a search begins right.
LEMMA BeginStep ==
  ASSUME GraphTyped, NEW ns, NEW es, Begin(ns, es), listed' = ns, edges' = es,
         IsFiniteSet(ns), IsFiniteSet(es)
  PROVE  /\ order' \in Seq(listed') /\ ready' \subseteq listed' /\ follow' \subseteq edges'
         /\ degree' \in [listed' -> Nat]
         /\ SearchInv'
<1>1. order' = <<>> /\ follow' = {} /\ Taken' = {}
  BY DEF Begin, Taken
<1>2. ASSUME NEW n \in ns
      PROVE  Waiting(n)' = {e \in es : e.target = n} /\ Cardinality(Waiting(n)') \in Nat
             /\ degree'[n] = Cardinality(Waiting(n)')
  <2>1. Waiting(n)' = {e \in es : e.target = n}
    BY <1>1 DEF Waiting
  <2>2. IsFiniteSet(Waiting(n)')
    BY <2>1, FS_Subset
  <2> QED BY <2>1, <2>2, FS_CardinalityType DEF Begin, InDegree
<1>3. degree' = [n \in ns |-> InDegree(es, n)] /\ ready' = {n \in ns : InDegree(es, n) = 0}
  BY DEF Begin
<1>4. \A n \in ns : InDegree(es, n) = Cardinality(Waiting(n)')
  BY <1>2, <1>3
<1> QED BY <1>1, <1>2, <1>3, <1>4 DEF SearchInv, Rejected

LEMMA ValidateStep ==
  ASSUME GraphInv, NEW f \in Files, stage = "none", Validate(f)
  PROVE  GraphInv'
<1>1. IsFiniteSet(f.ids) /\ IsFiniteSet(f.edges) /\ f.twice \in BOOLEAN
  BY GraphAssumption
<1>2. /\ listed' = f.ids /\ edges' = f.edges /\ twice' = f.twice
      /\ Begin(f.ids, f.edges) /\ landed' = {}
      /\ stage' \in {"check", "invalid"}
  BY DEF Validate, wiring, GraphInv, Unwired, Rejected
<1>3. stage' = "check" => \A e \in edges' : e.source \in listed' /\ e.target \in listed' /\ ValidEdge(e)'
  BY <1>2 DEF Validate, ValidEdge
<1>4. /\ order' \in Seq(listed') /\ ready' \subseteq listed' /\ follow' \subseteq edges'
      /\ degree' \in [listed' -> Nat] /\ SearchInv'
  BY <1>1, <1>2, BeginStep DEF GraphInv
<1>5. GraphTyped'
  BY <1>1, <1>2, <1>3, <1>4 DEF GraphTyped, Stages, Rejected
<1>6. Unwired' /\ GraphKept'
  BY <1>2 DEF Unwired, GraphKept, StartsInOrder, NoDeafWire
<1> QED BY <1>4, <1>5, <1>6 DEF GraphInv

\* Neither step of a search touches what the properties are about.
LEMMA SearchKeeps ==
  ASSUME GraphInv, Searching, UNCHANGED <<stage, graph, wiring>>
  PROVE  Unwired' /\ GraphKept'
BY DEF GraphInv, Unwired, GraphKept, StartsInOrder, NoDeafWire, Searching, Rejected, Cyclic,
       graph, wiring

LEMMA TakeStep ==
  ASSUME GraphInv, NEW n \in ready, Take(n)
  PROVE  GraphInv'
<1>1. /\ ~Rejected /\ ~Rejected' /\ n \in listed /\ n \notin Taken /\ follow = {}
      /\ UNCHANGED <<stage, listed, twice, edges, degree>>
      /\ order' = Append(order, n) /\ ready' = ready \ {n}
      /\ follow' = {e \in edges : e.source = n}
  BY DEF GraphInv, GraphTyped, SearchInv, Take, Searching, Rejected, graph
<1>2. /\ order \in Seq(listed) /\ Len(order) \in Nat
      /\ DOMAIN order = 1..Len(order) /\ DOMAIN order' = 1..(Len(order) + 1)
      /\ \A i \in 1..Len(order) : order'[i] = order[i]
      /\ order'[Len(order) + 1] = n
  BY <1>1 DEF GraphInv, GraphTyped
<1>3. Taken' = Taken \cup {n}
  BY <1>2 DEF Taken
<1>4. \A m : Waiting(m)' = Waiting(m)
  BY <1>1, <1>3 DEF Waiting
<1>5. GraphTyped'
  BY <1>1, <1>2 DEF GraphInv, GraphTyped, Rejected, ValidEdge
<1>6. \A e \in edges : e.target = n => \E j \in 1..Len(order) : order[j] = e.source
  <2>1. SUFFICES ASSUME NEW e \in edges, e.target = n PROVE e.source \in Taken
    BY <1>2 DEF Taken
  <2>2. Waiting(n) = {}
    <3>1. Cardinality(Waiting(n)) = 0
      BY <1>1 DEF GraphInv, SearchInv
    <3>2. IsFiniteSet(Waiting(n))
      BY FS_Subset DEF Waiting, GraphInv, GraphTyped
    <3> QED BY <3>1, <3>2, FS_EmptySet
  <2> QED BY <2>1, <2>2 DEF Waiting
<1>7. SearchInv'
  <2> USE <1>1
  <2>1. \A m \in listed' : degree'[m] = Cardinality(Waiting(m)')
    BY <1>4 DEF GraphInv, SearchInv
  <2>2. \A m \in listed' : degree'[m] = 0 <=> m \in ready' \/ m \in Taken'
    BY <1>3 DEF GraphInv, SearchInv
  <2>3. \A m \in ready' : m \notin Taken'
    BY <1>3 DEF GraphInv, SearchInv
  <2>4. \A e \in follow' : e.source \in Taken'
    BY <1>3
  <2>5. \A i, j \in DOMAIN order' : order'[i] = order'[j] => i = j
    BY <1>2 DEF GraphInv, SearchInv, Taken
  <2>6. \A e \in edges' : \A i \in DOMAIN order' :
          order'[i] = e.target => \E j \in 1..(i - 1) : order'[j] = e.source
    <3>1. SUFFICES ASSUME NEW e \in edges, NEW i \in 1..(Len(order) + 1), order'[i] = e.target
                   PROVE  \E j \in 1..(i - 1) : order'[j] = e.source
      BY <1>2
    <3>2. CASE i = Len(order) + 1
      BY <3>1, <3>2, <1>2, <1>6
    <3>3. CASE i \in 1..Len(order)
      <4>1. PICK j \in 1..(i - 1) : order[j] = e.source
        BY <3>1, <3>3, <1>2 DEF GraphInv, SearchInv
      <4> QED BY <4>1, <3>3, <1>2
    <3> QED BY <3>2, <3>3, <1>2
  <2> QED BY <2>1, <2>2, <2>3, <2>4, <2>5, <2>6 DEF SearchInv
<1>8. Unwired' /\ GraphKept'
  BY SearchKeeps DEF Take
<1> QED BY <1>5, <1>7, <1>8 DEF GraphInv

LEMMA FollowStep ==
  ASSUME GraphInv, NEW e \in follow, Follow(e)
  PROVE  GraphInv'
<1> DEFINE t == e.target
<1>1. /\ ~Rejected /\ ~Rejected' /\ e \in edges /\ t \in listed /\ e.source \in Taken
      /\ UNCHANGED <<stage, listed, twice, edges, order>>
      /\ Taken' = Taken
      /\ follow' = follow \ {e}
      /\ degree' = [degree EXCEPT ![t] = @ - 1]
      /\ ready' = IF degree[t] = 1 THEN ready \cup {t} ELSE ready
  BY DEF GraphInv, GraphTyped, SearchInv, Follow, Searching, Rejected, graph, Taken
<1>2. \A n : n # t => Waiting(n)' = Waiting(n)
  BY <1>1 DEF Waiting
<1>3. Waiting(t)' = Waiting(t) \ {e} /\ e \in Waiting(t)
  BY <1>1 DEF Waiting
<1>4. IsFiniteSet(Waiting(t)) /\ Cardinality(Waiting(t)) = degree[t] /\ degree[t] \in Nat
  BY <1>1, FS_Subset DEF Waiting, GraphInv, GraphTyped, SearchInv
<1>5. Cardinality(Waiting(t)') = degree[t] - 1 /\ degree[t] # 0
  BY <1>3, <1>4, FS_RemoveElement, FS_EmptySet
<1>6. degree' \in [listed -> Nat] /\ degree'[t] = degree[t] - 1
      /\ \A n \in listed : n # t => degree'[n] = degree[n]
  BY <1>1, <1>4, <1>5 DEF GraphInv, GraphTyped
<1>7. GraphTyped'
  BY <1>1, <1>6 DEF GraphInv, GraphTyped, Rejected, ValidEdge
<1>8. SearchInv'
  <2> USE <1>1
  <2>1. \A n \in listed' : degree'[n] = Cardinality(Waiting(n)')
    BY <1>2, <1>5, <1>6 DEF GraphInv, SearchInv
  <2>2. t \notin ready /\ t \notin Taken
    BY <1>5 DEF GraphInv, SearchInv
  <2>3. \A n \in listed' : degree'[n] = 0 <=> n \in ready' \/ n \in Taken'
    BY <1>4, <1>5, <1>6, <2>2 DEF GraphInv, SearchInv
  <2>4. \A n \in ready' : n \notin Taken'
    BY <2>2 DEF GraphInv, SearchInv
  <2>5. \A f \in follow' : f.source \in Taken'
    BY DEF GraphInv, SearchInv
  <2>6. /\ \A i, j \in DOMAIN order' : order'[i] = order'[j] => i = j
        /\ \A f \in edges' : \A i \in DOMAIN order' :
             order'[i] = f.target => \E j \in 1..(i - 1) : order'[j] = f.source
    BY DEF GraphInv, SearchInv
  <2> QED BY <2>1, <2>3, <2>4, <2>5, <2>6 DEF SearchInv
<1>9. Unwired' /\ GraphKept'
  BY SearchKeeps DEF Follow
<1> QED BY <1>7, <1>8, <1>9 DEF GraphInv

\* When a search is over, the invariant of the search holds on.
LEMMA SearchOver ==
  ASSUME GraphInv, ~Rejected, ~Rejected', stage' \in Stages,
         UNCHANGED <<graph, wiring, degree, ready, follow, order>>
  PROVE  GraphTyped' /\ SearchInv'
<1>1. Taken' = Taken /\ \A n : Waiting(n)' = Waiting(n)
  BY DEF Taken, Waiting, graph
<1>2. GraphTyped'
  BY DEF GraphInv, GraphTyped, Rejected, ValidEdge, graph
<1>3. SearchInv'
  BY <1>1 DEF GraphInv, SearchInv, graph
<1> QED BY <1>2, <1>3

LEMMA CheckedStep ==
  ASSUME GraphInv, Checked
  PROVE  GraphInv'
<1>1. /\ ~Rejected /\ ~Rejected' /\ stage' \in {"wire", "cyclic"} /\ Exhausted
      /\ UNCHANGED <<graph, wiring, degree, ready, follow, order>>
      /\ landed' = {} /\ twice' = twice
  BY DEF Checked, Rejected, GraphInv, Unwired, wiring, graph
<1>2. GraphTyped' /\ SearchInv'
  BY <1>1, SearchOver DEF Stages
<1>3. Cyclic' <=> Cyclic
  BY <1>1 DEF Cyclic, graph
<1>4. GraphTyped /\ SearchInv /\ twice \in BOOLEAN
  BY DEF GraphInv, GraphTyped
<1>5. stage' = "wire" => ~Cyclic
  <2>1. SUFFICES ASSUME Len(order) = Entries PROVE ~Cyclic
    BY DEF Checked
  <2>2. listed \subseteq Taken
    BY <2>1, <1>1, <1>4, LengthCounts DEF Entries
  <2> QED BY <2>2, <1>1, <1>4, NoCycleInOrder
<1>6. stage' = "cyclic" => Cyclic \/ twice
  <2>1. SUFFICES ASSUME Len(order) # Entries, ~twice PROVE Cyclic
    BY DEF Checked
  <2>2. ~(listed \subseteq Taken)
    BY <2>1, <1>1, <1>4, LengthCounts DEF Entries
  <2> QED BY <2>2, <1>1, <1>4, RestIsCyclic
<1>7. Unwired' /\ GraphKept'
  BY <1>1, <1>3, <1>5, <1>6 DEF Unwired, GraphKept, StartsInOrder, NoDeafWire
<1> QED BY <1>2, <1>7 DEF GraphInv

LEMMA WireEdgesStep ==
  ASSUME GraphInv, WireEdges
  PROVE  GraphInv'
<1>1. /\ ~Rejected /\ ~Rejected' /\ stage = "wire" /\ stage' = "order"
      /\ UNCHANGED graph /\ listed' = listed /\ edges' = edges /\ twice' = twice
      /\ Begin(listed, edges) /\ IsFiniteSet(listed) /\ IsFiniteSet(edges)
      /\ \A e \in edges : e.source \in listed /\ e.target \in listed /\ ValidEdge(e)
  BY DEF WireEdges, Rejected, graph, GraphInv, GraphTyped
<1>2. /\ order' \in Seq(listed') /\ ready' \subseteq listed' /\ follow' \subseteq edges'
      /\ degree' \in [listed' -> Nat] /\ SearchInv'
  BY <1>1, BeginStep DEF GraphInv
<1>3. GraphTyped'
  BY <1>1, <1>2 DEF GraphInv, GraphTyped, Stages, Rejected, ValidEdge
<1>4. NoDeafWire'
  <2>1. SUFFICES ASSUME NEW e \in edges, e.type # "attribute",
                        NEW w, w = <<e.target, IF e.type = "control" THEN "control" ELSE e.targetPort, e.type>>
                 PROVE  \/ w[2] = "control"
                        \/ w[3] # "control" /\ PortAllowed(w[2], SchemaOf(TypeOf[w[1]]).inputs)
    BY DEF WireEdges, NoDeafWire
  <2>2. CASE e.type = "control"
    BY <2>1, <2>2
  <2>3. CASE e.type # "control"
    <3>1. PortAllowed(e.targetPort, SchemaOf(TypeOf[e.target]).inputs)
      BY <1>1, <2>1, <2>3 DEF ValidEdge
    <3> QED BY <3>1, <2>1, <2>3
  <2> QED BY <2>2, <2>3
<1>5. StartsInOrder'
  BY <1>1 DEF GraphInv, GraphKept, StartsInOrder, Cyclic
<1>6. Unwired'
  BY <1>1 DEF Unwired, Rejected
<1> QED BY <1>2, <1>3, <1>4, <1>5, <1>6 DEF GraphInv, GraphKept

LEMMA OrderedStep ==
  ASSUME GraphInv, Ordered
  PROVE  GraphInv'
<1>1. /\ ~Rejected /\ ~Rejected' /\ stage = "order" /\ stage' = "start" /\ Exhausted
      /\ UNCHANGED <<graph, wiring, degree, ready, follow, order>>
  BY DEF Ordered, Rejected
<1>2. GraphTyped' /\ SearchInv'
  BY <1>1, SearchOver DEF Stages
<1>3. ~Cyclic /\ ~Cyclic'
  BY <1>1 DEF GraphInv, GraphKept, StartsInOrder, Cyclic, graph
<1>4. listed \subseteq Taken
  BY <1>1, <1>3, RestIsCyclic DEF GraphInv
<1>5. StartsInOrder'
  <2>1. \A n \in listed' : \E i \in DOMAIN order' : order'[i] = n
    BY <1>1, <1>4 DEF Taken, graph
  <2> QED BY <1>1, <1>2, <1>3, <2>1 DEF StartsInOrder, SearchInv
<1>6. NoDeafWire' /\ Unwired'
  BY <1>1 DEF GraphInv, GraphKept, NoDeafWire, Unwired, Rejected, wiring
<1> QED BY <1>2, <1>5, <1>6 DEF GraphInv, GraphKept

LEMMA GraphInvInvariant == GraphSpec => []GraphInv
<1>1. GraphInit => GraphInv
  <2>1. SUFFICES ASSUME GraphInit PROVE GraphInv
    OBVIOUS
  <2>2. GraphTyped
    <3>1. IsFiniteSet(listed) /\ IsFiniteSet(edges)
      BY <2>1, FS_EmptySet DEF GraphInit
    <3>2. order \in Seq(listed)
      BY <2>1 DEF GraphInit
    <3> QED BY <2>1, <3>1, <3>2 DEF GraphInit, GraphTyped, Stages, Rejected
  <2>3. SearchInv /\ Unwired /\ GraphKept
    BY <2>1 DEF GraphInit, SearchInv, Unwired, GraphKept, StartsInOrder, NoDeafWire, Rejected
  <2> QED BY <2>2, <2>3 DEF GraphInv
<1>2. GraphInv /\ [GraphNext]_graphVars => GraphInv'
  <2>1. SUFFICES ASSUME GraphInv, [GraphNext]_graphVars PROVE GraphInv'
    OBVIOUS
  <2>2. CASE UNCHANGED graphVars
    <3>1. UNCHANGED <<stage, listed, twice, edges, landed, pumped, degree, ready, follow, order>>
      BY <2>2 DEF graphVars, graph, wiring
    <3>2. Taken' = Taken /\ (\A n : Waiting(n)' = Waiting(n)) /\ Rejected' = Rejected /\ Cyclic' = Cyclic
      BY <3>1 DEF Taken, Waiting, Rejected, Cyclic
    <3>3. GraphTyped' /\ SearchInv'
      BY <2>1, <3>1, <3>2 DEF GraphInv, GraphTyped, SearchInv, ValidEdge
    <3>4. Unwired' /\ GraphKept'
      BY <2>1, <3>1, <3>2 DEF GraphInv, Unwired, GraphKept, StartsInOrder, NoDeafWire
    <3> QED BY <3>3, <3>4 DEF GraphInv
  <2>3. CASE \E f \in Files : stage = "none" /\ Validate(f)
    BY <2>1, <2>3, ValidateStep
  <2>4. CASE \E n \in ready : Take(n)
    BY <2>1, <2>4, TakeStep
  <2>5. CASE \E e \in follow : Follow(e)
    BY <2>1, <2>5, FollowStep
  <2>6. CASE Checked
    BY <2>1, <2>6, CheckedStep
  <2>7. CASE WireEdges
    BY <2>1, <2>7, WireEdgesStep
  <2>8. CASE Ordered
    BY <2>1, <2>8, OrderedStep
  <2> QED BY <2>1, <2>2, <2>3, <2>4, <2>5, <2>6, <2>7, <2>8 DEF GraphNext
<1> QED BY <1>1, <1>2, PTL DEF GraphSpec

\* Engine.run() starts every node of the graphs it lets through, after the nodes
\* that send to it, and lets through all that have no cycle and list each id
\* once; a wire ends in a port that is read.  (engine.py, validate, _wire_edges,
\* _topological_order.)
THEOREM StartedInOrder == GraphSpec => []GraphKept
BY GraphInvInvariant, PTL DEF GraphInv

-----------------------------------------------------------------------------
(* The five together. *)

\* What is said of each part above holds of the five side by side, for any
\* wires, items, node objects and graphs: none of them changes another's state.
THEOREM PartsKept ==
  Spec => [](InputPortKept /\ OutputPortKept /\ CountedOnce /\ RegistryKept /\ GraphKept)
<1>1. Init => InputInit /\ OutputInit /\ MetricsInit /\ RegistryInit /\ GraphInit
  BY DEF Init
<1>2. ASSUME [Next]_vars
      PROVE  /\ [InputNext]_inputVars /\ [OutputNext]_outputVars
             /\ [MetricsNext]_metricVars /\ [RegistryNext]_registryVars
             /\ [GraphNext]_graphVars
  <2>1. CASE Next
    BY <2>1, Zenon DEF Next
  <2>2. CASE UNCHANGED vars
    BY <2>2, Zenon DEF vars
  <2> QED
    BY <1>2, <2>1, <2>2
<1>3. Spec => InputSpec /\ OutputSpec /\ MetricsSpec /\ RegistrySpec /\ GraphSpec
  BY <1>1, <1>2, PTL DEF Spec, InputSpec, OutputSpec, MetricsSpec, RegistrySpec, GraphSpec
<1> QED
  BY <1>3, InputKept, OutputKept, NothingTwice, IdKept, StartedInOrder, PTL
=============================================================================
