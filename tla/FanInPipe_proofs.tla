-------------------------- MODULE FanInPipe_proofs --------------------------
(***************************************************************************)
(* Proofs about FanInPipe, for every finite set of wires and any number of *)
(* items: what the reader receives is what MergedInput allows, nothing is  *)
(* lost on a wire that stays, and the buffer is bounded by the wires.      *)
(***************************************************************************)
EXTENDS FanInPipe, FiniteSetTheorems, TLAPS

Entries == Sources \X (0..MaxItems)

\* The strengthening: where the one item that may be between a pipe and the
\* reader is, and which item it is.
InPipe       == \A s \in Sources : taken[s] <= sent[s]
TasksOfWires == \A s \in Sources : task[s] # "none" => s \in sources
WiresApart   == sources \cap gone = {}
ReadsEmpty   == reading => buffer = <<>>

BufferIsNext ==
  \A i \in 1..Len(buffer) :
    LET s == buffer[i][1] IN
    buffer[i][2] = delivered[s] + 1 /\ taken[s] = delivered[s] + 1

ResultIsNext ==
  \A s \in Sources : task[s] = "done" =>
    result[s] = delivered[s] + 1 /\ taken[s] = delivered[s] + 1

NothingBetween ==
  \A s \in Sources \ gone : ~Buffered(s) /\ task[s] # "done" => taken[s] = delivered[s]

FlowInv ==
  /\ TypeOK
  /\ InPipe
  /\ TasksOfWires
  /\ WiresApart
  /\ ReadsEmpty
  /\ OneAheadPerSource
  /\ BufferIsNext
  /\ ResultIsNext
  /\ NothingBetween

-----------------------------------------------------------------------------
\* _drain_done() and what get() does with it, told without the order: the
\* first result is handed out, the buffer holds each other one once.
LEMMA DrainEffect ==
  ASSUME TypeOK, buffer = <<>>, Finished # {}, Drain
  PROVE  \E first \in Finished :
           /\ delivered' = [delivered EXCEPT ![first] = result[first]]
           /\ task' = [s \in Sources |-> IF s \in Finished THEN "none" ELSE task[s]]
           /\ result' = [s \in Sources |-> IF s \in Finished THEN 0 ELSE result[s]]
           /\ buffer' \in Seq(Entries)
           /\ \A i \in 1..Len(buffer') :
                /\ buffer'[i][1] \in Finished \ {first}
                /\ buffer'[i][2] = result[buffer'[i][1]]
           /\ \A i, j \in 1..Len(buffer') : buffer'[i][1] = buffer'[j][1] => i = j
           /\ \A s \in Finished \ {first} : \E i \in 1..Len(buffer') : buffer'[i][1] = s
<1> DEFINE n == Cardinality(Finished)
<1>1. n \in Nat
  BY FS_Subset, FS_CardinalityType, FanInAssumption DEF Finished
<1>2. PICK order \in Bijection(1..n, Finished) :
        /\ delivered' = [delivered EXCEPT ![order[1]] = result[order[1]]]
        /\ buffer' = buffer \o [i \in 1..(n - 1) |-> <<order[i + 1], result[order[i + 1]]>>]
        /\ task' = [s \in Sources |-> IF s \in Finished THEN "none" ELSE task[s]]
        /\ result' = [s \in Sources |-> IF s \in Finished THEN 0 ELSE result[s]]
  BY DEF Drain
<1>3. /\ order \in [1..n -> Finished]
      /\ \A i, j \in 1..n : order[i] = order[j] => i = j
      /\ \A s \in Finished : \E i \in 1..n : order[i] = s
  BY <1>2 DEF Bijection, Injection, Surjection, IsInjective
<1>4. n >= 1
  BY <1>1, <1>3
<1> DEFINE rest == [i \in 1..(n - 1) |-> <<order[i + 1], result[order[i + 1]]>>]
<1> HIDE DEF n
<1>5. \A i \in 1..(n - 1) : i + 1 \in 1..n /\ order[i + 1] \in Finished
                            /\ result[order[i + 1]] \in 0..MaxItems
  BY <1>1, <1>3 DEF TypeOK, Finished
<1>6. rest \in Seq(Entries) /\ Len(rest) = n - 1
  <2>1. \A i \in 1..(n - 1) : rest[i] \in Entries
    BY <1>5 DEF Entries, Finished
  <2>2. n - 1 \in Nat
    BY <1>1, <1>4
  <2> HIDE DEF Entries
  <2> QED
    BY <2>1, <2>2
<1>7. buffer' = rest
  BY <1>2, <1>6
<1>8. \A i \in 1..(n - 1) : buffer'[i][1] = order[i + 1] /\ buffer'[i][2] = result[order[i + 1]]
  BY <1>7
<1>9. order[1] \in Finished
  BY <1>1, <1>3, <1>4
<1>10. \A i \in 1..Len(buffer') : /\ buffer'[i][1] \in Finished \ {order[1]}
                                  /\ buffer'[i][2] = result[buffer'[i][1]]
  BY <1>1, <1>3, <1>4, <1>5, <1>6, <1>7, <1>8
<1>11. \A i, j \in 1..Len(buffer') : buffer'[i][1] = buffer'[j][1] => i = j
  BY <1>1, <1>3, <1>4, <1>5, <1>6, <1>7, <1>8
<1>12. \A s \in Finished \ {order[1]} : \E i \in 1..Len(buffer') : buffer'[i][1] = s
  <2> SUFFICES ASSUME NEW s \in Finished \ {order[1]}
               PROVE  \E i \in 1..Len(buffer') : buffer'[i][1] = s
    OBVIOUS
  <2>1. PICK k \in 1..n : order[k] = s
    BY <1>3
  <2>2. k - 1 \in 1..(n - 1) /\ (k - 1) + 1 = k
    BY <2>1, <1>1, <1>4
  <2>3. buffer'[k - 1][1] = s
    BY <1>8, <2>1, <2>2
  <2> QED
    BY <2>2, <2>3, <1>6, <1>7
<1> QED
  BY <1>2, <1>6, <1>7, <1>9, <1>10, <1>11, <1>12

-----------------------------------------------------------------------------
(* The invariant.                                                          *)

\* A port that has just been merged satisfies the invariant.
LEMMA FlowInit == Init => FlowInv
<1> SUFFICES ASSUME Init PROVE FlowInv
  OBVIOUS
<1> USE DEF Init
<1>1. buffer = <<>> /\ Len(buffer) = 0
  OBVIOUS
<1>2. TypeOK
  <2>1. 0 \in 0..MaxItems
    BY FanInAssumption
  <2>2. buffer \in Seq(Sources \X (0..MaxItems))
    BY <1>1
  <2> QED
    BY <2>1, <2>2, FanInAssumption DEF TypeOK
<1>3. /\ InPipe
      /\ TasksOfWires
      /\ WiresApart
      /\ ReadsEmpty
      /\ ResultIsNext
      /\ NothingBetween
  BY DEF InPipe, TasksOfWires, WiresApart, ReadsEmpty, ResultIsNext, NothingBetween
<1>4. OneAheadPerSource /\ BufferIsNext
  BY <1>1 DEF OneAheadPerSource, BufferIsNext, Buffered
<1> QED
  BY <1>2, <1>3, <1>4 DEF FlowInv

\* What get() hands out first when the buffer is not empty.
LEMMA HeadEntry ==
  ASSUME TypeOK, BufferIsNext, buffer # <<>>
  PROVE  /\ Len(buffer) >= 1
         /\ Head(buffer) = buffer[1]
         /\ buffer[1][1] \in Sources
         /\ buffer[1][2] \in 0..MaxItems
         /\ buffer[1][2] = delivered[buffer[1][1]] + 1
         /\ taken[buffer[1][1]] = delivered[buffer[1][1]] + 1
<1>1. buffer \in Seq(Entries)
  BY DEF TypeOK, Entries
<1>2. Len(buffer) >= 1 /\ Head(buffer) = buffer[1] /\ buffer[1] \in Entries
  BY <1>1
<1>3. 1 \in 1..Len(buffer)
  BY <1>1, <1>2
<1>4. buffer[1][1] \in Sources /\ buffer[1][2] \in 0..MaxItems
  BY <1>2 DEF Entries
<1> QED
  BY <1>2, <1>3, <1>4 DEF BufferIsNext

\* A step that collects finished tasks: their items move to the reader and
\* into the buffer.
LEMMA DrainStep ==
  ASSUME FlowInv, buffer = <<>>, Finished # {}, Drain, reading' = FALSE,
         watched' \subseteq Sources, UNCHANGED <<wireVars, taken>>
  PROVE  FlowInv'
<1> USE DEF wireVars
<1>1. PICK first \in Finished :
        /\ delivered' = [delivered EXCEPT ![first] = result[first]]
        /\ task' = [s \in Sources |-> IF s \in Finished THEN "none" ELSE task[s]]
        /\ result' = [s \in Sources |-> IF s \in Finished THEN 0 ELSE result[s]]
        /\ buffer' \in Seq(Entries)
        /\ \A i \in 1..Len(buffer') :
             /\ buffer'[i][1] \in Finished \ {first}
             /\ buffer'[i][2] = result[buffer'[i][1]]
        /\ \A i, j \in 1..Len(buffer') : buffer'[i][1] = buffer'[j][1] => i = j
        /\ \A s \in Finished \ {first} : \E i \in 1..Len(buffer') : buffer'[i][1] = s
  BY DrainEffect DEF FlowInv
<1>2. TypeOK'
  <2>1. delivered' \in [Sources -> 0..MaxItems]
    BY <1>1 DEF FlowInv, TypeOK, Finished
  <2>2. task' \in [Sources -> {"none", "waiting", "done"}]
    BY <1>1 DEF FlowInv, TypeOK
  <2>3. result' \in [Sources -> 0..MaxItems]
    BY <1>1, FanInAssumption DEF FlowInv, TypeOK
  <2> QED
    BY <1>1, <2>1, <2>2, <2>3 DEF FlowInv, TypeOK, Entries
<1>3. /\ InPipe'
      /\ TasksOfWires'
      /\ WiresApart'
      /\ ReadsEmpty'
  BY <1>1 DEF FlowInv, TypeOK, InPipe, TasksOfWires, WiresApart, ReadsEmpty, Finished
<1>4. \A s \in Sources : Buffered(s)' <=> s \in Finished \ {first}
  BY <1>1 DEF Buffered
<1>5. OneAheadPerSource'
  BY <1>1, <1>4 DEF OneAheadPerSource
<1>6. BufferIsNext'
  <2> SUFFICES ASSUME NEW i \in 1..Len(buffer')
               PROVE  /\ buffer'[i][2] = delivered'[buffer'[i][1]] + 1
                      /\ taken'[buffer'[i][1]] = delivered'[buffer'[i][1]] + 1
    BY DEF BufferIsNext
  <2> DEFINE s == buffer'[i][1]
  <2>1. s \in Finished /\ s # first /\ s \in Sources /\ buffer'[i][2] = result[s]
    BY <1>1 DEF Finished
  <2> HIDE DEF s
  <2>2. delivered'[s] = delivered[s]
    BY <1>1, <2>1 DEF FlowInv, TypeOK
  <2>3. result[s] = delivered[s] + 1 /\ taken[s] = delivered[s] + 1
    BY <2>1 DEF FlowInv, ResultIsNext, Finished
  <2> QED
    BY <2>1, <2>2, <2>3 DEF s
<1>7. ResultIsNext'
  BY <1>1 DEF FlowInv, TypeOK, ResultIsNext, Finished
<1>8. NothingBetween'
  <2> SUFFICES ASSUME NEW s \in Sources \ gone', ~Buffered(s)', task'[s] # "done"
               PROVE  taken'[s] = delivered'[s]
    BY DEF NothingBetween
  <2>1. CASE s = first
    BY <1>1, <2>1 DEF FlowInv, TypeOK, ResultIsNext, Finished
  <2>2. CASE s # first
    <3>1. s \notin Finished
      BY <1>4, <2>2
    <3>2. ~Buffered(s)
      BY DEF Buffered
    <3> QED
      BY <1>1, <2>2, <3>1, <3>2 DEF FlowInv, TypeOK, NothingBetween, Finished
  <2> QED
    BY <2>1, <2>2
<1> QED
  BY <1>2, <1>3, <1>5, <1>6, <1>7, <1>8 DEF FlowInv

\* _arm() on an empty buffer: the new tasks have nothing yet.
LEMMA ArmStep ==
  ASSUME FlowInv, buffer = <<>>, Arm,
         UNCHANGED <<wireVars, taken, result, buffer, delivered>>, reading' \in BOOLEAN
  PROVE  FlowInv'
<1>1. \A s \in Sources : ~Buffered(s) /\ ~Buffered(s)'
  BY DEF Buffered
<1> QED
  BY <1>1
     DEF Arm, wireVars, FlowInv, TypeOK, InPipe, TasksOfWires, WiresApart, ReadsEmpty,
         OneAheadPerSource, BufferIsNext, ResultIsNext, NothingBetween

\* Every step keeps the invariant.
LEMMA FlowStep == FlowInv /\ [Next]_vars => FlowInv'
<1> SUFFICES ASSUME FlowInv, [Next]_vars PROVE FlowInv'
  OBVIOUS
<1> USE DEF wireVars, taskVars, readVars
<1>1. ASSUME NEW s \in Sources, Send(s) PROVE FlowInv'
  <2>1. sent' \in [Sources -> 0..MaxItems] /\ \A r \in Sources : sent[r] <= sent'[r]
    BY <1>1, FanInAssumption DEF Send, FlowInv, TypeOK
  <2>2. TypeOK'
    BY <1>1, <2>1 DEF Send, FlowInv, TypeOK
  <2>3. InPipe'
    BY <1>1, <2>1, FanInAssumption DEF Send, FlowInv, TypeOK, InPipe
  <2> QED
    BY <1>1, <2>2, <2>3
       DEF Send, FlowInv, TasksOfWires, WiresApart, ReadsEmpty, OneAheadPerSource,
           BufferIsNext, ResultIsNext, NothingBetween, Buffered
<1>2. ASSUME NEW s \in Sources, AddSource(s) PROVE FlowInv'
  BY <1>2 DEF AddSource, FlowInv, TypeOK, InPipe, TasksOfWires, WiresApart, ReadsEmpty,
       OneAheadPerSource, BufferIsNext, ResultIsNext, NothingBetween, Buffered
<1>3. ASSUME NEW s \in Sources, RemoveSource(s) PROVE FlowInv'
  <2>1. \A r \in Sources : Buffered(r)' <=> Buffered(r)
    BY <1>3 DEF RemoveSource, Buffered
  <2>2. TypeOK'
    BY <1>3, FanInAssumption DEF RemoveSource, FlowInv, TypeOK
  <2>3. /\ InPipe'
        /\ TasksOfWires'
        /\ WiresApart'
        /\ ReadsEmpty'
        /\ BufferIsNext'
    BY <1>3 DEF RemoveSource, FlowInv, TypeOK, InPipe, TasksOfWires, WiresApart, ReadsEmpty,
         BufferIsNext
  <2>4. OneAheadPerSource'
    BY <1>3, <2>1 DEF RemoveSource, FlowInv, TypeOK, OneAheadPerSource
  <2>5. ResultIsNext' /\ NothingBetween'
    BY <1>3, <2>1 DEF RemoveSource, FlowInv, TypeOK, ResultIsNext, NothingBetween
  <2> QED
    BY <2>2, <2>3, <2>4, <2>5 DEF FlowInv
<1>4. ASSUME NEW s \in Sources, TaskTakes(s) PROVE FlowInv'
  <2>1. /\ s \notin gone
        /\ ~Buffered(s)
        /\ taken[s] = delivered[s]
    BY <1>4 DEF TaskTakes, HasItem, FlowInv, TasksOfWires, WiresApart, OneAheadPerSource, NothingBetween
  <2>2. \A r \in Sources : Buffered(r)' <=> Buffered(r)
    BY <1>4 DEF TaskTakes, HasItem, Buffered
  <2>3. TypeOK'
    <3>1. taken[s] + 1 \in 0..MaxItems
      BY <1>4, FanInAssumption DEF TaskTakes, HasItem, FlowInv, TypeOK
    <3>2. /\ taken' = [taken EXCEPT ![s] = taken[s] + 1]
          /\ task' = [task EXCEPT ![s] = "done"]
          /\ result' = [result EXCEPT ![s] = taken[s] + 1]
      BY <1>4 DEF TaskTakes
    <3> QED
      BY <1>4, <3>1, <3>2 DEF TaskTakes, HasItem, FlowInv, TypeOK
  <2>4. /\ InPipe'
        /\ TasksOfWires'
        /\ WiresApart'
        /\ ReadsEmpty'
        /\ OneAheadPerSource'
    <3>1. InPipe'
      BY <1>4 DEF TaskTakes, HasItem, FlowInv, TypeOK, InPipe
    <3>2. TasksOfWires' /\ WiresApart' /\ ReadsEmpty'
      BY <1>4 DEF TaskTakes, FlowInv, TypeOK, TasksOfWires, WiresApart, ReadsEmpty
    <3>3. OneAheadPerSource'
      BY <1>4, <2>1, <2>2 DEF TaskTakes, FlowInv, TypeOK, OneAheadPerSource
    <3> QED
      BY <3>1, <3>2, <3>3
  <2>5. BufferIsNext'
    <3>1. \A i \in 1..Len(buffer) : buffer[i][1] # s
      BY <2>1 DEF Buffered
    <3>2. \A i \in 1..Len(buffer) : buffer[i] \in Sources \X (0..MaxItems)
      BY DEF FlowInv, TypeOK
    <3>3. \A i \in 1..Len(buffer) : buffer[i][1] \in Sources
      BY <3>2
    <3> QED
      BY <1>4, <3>1, <3>3 DEF TaskTakes, HasItem, FlowInv, TypeOK, BufferIsNext
  <2>6. ResultIsNext' /\ NothingBetween'
    BY <1>4, <2>1, <2>2 DEF TaskTakes, HasItem, FlowInv, TypeOK, ResultIsNext, NothingBetween
  <2> QED
    BY <2>3, <2>4, <2>5, <2>6 DEF FlowInv
<1>5. CASE GetBuffered
  <2> DEFINE s == buffer[1][1]
  <2>1. /\ Len(buffer) >= 1
        /\ s \in Sources
        /\ buffer[1][2] = delivered[s] + 1 /\ taken[s] = delivered[s] + 1
        /\ delivered' = [delivered EXCEPT ![s] = buffer[1][2]]
        /\ buffer[1][2] \in 0..MaxItems
    BY <1>5, HeadEntry DEF GetBuffered, FlowInv
  <2>2. /\ buffer' \in Seq(Entries)
        /\ Len(buffer') = Len(buffer) - 1
        /\ \A i \in 1..Len(buffer') : i + 1 \in 1..Len(buffer) /\ buffer'[i] = buffer[i + 1]
    BY <1>5 DEF GetBuffered, FlowInv, TypeOK, Entries
  <2>3. \A i \in 1..Len(buffer') : buffer'[i][1] # s /\ buffer'[i][1] \in Sources
    <3> SUFFICES ASSUME NEW i \in 1..Len(buffer')
                 PROVE  buffer'[i][1] # s /\ buffer'[i][1] \in Sources
      OBVIOUS
    <3>1. 1 \in 1..Len(buffer) /\ i + 1 \in 1..Len(buffer) /\ i + 1 # 1
      BY <2>1, <2>2
    <3>2. buffer[i + 1][1] # buffer[1][1]
      BY <3>1 DEF FlowInv, OneAheadPerSource
    <3>3. buffer'[i] \in Entries
      BY <2>2
    <3> QED
      BY <2>2, <3>2, <3>3 DEF Entries
  <2>4. \A r \in Sources : Buffered(r)' <=> Buffered(r) /\ r # s
    <3> SUFFICES ASSUME NEW r \in Sources PROVE Buffered(r)' <=> Buffered(r) /\ r # s
      OBVIOUS
    <3>1. Buffered(r)' => Buffered(r) /\ r # s
      BY <2>2, <2>3 DEF Buffered
    <3>2. ASSUME NEW i \in 1..Len(buffer), buffer[i][1] = r, r # s PROVE Buffered(r)'
      <4>1. i - 1 \in 1..Len(buffer') /\ (i - 1) + 1 = i
        BY <3>2, <2>1, <2>2
      <4>2. buffer'[i - 1] = buffer[i]
        BY <4>1, <2>2
      <4> QED
        BY <3>2, <4>1, <4>2 DEF Buffered
    <3> QED
      BY <3>1, <3>2 DEF Buffered
  <2> HIDE DEF s
  <2>5. UNCHANGED <<wireVars, taskVars, reading, watched>> /\ ~reading
    BY <1>5 DEF GetBuffered
  <2>6. Buffered(s) /\ task[s] = "none"
    BY <2>1 DEF s, Buffered, FlowInv, OneAheadPerSource
  <2>7. TypeOK'
    BY <2>1, <2>2, <2>5 DEF FlowInv, TypeOK, Entries
  <2>8. /\ InPipe'
        /\ TasksOfWires'
        /\ WiresApart'
        /\ ReadsEmpty'
    BY <2>5 DEF FlowInv, InPipe, TasksOfWires, WiresApart, ReadsEmpty
  <2>9. OneAheadPerSource'
    BY <2>2, <2>4, <2>5 DEF FlowInv, OneAheadPerSource
  <2>10. BufferIsNext'
    <3> SUFFICES ASSUME NEW i \in 1..Len(buffer')
                 PROVE  /\ buffer'[i][2] = delivered'[buffer'[i][1]] + 1
                        /\ taken'[buffer'[i][1]] = delivered'[buffer'[i][1]] + 1
      BY DEF BufferIsNext
    <3>1. delivered'[buffer'[i][1]] = delivered[buffer'[i][1]]
      BY <2>1, <2>3 DEF FlowInv, TypeOK
    <3>2. /\ buffer[i + 1][2] = delivered[buffer[i + 1][1]] + 1
          /\ taken[buffer[i + 1][1]] = delivered[buffer[i + 1][1]] + 1
      BY <2>2 DEF FlowInv, BufferIsNext
    <3> QED
      BY <2>2, <2>5, <3>1, <3>2
  <2>11. ResultIsNext'
    BY <2>1, <2>5, <2>6 DEF FlowInv, TypeOK, ResultIsNext
  <2>12. NothingBetween'
    BY <2>1, <2>4, <2>5, <2>6 DEF FlowInv, TypeOK, NothingBetween
  <2> QED
    BY <2>7, <2>8, <2>9, <2>10, <2>11, <2>12 DEF FlowInv
<1>6. CASE GetFinished
  BY <1>6, DrainStep DEF GetFinished, FlowInv, TypeOK
<1>7. CASE GetWaits
  BY <1>7, ArmStep DEF GetWaits
<1>8. CASE WakeDelivers
  BY <1>8, DrainStep DEF WakeDelivers, Woken, FlowInv, ReadsEmpty
<1>9. CASE WakeRearms
  BY <1>9, ArmStep DEF WakeRearms, Woken, FlowInv, ReadsEmpty, TypeOK
<1>10. CASE Abandon
  BY <1>10 DEF Abandon, FlowInv, TypeOK, InPipe, TasksOfWires, WiresApart, ReadsEmpty,
       OneAheadPerSource, BufferIsNext, ResultIsNext, NothingBetween, Buffered
<1>11. CASE UNCHANGED vars
  BY <1>11 DEF vars, FlowInv, TypeOK, InPipe, TasksOfWires, WiresApart, ReadsEmpty,
       OneAheadPerSource, BufferIsNext, ResultIsNext, NothingBetween, Buffered
<1> QED
  BY <1>1, <1>2, <1>3, <1>4, <1>5, <1>6, <1>7, <1>8, <1>9, <1>10, <1>11
     DEF Next, Get, Wake

\* The invariant holds in every state.
LEMMA FlowInvariant == Spec => []FlowInv
<1> QED
  BY FlowInit, FlowStep, PTL DEF Spec

-----------------------------------------------------------------------------
(* What follows.                                                           *)

\* Every variable keeps its type, and no counter exceeds what was put.
THEOREM FanInTyped == Spec => []TypeOK
<1>1. FlowInv => TypeOK
  BY DEF FlowInv
<1> QED
  BY <1>1, FlowInvariant, PTL

\* However often the reader gives up waiting, an item that has left the pipe
\* of a wire still in place is on its way to the reader, in one place.
THEOREM NoItemLost == Spec => []NothingLost
<1>1. FlowInv => NothingLost
  <2> SUFFICES ASSUME FlowInv, NEW s \in sources
               PROVE  taken[s] = delivered[s] + (IF Buffered(s) \/ task[s] = "done" THEN 1 ELSE 0)
    BY DEF NothingLost
  <2>1. s \in Sources \ gone /\ delivered[s] \in Nat
    BY DEF FlowInv, TypeOK, WiresApart
  <2>2. CASE Buffered(s)
    BY <2>1, <2>2 DEF FlowInv, BufferIsNext, Buffered
  <2>3. CASE task[s] = "done"
    BY <2>1, <2>3 DEF FlowInv, ResultIsNext
  <2>4. CASE ~Buffered(s) /\ task[s] # "done"
    BY <2>1, <2>4 DEF FlowInv, NothingBetween
  <2> QED
    BY <2>2, <2>3, <2>4
<1> QED
  BY <1>1, FlowInvariant, PTL

\* The buffer holds each wire at most once, and a wire with an item there has
\* no get() task, so reading ahead is bounded by the number of wires.
THEOREM BoundedReadAhead == Spec => []OneAheadPerSource
<1>1. FlowInv => OneAheadPerSource
  BY DEF FlowInv
<1> QED
  BY <1>1, FlowInvariant, PTL

\* A step that collects finished tasks delivers the next item of one wire.
LEMMA DrainDelivers ==
  ASSUME FlowInv, buffer = <<>>, Finished # {}, Drain, UNCHANGED wireVars
  PROVE  Merged!Next
<1>1. PICK s \in Finished : delivered' = [delivered EXCEPT ![s] = result[s]]
  BY DrainEffect DEF FlowInv
<1>2. /\ s \in Sources
      /\ result[s] = delivered[s] + 1
      /\ delivered[s] < sent[s]
  BY DEF Finished, FlowInv, TypeOK, ResultIsNext, InPipe
<1> QED
  BY <1>1, <1>2 DEF Merged!Next, Merged!Deliver, wireVars, FlowInv, TypeOK

\* A merged port implements MergedInput: every step sends one item on a wire,
\* or hands the reader the next item of one wire, or changes neither.
THEOREM Refinement == Spec => ImplementsMergedInput
<1>1. Init => Merged!Init
  BY DEF Init, Merged!Init
<1>2. FlowInv /\ [Next]_vars => [Merged!Next]_<<sent, delivered>>
  <2> SUFFICES ASSUME FlowInv, [Next]_vars
               PROVE  Merged!Next \/ UNCHANGED <<sent, delivered>>
    OBVIOUS
  <2> USE DEF wireVars, taskVars, readVars
  <2>1. ASSUME NEW s \in Sources, Send(s) PROVE Merged!Next
    BY <2>1 DEF Send, Merged!Next, Merged!Send
  <2>2. CASE GetBuffered
    <3> DEFINE s == buffer[1][1]
    <3>1. /\ s \in Sources
          /\ buffer[1][2] = delivered[s] + 1
          /\ taken[s] = delivered[s] + 1
          /\ delivered' = [delivered EXCEPT ![s] = buffer[1][2]]
      BY <2>2, HeadEntry DEF GetBuffered, FlowInv
    <3>2. delivered[s] < sent[s]
      BY <3>1 DEF FlowInv, TypeOK, InPipe
    <3> HIDE DEF s
    <3> QED
      BY <2>2, <3>1, <3>2 DEF GetBuffered, Merged!Next, Merged!Deliver
  <2>3. CASE GetFinished
    BY <2>3, DrainDelivers DEF GetFinished
  <2>4. CASE WakeDelivers
    BY <2>4, DrainDelivers DEF WakeDelivers, Woken, FlowInv, ReadsEmpty
  <2>5. CASE GetWaits \/ WakeRearms \/ Abandon
    BY <2>5 DEF GetWaits, WakeRearms, Abandon
  <2>6. ASSUME NEW s \in Sources, AddSource(s) \/ RemoveSource(s) \/ TaskTakes(s)
        PROVE  UNCHANGED <<sent, delivered>>
    BY <2>6 DEF AddSource, RemoveSource, TaskTakes
  <2>7. CASE UNCHANGED vars
    BY <2>7 DEF vars
  <2> QED
    BY <2>1, <2>2, <2>3, <2>4, <2>5, <2>6, <2>7 DEF Next, Get, Wake
<1> QED
  BY <1>1, <1>2, FlowInvariant, PTL DEF Spec, ImplementsMergedInput, Merged!Spec
=============================================================================
