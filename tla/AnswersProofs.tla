---------------------------- MODULE AnswersProofs ----------------------------
(***************************************************************************)
(* Proofs about personal memory, for every set of turns, finite or not,    *)
(* however they overlap, and for every number of faults and restarts; and  *)
(* about the search for people, for all collections, records and requests, *)
(* the resolution of references, for all corpora and questions, the search *)
(* of documents, for every corpus, number of workspaces and top_k, and the *)
(* pictures and tables of a document, whatever was converted.              *)
(***************************************************************************)
EXTENDS Figures, Memory, PeopleSearch, Resolver, Retrieval, FiniteSetTheorems,
        SequenceTheorems, WellFoundedInduction, TLAPS

-----------------------------------------------------------------------------
(* Types.                                                                  *)

Phases == {"new", "answering", "numbering", "summarising", "remembering", "over", "lost"}
TurnRecords ==
    [phase : Phases, next_index : Nat, after : SUBSET Turns, memory : SUBSET Turns,
     notice : BOOLEAN, tool : {"no", "saving", "ended"}]
QueueRecords ==
    [at : {"none", "ready", "taken", "written", "acked", "dead"}, tries : Nat]

MemoryShape ==
    /\ turn \in [Turns -> TurnRecords]
    /\ hrag_memory \in [Turns -> QueueRecords]
    /\ episodes \in Seq(Turns)
    /\ summaries \subseteq [turn : Turns, exchange_index : Nat]
    /\ misread \subseteq Turns

\* What is appended is in the graph, and nothing leaves it.
LEMMA RangeOfAppend ==
    ASSUME NEW S, NEW s \in Seq(S), NEW e \in S
    PROVE  Append(s, e) \in Seq(S) /\ Range(Append(s, e)) = Range(s) \cup {e}
<1>1. Append(s, e) \in Seq(S) /\ Len(Append(s, e)) = Len(s) + 1 /\ Len(s) \in Nat
  OBVIOUS
<1>2. \A i \in 1..Len(s) : Append(s, e)[i] = s[i]
  OBVIOUS
<1>3. Append(s, e)[Len(s) + 1] = e
  OBVIOUS
<1>4. DOMAIN s = 1..Len(s) /\ DOMAIN Append(s, e) = 1..(Len(s) + 1)
  OBVIOUS
<1>5. Range(s) = {s[i] : i \in 1..Len(s)}
  BY <1>4 DEF Range
<1>6. Range(Append(s, e)) = {Append(s, e)[i] : i \in 1..(Len(s) + 1)}
  BY <1>4 DEF Range
<1>7. Range(Append(s, e)) \subseteq Range(s) \cup {e}
  <2>1. ASSUME NEW i \in 1..(Len(s) + 1)
        PROVE  Append(s, e)[i] \in Range(s) \cup {e}
    <3>1. CASE i = Len(s) + 1
      BY <1>3, <3>1
    <3>2. CASE i # Len(s) + 1
      <4>1. i \in 1..Len(s)
        BY <1>1, <3>2
      <4> QED
        BY <1>2, <1>5, <4>1
    <3> QED
      BY <3>1, <3>2
  <2> QED
    BY <1>6, <2>1
<1>8. Range(s) \cup {e} \subseteq Range(Append(s, e))
  <2>1. ASSUME NEW i \in 1..Len(s)
        PROVE  s[i] \in Range(Append(s, e))
    <3>1. i \in 1..(Len(s) + 1)
      BY <1>1
    <3> QED
      BY <1>2, <1>6, <3>1
  <2>2. e \in Range(Append(s, e))
    <3>1. Len(s) + 1 \in 1..(Len(s) + 1)
      BY <1>1
    <3> QED
      BY <1>3, <1>6, <3>1
  <2> QED
    BY <1>5, <2>1, <2>2
<1> QED
  BY <1>1, <1>7, <1>8

LEMMA NewestAreTurns ==
    ASSUME NEW s \in Seq(Turns)
    PROVE  Newest(s) \in SUBSET Turns
<1> USE MemoryAssumption
<1> DEFINE first == IF Len(s) > RecallLimit THEN Len(s) - RecallLimit + 1 ELSE 1
<1>1. Len(s) \in Nat /\ first \in 1..(Len(s) + 1)
  OBVIOUS
<1> HIDE DEF first
<1>2. \A i \in first..Len(s) : s[i] \in Turns
  BY <1>1
<1>3. SubSeq(s, first, Len(s)) \in Seq(Turns)
  BY <1>1, <1>2
<1>4. Range(SubSeq(s, first, Len(s))) \subseteq Turns
  <2>1. \A i \in DOMAIN SubSeq(s, first, Len(s)) : SubSeq(s, first, Len(s))[i] \in Turns
    BY <1>3
  <2> QED
    BY <2>1 DEF Range
<1> QED
  BY <1>4 DEF Newest, first

\* A turn that moves on.
LEMMA TurnMoves ==
    ASSUME NEW t \in Turns, NEW r \in TurnRecords, MemoryShape,
           turn' = [turn EXCEPT ![t] = r]
    PROVE  /\ turn' \in [Turns -> TurnRecords]
           /\ \A u \in Turns : turn'[u] = IF u = t THEN r ELSE turn[u]
  BY DEF MemoryShape

\* A message that moves on.
LEMMA MessageMoves ==
    ASSUME NEW t \in Turns, NEW m \in QueueRecords, MemoryShape,
           hrag_memory' = [hrag_memory EXCEPT ![t] = m]
    PROVE  /\ hrag_memory' \in [Turns -> QueueRecords]
           /\ \A u \in Turns : hrag_memory'[u] = IF u = t THEN m ELSE hrag_memory[u]
  BY DEF MemoryShape

-----------------------------------------------------------------------------
(* What every step does to one turn, and how far it may move.              *)

Early == {"new", "answering", "numbering"}        \* no number taken yet
Settled == {"remembering", "over", "lost"}        \* no summary to come

\* The step of a turn that takes no number and saves no summary.
Ordinary(r, s) ==
    /\ s \in TurnRecords
    /\ s.next_index = r.next_index /\ s.after = r.after
    /\ r.phase \in Settled => s.phase \in Settled
    /\ s.phase \in Early => r.phase \in Early
    /\ s.phase = "summarising" => r.phase = "summarising"

OrdinaryTurns ==
    /\ turn' \in [Turns -> TurnRecords]
    /\ \A u \in Turns : Ordinary(turn[u], turn'[u])
    /\ summaries' = summaries

LEMMA OneOrdinaryTurn ==
    ASSUME MemoryShape, NEW t \in Turns, NEW r, Ordinary(turn[t], r),
           turn' = [turn EXCEPT ![t] = r], summaries' = summaries
    PROVE  OrdinaryTurns
<1>1. r \in TurnRecords
  BY DEF Ordinary
<1>2. /\ turn' \in [Turns -> TurnRecords]
      /\ \A u \in Turns : turn'[u] = IF u = t THEN r ELSE turn[u]
  BY <1>1, TurnMoves
<1>3. \A u \in Turns : turn[u] \in TurnRecords
  BY DEF MemoryShape
<1> QED
  BY <1>2, <1>3 DEF OrdinaryTurns, Ordinary

LEMMA NoTurn ==
    ASSUME MemoryShape, UNCHANGED <<turn, summaries>>
    PROVE  OrdinaryTurns
  BY DEF MemoryShape, OrdinaryTurns, Ordinary

LEMMA BeginTurnIsOrdinary ==
    ASSUME MemoryShape, NEW t \in Turns, BeginTurn(t)
    PROVE  OrdinaryTurns
<1>1. turn[t] \in TurnRecords /\ turn[t].phase = "new" /\ summaries' = summaries
  BY DEF MemoryShape, BeginTurn
<1> DEFINE r == [turn[t] EXCEPT !.phase = "answering"]
           q == [r EXCEPT !.memory = Newest(episodes)]
<1>2. r \in TurnRecords /\ Ordinary(turn[t], r)
  BY <1>1 DEF TurnRecords, Phases, Ordinary, Early, Settled
<1>3. CASE turn' = [turn EXCEPT ![t].phase = "answering"]
  <2>1. turn' = [turn EXCEPT ![t] = r]
    BY <1>3
  <2> QED
    BY <1>1, <1>2, <2>1, OneOrdinaryTurn
<1>4. CASE turn' = [turn EXCEPT ![t].phase = "answering", ![t].memory = Newest(episodes)]
  <2>1. Newest(episodes) \in SUBSET Turns
    BY NewestAreTurns DEF MemoryShape
  <2>2. turn' = [turn EXCEPT ![t] = q]
    BY <1>4 DEF MemoryShape
  <2> HIDE DEF r
  <2>3. Ordinary(turn[t], q)
    BY <1>2, <2>1 DEF TurnRecords, Ordinary
  <2> HIDE DEF q
  <2> QED
    BY <1>1, <2>2, <2>3, OneOrdinaryTurn
<1> QED
  BY <1>3, <1>4 DEF BeginTurn

LEMMA ToolIsOrdinary ==
    ASSUME MemoryShape, NEW t \in Turns, SaveMemoryTool(t) \/ SaveUserFact(t)
    PROVE  OrdinaryTurns
<1>1. turn[t] \in TurnRecords /\ summaries' = summaries
  BY DEF MemoryShape, SaveMemoryTool, SaveUserFact
<1>2. PICK tool \in {"saving", "ended"} : turn' = [turn EXCEPT ![t].tool = tool]
  BY DEF SaveMemoryTool, SaveUserFact
<1> DEFINE r == [turn[t] EXCEPT !.tool = tool]
<1>3. Ordinary(turn[t], r)
  BY <1>1 DEF TurnRecords, Ordinary
<1>4. turn' = [turn EXCEPT ![t] = r]
  BY <1>2
<1> HIDE DEF r
<1> QED
  BY <1>1, <1>3, <1>4, OneOrdinaryTurn

LEMMA EndTurnIsOrdinary ==
    ASSUME MemoryShape, NEW t \in Turns, EndTurn(t)
    PROVE  OrdinaryTurns
<1>1. turn[t] \in TurnRecords /\ turn[t].phase = "answering" /\ summaries' = summaries
  BY DEF MemoryShape, EndTurn
<1>2. PICK notice \in BOOLEAN, phase \in {"numbering", "over", "remembering"} :
         turn' = [turn EXCEPT ![t].notice = notice, ![t].phase = phase]
  BY DEF EndTurn, Worth
<1> DEFINE r == [turn[t] EXCEPT !.notice = notice]
           q == [r EXCEPT !.phase = phase]
<1>3. r \in TurnRecords /\ r.phase = "answering" /\ r.next_index = turn[t].next_index
      /\ r.after = turn[t].after
  BY <1>1 DEF TurnRecords
<1>4. turn' = [turn EXCEPT ![t] = q]
  BY <1>2 DEF MemoryShape
<1> HIDE DEF r
<1>5. Ordinary(turn[t], q)
  BY <1>1, <1>3 DEF TurnRecords, Phases, Ordinary, Early, Settled
<1> HIDE DEF q
<1> QED
  BY <1>1, <1>4, <1>5, OneOrdinaryTurn

LEMMA SaveInProcessIsOrdinary ==
    ASSUME MemoryShape, NEW t \in Turns, SaveInProcess(t)
    PROVE  OrdinaryTurns
<1>1. /\ turn[t] \in TurnRecords /\ turn[t].phase = "remembering" /\ summaries' = summaries
      /\ turn' = [turn EXCEPT ![t].phase = "over"]
  BY DEF MemoryShape, SaveInProcess
<1> DEFINE r == [turn[t] EXCEPT !.phase = "over"]
<1>2. Ordinary(turn[t], r)
  BY <1>1 DEF TurnRecords, Phases, Ordinary, Early, Settled
<1>3. turn' = [turn EXCEPT ![t] = r]
  BY <1>1
<1> HIDE DEF r
<1> QED
  BY <1>1, <1>2, <1>3, OneOrdinaryTurn

LEMMA ApiRestartIsOrdinary ==
    ASSUME MemoryShape, ApiRestarts
    PROVE  OrdinaryTurns
<1>1. summaries' = summaries
  BY DEF ApiRestarts
<1> DEFINE phase(u) == IF turn[u].phase \in {"new", "over"} THEN turn[u].phase ELSE "lost"
           tool(u) == IF turn[u].tool = "saving" THEN "ended" ELSE turn[u].tool
           r(u) == [turn[u] EXCEPT !.phase = phase(u)]
           q(u) == [r(u) EXCEPT !.tool = tool(u)]
<1>2. turn' = [u \in Turns |-> q(u)]
  BY DEF ApiRestarts
<1>3. ASSUME NEW u \in Turns
      PROVE  Ordinary(turn[u], q(u))
  <2>1. turn[u] \in TurnRecords
    BY DEF MemoryShape
  <2>2. phase(u) \in Phases /\ tool(u) \in {"no", "saving", "ended"}
    BY <2>1 DEF TurnRecords, Phases
  <2>3. /\ turn[u].phase \in Settled => phase(u) \in Settled
        /\ phase(u) \in Early => turn[u].phase \in Early
        /\ phase(u) # "summarising"
    BY <2>1 DEF TurnRecords, Phases, Early, Settled
  <2> HIDE DEF phase, tool
  <2>4. /\ r(u) \in TurnRecords /\ r(u).phase = phase(u)
        /\ r(u).next_index = turn[u].next_index /\ r(u).after = turn[u].after
    BY <2>1, <2>2 DEF TurnRecords
  <2> HIDE DEF r
  <2>5. /\ q(u) \in TurnRecords /\ q(u).phase = phase(u)
        /\ q(u).next_index = turn[u].next_index /\ q(u).after = turn[u].after
    BY <2>2, <2>4 DEF TurnRecords
  <2> HIDE DEF q
  <2> QED
    BY <2>3, <2>5 DEF Ordinary
<1> HIDE DEF q
<1>4. turn' \in [Turns -> TurnRecords]
  BY <1>2, <1>3 DEF Ordinary
<1> QED
  BY <1>1, <1>2, <1>3, <1>4 DEF OrdinaryTurns

\* The two steps that are not: a number is taken, a summary is saved or given up.
LEMMA NumberTaken ==
    ASSUME MemoryShape, NEW t \in Turns, NumberSummary(t), LastIndex \in Nat
    PROVE  /\ turn' \in [Turns -> TurnRecords]
           /\ turn[t].phase = "numbering"
           /\ turn'[t].phase = "summarising" /\ turn'[t].next_index = LastIndex + 1
           /\ turn'[t].after = {u \in Turns : turn[u].phase = "over" \/ turn[u].phase = "remembering"}
           /\ turn'[t].tool = turn[t].tool
           /\ \A u \in Turns : u # t => turn'[u] = turn[u]
           /\ summaries' = summaries
<1> DEFINE after == {u \in Turns : turn[u].phase = "over" \/ turn[u].phase = "remembering"}
           p == [turn[t] EXCEPT !.phase = "summarising"]
           q == [p EXCEPT !.next_index = LastIndex + 1]
           r == [q EXCEPT !.after = after]
<1>1. turn[t] \in TurnRecords /\ after \in SUBSET Turns
  BY DEF MemoryShape
<1>2. /\ turn[t].phase = "numbering" /\ summaries' = summaries
      /\ turn' = [turn EXCEPT ![t].phase = "summarising", ![t].next_index = LastIndex + 1,
                              ![t].after = after]
  BY DEF NumberSummary
<1>3. turn' = [turn EXCEPT ![t] = r]
  BY <1>2 DEF MemoryShape
<1> HIDE DEF after
<1>4. p \in TurnRecords /\ p.phase = "summarising" /\ p.tool = turn[t].tool
  BY <1>1 DEF TurnRecords, Phases
<1> HIDE DEF p
<1>5. /\ q \in TurnRecords /\ q.phase = "summarising" /\ q.next_index = LastIndex + 1
      /\ q.tool = turn[t].tool
  BY <1>4 DEF TurnRecords
<1> HIDE DEF q
<1>6. /\ r \in TurnRecords /\ r.phase = "summarising" /\ r.next_index = LastIndex + 1
      /\ r.tool = turn[t].tool /\ r.after = after
  BY <1>1, <1>5 DEF TurnRecords
<1> HIDE DEF r
<1>7. /\ turn' \in [Turns -> TurnRecords]
      /\ \A u \in Turns : turn'[u] = IF u = t THEN r ELSE turn[u]
  BY <1>3, <1>6, TurnMoves
<1> QED
  BY <1>2, <1>6, <1>7 DEF after

LEMMA SummarySaved ==
    ASSUME MemoryShape, NEW t \in Turns, SaveSummary(t)
    PROVE  /\ turn' \in [Turns -> TurnRecords]
           /\ turn[t].phase = "summarising"
           /\ turn'[t].phase = "remembering" /\ turn'[t].next_index = turn[t].next_index
           /\ turn'[t].after = turn[t].after /\ turn'[t].tool = turn[t].tool
           /\ \A u \in Turns : u # t => turn'[u] = turn[u]
<1> DEFINE r == [turn[t] EXCEPT !.phase = "remembering"]
<1>1. turn[t] \in TurnRecords
  BY DEF MemoryShape
<1>2. turn[t].phase = "summarising" /\ turn' = [turn EXCEPT ![t].phase = "remembering"]
  BY DEF SaveSummary
<1>3. turn' = [turn EXCEPT ![t] = r]
  BY <1>2
<1>4. /\ r \in TurnRecords /\ r.phase = "remembering" /\ r.next_index = turn[t].next_index
      /\ r.after = turn[t].after /\ r.tool = turn[t].tool
  BY <1>1 DEF TurnRecords, Phases
<1> HIDE DEF r
<1>5. /\ turn' \in [Turns -> TurnRecords]
      /\ \A u \in Turns : turn'[u] = IF u = t THEN r ELSE turn[u]
  BY <1>3, <1>4, TurnMoves
<1> QED
  BY <1>2, <1>4, <1>5

-----------------------------------------------------------------------------
(* The summaries.                                                          *)

Indices == {s.exchange_index : s \in summaries}

\* The numbers in use are the first ones, and a number that was taken is at most
\* the one after them.  A summary has the number its turn took, and whatever was
\* settled then has a smaller one or none at all.
NumbersInOrder ==
    /\ LastIndex \in Nat /\ Indices = 1..LastIndex
    /\ \A t \in Turns :
          /\ turn[t].phase \in Early => turn[t].after = {}
          /\ turn[t].phase = "summarising" => turn[t].next_index \in 1..(LastIndex + 1)
          /\ \A u \in turn[t].after : turn[u].phase \in Settled
    /\ \A s \in summaries : /\ turn[s.turn].phase \in Settled
                            /\ s.exchange_index = turn[s.turn].next_index
    /\ \A t \in Turns, s \in summaries :
          s.turn \in turn[t].after => s.exchange_index < turn[t].next_index

LEMMA FirstNumbers ==
    ASSUME NEW S, NEW k \in Nat, S = 1..k
    PROVE  Cardinality(S) = k
<1>1. Cardinality(1..k) = IF 1 > k THEN 0 ELSE k - 1 + 1
  BY FS_Interval
<1> QED
  BY <1>1

LEMMA OrdinaryKeepsNumbers ==
    ASSUME MemoryShape, NumbersInOrder, OrdinaryTurns
    PROVE  NumbersInOrder'
<1>1. LastIndex' = LastIndex /\ Indices' = Indices
  BY DEF OrdinaryTurns, LastIndex, Indices
<1>2. \A u \in Turns : /\ turn[u] \in TurnRecords
                       /\ turn'[u].next_index = turn[u].next_index
                       /\ turn'[u].after = turn[u].after
                       /\ turn[u].phase \in Settled => turn'[u].phase \in Settled
                       /\ turn'[u].phase \in Early => turn[u].phase \in Early
                       /\ turn'[u].phase = "summarising" => turn[u].phase = "summarising"
  BY DEF OrdinaryTurns, Ordinary, MemoryShape
<1>3. \A s \in summaries : s.turn \in Turns
  BY DEF MemoryShape
<1>4. \A u \in Turns : turn[u].after \subseteq Turns
  BY <1>2 DEF TurnRecords
<1>5. summaries' = summaries
  BY DEF OrdinaryTurns
<1>6. ASSUME NEW t \in Turns
      PROVE  /\ turn'[t].phase \in Early => turn'[t].after = {}
             /\ turn'[t].phase = "summarising" => turn'[t].next_index \in 1..(LastIndex' + 1)
             /\ \A u \in turn'[t].after : turn'[u].phase \in Settled
  BY <1>1, <1>2, <1>4 DEF NumbersInOrder
<1>7. ASSUME NEW s \in summaries'
      PROVE  turn'[s.turn].phase \in Settled /\ s.exchange_index = turn'[s.turn].next_index
  BY <1>2, <1>3, <1>5 DEF NumbersInOrder
<1>8. ASSUME NEW t \in Turns, NEW s \in summaries', s.turn \in turn'[t].after
      PROVE  s.exchange_index < turn'[t].next_index
  BY <1>2, <1>5, <1>8 DEF NumbersInOrder
<1> QED
  BY <1>1, <1>6, <1>7, <1>8 DEF NumbersInOrder

LEMMA NumberKeepsNumbers ==
    ASSUME MemoryShape, NumbersInOrder, NEW t \in Turns, NumberSummary(t)
    PROVE  NumbersInOrder'
<1> DEFINE settled == {u \in Turns : turn[u].phase = "over" \/ turn[u].phase = "remembering"}
<1>1. /\ turn[t].phase = "numbering"
      /\ turn'[t].phase = "summarising" /\ turn'[t].next_index = LastIndex + 1
      /\ turn'[t].after = settled
      /\ \A u \in Turns : u # t => turn'[u] = turn[u]
      /\ summaries' = summaries
  BY NumberTaken DEF NumbersInOrder
<1>2. LastIndex \in Nat /\ LastIndex' = LastIndex /\ Indices' = Indices
  BY <1>1 DEF LastIndex, Indices, NumbersInOrder
<1>3. t \notin settled /\ \A u \in settled : turn[u].phase \in Settled
  BY <1>1 DEF Settled
<1>4. \A s \in summaries : s.turn \in Turns /\ s.turn # t
  BY <1>1 DEF MemoryShape, NumbersInOrder, Settled
<1>5. \A u \in Turns : turn[u].after \subseteq Turns \ {t}
  BY <1>1 DEF MemoryShape, TurnRecords, NumbersInOrder, Settled
<1>6. \A s \in summaries : s.exchange_index \in 1..LastIndex
  BY DEF NumbersInOrder, Indices
<1> HIDE DEF settled
<1>7. ASSUME NEW u \in Turns
      PROVE  /\ turn'[u].phase \in Early => turn'[u].after = {}
             /\ turn'[u].phase = "summarising" => turn'[u].next_index \in 1..(LastIndex' + 1)
             /\ \A v \in turn'[u].after : turn'[v].phase \in Settled
  <2>1. CASE u = t
    <3>1. \A v \in settled : turn'[v].phase \in Settled
      BY <1>1, <1>3 DEF settled
    <3> QED
      BY <1>1, <1>2, <2>1, <3>1 DEF Early
  <2>2. CASE u # t
    BY <1>1, <1>2, <1>5, <2>2 DEF NumbersInOrder
  <2> QED
    BY <2>1, <2>2
<1>8. ASSUME NEW s \in summaries'
      PROVE  turn'[s.turn].phase \in Settled /\ s.exchange_index = turn'[s.turn].next_index
  BY <1>1, <1>4 DEF NumbersInOrder
<1>9. ASSUME NEW u \in Turns, NEW s \in summaries', s.turn \in turn'[u].after
      PROVE  s.exchange_index < turn'[u].next_index
  <2>1. CASE u = t
    BY <1>1, <1>2, <1>6, <2>1
  <2>2. CASE u # t
    BY <1>1, <1>9, <2>2 DEF NumbersInOrder
  <2> QED
    BY <2>1, <2>2
<1>10. LastIndex' \in Nat /\ Indices' = 1..LastIndex'
  BY <1>2 DEF NumbersInOrder
<1> QED
  BY <1>7, <1>8, <1>9, <1>10 DEF NumbersInOrder

LEMMA SummaryKeepsNumbers ==
    ASSUME MemoryShape, NumbersInOrder, NEW t \in Turns, SaveSummary(t)
    PROVE  NumbersInOrder'
<1> DEFINE n == turn[t].next_index
           s0 == [turn |-> t, exchange_index |-> n]
<1>1. /\ turn[t].phase = "summarising"
      /\ turn'[t].phase = "remembering" /\ turn'[t].next_index = n
      /\ turn'[t].after = turn[t].after
      /\ \A u \in Turns : u # t => turn'[u] = turn[u]
  BY SummarySaved
<1>2. summaries' = summaries \cup {s0} \/ summaries' = summaries
  BY DEF SaveSummary
<1>3. LastIndex \in Nat /\ Indices = 1..LastIndex /\ n \in 1..(LastIndex + 1)
  BY <1>1 DEF NumbersInOrder
<1>4. \A s \in summaries : s.turn \in Turns /\ s.turn # t
  BY <1>1 DEF MemoryShape, NumbersInOrder, Settled
<1>5. \A u \in Turns : turn[u].after \subseteq Turns \ {t}
  BY <1>1 DEF MemoryShape, TurnRecords, NumbersInOrder, Settled
<1>6. LastIndex' \in Nat /\ Indices' = 1..LastIndex' /\ LastIndex <= LastIndex'
  <2>1. CASE summaries' = summaries
    BY <1>3, <2>1 DEF LastIndex, Indices
  <2>2. CASE summaries' = summaries \cup {s0}
    <3>1. Indices' = Indices \cup {n}
      <4>1. Indices' = {s.exchange_index : s \in summaries \cup {s0}}
        BY <2>2 DEF Indices
      <4>2. s0.exchange_index = n
        OBVIOUS
      <4> HIDE DEF s0, n
      <4> QED
        BY <4>1, <4>2, Zenon DEF Indices
    <3>2. PICK k \in Nat : Indices' = 1..k /\ LastIndex <= k
      <4>1. CASE n = LastIndex + 1
        <5>1. Indices' = 1..(LastIndex + 1)
          BY <1>3, <3>1, <4>1
        <5> QED
          BY <1>3, <5>1
      <4>2. CASE n # LastIndex + 1
        <5>1. Indices' = 1..LastIndex
          BY <1>3, <3>1, <4>2
        <5> QED
          BY <1>3, <5>1
      <4> QED
        BY <4>1, <4>2
    <3>3. LastIndex' = Cardinality(Indices')
      BY DEF LastIndex, Indices
    <3>4. Cardinality(Indices') = k
      BY <3>2, FirstNumbers
    <3> QED
      BY <3>2, <3>3, <3>4
  <2> QED
    BY <1>2, <2>1, <2>2
<1>7. ASSUME NEW u \in Turns
      PROVE  /\ turn'[u].phase \in Early => turn'[u].after = {}
             /\ turn'[u].phase = "summarising" => turn'[u].next_index \in 1..(LastIndex' + 1)
             /\ \A v \in turn'[u].after : turn'[v].phase \in Settled
  <2>1. turn'[u].after = turn[u].after
    BY <1>1
  <2>2. \A v \in turn'[u].after : turn'[v].phase \in Settled
    BY <1>1, <1>5, <2>1 DEF NumbersInOrder
  <2>3. turn'[u].phase = "summarising" => turn'[u].next_index \in 1..(LastIndex' + 1)
    BY <1>1, <1>3, <1>6 DEF NumbersInOrder
  <2>4. turn'[u].phase \in Early => turn'[u].after = {}
    BY <1>1, <2>1 DEF NumbersInOrder, Early
  <2> QED
    BY <2>2, <2>3, <2>4
<1>8. ASSUME NEW s \in summaries'
      PROVE  turn'[s.turn].phase \in Settled /\ s.exchange_index = turn'[s.turn].next_index
  <2>1. CASE s \in summaries
    BY <1>1, <1>4, <2>1 DEF NumbersInOrder
  <2>2. CASE s = s0
    BY <1>1, <2>2 DEF Settled
  <2> QED
    BY <1>2, <2>1, <2>2
<1>9. ASSUME NEW u \in Turns, NEW s \in summaries', s.turn \in turn'[u].after
      PROVE  s.exchange_index < turn'[u].next_index
  <2>1. turn'[u].after = turn[u].after /\ turn'[u].next_index = turn[u].next_index
    BY <1>1
  <2>2. s # s0
    BY <1>5, <1>9, <2>1
  <2>3. s \in summaries
    BY <1>2, <2>2
  <2> QED
    BY <1>9, <2>1, <2>3 DEF NumbersInOrder
<1> QED
  BY <1>6, <1>7, <1>8, <1>9 DEF NumbersInOrder

-----------------------------------------------------------------------------
(* The facts.                                                              *)

\* A message is handled before it is acknowledged, and only the tool and the
\* extraction write.
FactsInPlace ==
    /\ \A t \in Telling : hrag_memory[t].at \in {"written", "acked"} => t \in Range(episodes)
    /\ \A t \in Turns : turn[t].tool = "saving" => t \in ToolTurns
    /\ OnlyFactsAreKept

\* A step that neither hands a message on as written nor starts the tool.
LEMMA FactsRest ==
    ASSUME MemoryShape, FactsInPlace, UNCHANGED <<episodes, misread>>,
           \A t \in Turns : hrag_memory'[t].at \in {"written", "acked"} =>
                                hrag_memory[t].at \in {"written", "acked"},
           \A t \in Turns : turn'[t].tool = "saving" =>
                                turn[t].tool = "saving" \/ t \in ToolTurns
    PROVE  FactsInPlace' /\ episodes' \in Seq(Turns) /\ misread' \subseteq Turns
  BY MemoryAssumption DEF MemoryShape, FactsInPlace, OnlyFactsAreKept, Range

\* What extracting and writing a turn's message adds to the graph.
LEMMA WritesFacts ==
    ASSUME MemoryShape, FactsInPlace, NEW t \in Turns, Extracted(t), Writes(t)
    PROVE  /\ episodes' \in Seq(Turns) /\ misread' \subseteq Turns
           /\ Range(episodes) \subseteq Range(episodes')
           /\ t \in Telling => t \in Range(episodes')
           /\ OnlyFactsAreKept'
<1>1. misread' = misread \/ misread' = misread \cup {t}
  BY DEF Extracted
<1>2. /\ Append(episodes, t) \in Seq(Turns)
      /\ Range(Append(episodes, t)) = Range(episodes) \cup {t}
  BY RangeOfAppend DEF MemoryShape
<1>3. CASE Worth(t, misread' # misread)
  <2>1. episodes' = Append(episodes, t)
    BY <1>3 DEF Writes
  <2>2. Range(episodes') = Range(episodes) \cup {t}
    BY <1>2, <2>1
  <2>3. t \in Telling \cup misread'
    BY <1>1, <1>3 DEF Worth
  <2> QED
    BY <1>1, <1>2, <2>1, <2>2, <2>3 DEF FactsInPlace, OnlyFactsAreKept, MemoryShape
<1>4. CASE ~Worth(t, misread' # misread)
  <2>1. episodes' = episodes /\ t \notin Telling
    BY <1>4 DEF Writes, Worth
  <2>2. Range(episodes') = Range(episodes)
    BY <2>1
  <2> QED
    BY <1>1, <2>1, <2>2 DEF FactsInPlace, OnlyFactsAreKept, MemoryShape
<1> QED
  BY <1>3, <1>4

-----------------------------------------------------------------------------
(* All together.                                                           *)

MemoryInvariant == MemoryShape /\ NumbersInOrder /\ FactsInPlace

\* The steps of a turn that leave the queue alone.
LEMMA TurnStep ==
    ASSUME MemoryInvariant, NEW t \in Turns,
           BeginTurn(t) \/ SaveMemoryTool(t) \/ NumberSummary(t) \/ SaveSummary(t)
    PROVE  MemoryInvariant'
<1> USE DEF MemoryInvariant
<1>1. UNCHANGED <<hrag_memory, episodes, misread>>
  BY DEF BeginTurn, SaveMemoryTool, NumberSummary, SaveSummary
<1>2. turn' \in [Turns -> TurnRecords] /\ NumbersInOrder'
  <2>1. CASE BeginTurn(t)
    BY <2>1, BeginTurnIsOrdinary, OrdinaryKeepsNumbers DEF OrdinaryTurns
  <2>2. CASE SaveMemoryTool(t)
    BY <2>2, ToolIsOrdinary, OrdinaryKeepsNumbers DEF OrdinaryTurns
  <2>3. CASE NumberSummary(t)
    BY <2>3, NumberTaken, NumberKeepsNumbers DEF NumbersInOrder
  <2>4. CASE SaveSummary(t)
    BY <2>4, SummarySaved, SummaryKeepsNumbers
  <2> QED
    BY <2>1, <2>2, <2>3, <2>4
<1>3. summaries' \subseteq [turn : Turns, exchange_index : Nat]
  <2>1. turn[t].next_index \in Nat
    BY DEF MemoryShape, TurnRecords
  <2> QED
    BY <2>1 DEF BeginTurn, SaveMemoryTool, NumberSummary, SaveSummary, MemoryShape
<1>4. \A u \in Turns : turn'[u].tool = "saving" => turn[u].tool = "saving" \/ u \in ToolTurns
  <2>1. CASE BeginTurn(t)
    <3>1. \A u \in Turns : turn'[u].tool = turn[u].tool
      BY <2>1 DEF BeginTurn, MemoryShape, TurnRecords
    <3> QED
      BY <3>1
  <2>2. CASE SaveMemoryTool(t)
    <3>1. t \in ToolTurns /\ \A u \in Turns : u # t => turn'[u] = turn[u]
      BY <2>2 DEF SaveMemoryTool, MemoryShape
    <3> QED
      BY <3>1
  <2>3. CASE NumberSummary(t)
    <3>1. turn'[t].tool = turn[t].tool /\ \A u \in Turns : u # t => turn'[u] = turn[u]
      BY <2>3, NumberTaken DEF NumbersInOrder
    <3> QED
      BY <3>1
  <2>4. CASE SaveSummary(t)
    <3>1. turn'[t].tool = turn[t].tool /\ \A u \in Turns : u # t => turn'[u] = turn[u]
      BY <2>4, SummarySaved
    <3> QED
      BY <3>1
  <2> QED
    BY <2>1, <2>2, <2>3, <2>4
<1>5. FactsInPlace'
  BY <1>1, <1>4, FactsRest
<1>6. MemoryShape'
  BY <1>1, <1>2, <1>3 DEF MemoryShape
<1> QED
  BY <1>2, <1>5, <1>6

\* The tool's write, and the one in the process that answered.
LEMMA ProcessStep ==
    ASSUME MemoryInvariant, NEW t \in Turns, SaveUserFact(t) \/ SaveInProcess(t)
    PROVE  MemoryInvariant'
<1> USE MemoryAssumption DEF MemoryInvariant
<1>1. hrag_memory' = hrag_memory /\ summaries' = summaries
  BY DEF SaveUserFact, SaveInProcess
<1>2. OrdinaryTurns /\ NumbersInOrder'
  BY ToolIsOrdinary, SaveInProcessIsOrdinary, OrdinaryKeepsNumbers
<1>3. \A u \in Turns : turn'[u].tool = "saving" => turn[u].tool = "saving"
  <2>1. CASE SaveUserFact(t)
    <3>1. turn' = [turn EXCEPT ![t].tool = "ended"]
      BY <2>1 DEF SaveUserFact
    <3>2. turn'[t].tool = "ended" /\ \A u \in Turns : u # t => turn'[u] = turn[u]
      BY <3>1 DEF MemoryShape, TurnRecords
    <3> QED
      BY <3>2
  <2>2. CASE SaveInProcess(t)
    <3>1. turn' = [turn EXCEPT ![t].phase = "over"]
      BY <2>2 DEF SaveInProcess
    <3>2. turn'[t].tool = turn[t].tool /\ \A u \in Turns : u # t => turn'[u] = turn[u]
      BY <3>1 DEF MemoryShape, TurnRecords
    <3> QED
      BY <3>2
  <2> QED
    BY <2>1, <2>2
<1>4. /\ episodes' \in Seq(Turns) /\ misread' \subseteq Turns
      /\ Range(episodes) \subseteq Range(episodes') /\ OnlyFactsAreKept'
  <2>1. CASE SaveUserFact(t)
    <3>1. t \in Telling /\ misread' = misread
      BY <2>1 DEF SaveUserFact, FactsInPlace
    <3>2. CASE episodes' = Append(episodes, t)
      BY <3>1, <3>2, RangeOfAppend DEF MemoryShape, FactsInPlace, OnlyFactsAreKept
    <3>3. CASE episodes' = episodes
      BY <3>1, <3>3 DEF MemoryShape, FactsInPlace, OnlyFactsAreKept, Range
    <3> QED
      BY <2>1, <3>2, <3>3 DEF SaveUserFact
  <2>2. CASE SaveInProcess(t)
    <3>1. CASE Extracted(t) /\ Writes(t)
      BY <3>1, WritesFacts
    <3>2. CASE UNCHANGED <<episodes, misread>>
      BY <3>2 DEF MemoryShape, FactsInPlace, OnlyFactsAreKept, Range
    <3> QED
      BY <2>2, <3>1, <3>2 DEF SaveInProcess
  <2> QED
    BY <2>1, <2>2
<1>5. FactsInPlace'
  BY <1>1, <1>3, <1>4 DEF FactsInPlace
<1>6. MemoryShape'
  BY <1>1, <1>2, <1>4 DEF MemoryShape, OrdinaryTurns
<1> QED
  BY <1>2, <1>5, <1>6

\* The end of a turn, which may queue its message.
LEMMA EndTurnStep ==
    ASSUME MemoryInvariant, NEW t \in Turns, EndTurn(t)
    PROVE  MemoryInvariant'
<1> USE DEF MemoryInvariant
<1>1. UNCHANGED <<episodes, summaries, misread>>
  BY DEF EndTurn
<1>2. OrdinaryTurns /\ NumbersInOrder'
  BY EndTurnIsOrdinary, OrdinaryKeepsNumbers
<1>3. \A u \in Turns : turn'[u].tool = turn[u].tool
  <2>1. PICK notice \in BOOLEAN, phase \in {"numbering", "over", "remembering"} :
            turn' = [turn EXCEPT ![t].notice = notice, ![t].phase = phase]
    BY DEF EndTurn, Worth
  <2> QED
    BY <2>1 DEF MemoryShape, TurnRecords
<1>4. /\ hrag_memory' \in [Turns -> QueueRecords]
      /\ \A u \in Turns : hrag_memory'[u].at \in {"written", "acked"} =>
                              hrag_memory[u].at \in {"written", "acked"}
  <2>1. CASE hrag_memory' = hrag_memory
    BY <2>1 DEF MemoryShape
  <2>2. CASE hrag_memory' = [hrag_memory EXCEPT ![t].at = "ready"]
    <3> DEFINE m == [hrag_memory[t] EXCEPT !.at = "ready"]
    <3>1. m \in QueueRecords /\ m.at = "ready"
      BY DEF MemoryShape, QueueRecords
    <3>2. hrag_memory' = [hrag_memory EXCEPT ![t] = m]
      BY <2>2
    <3> HIDE DEF m
    <3> QED
      BY <3>1, <3>2, MessageMoves
  <2> QED
    BY <2>1, <2>2 DEF EndTurn
<1>5. FactsInPlace'
  BY <1>1, <1>3, <1>4, FactsRest
<1>6. MemoryShape'
  BY <1>1, <1>2, <1>4 DEF MemoryShape, OrdinaryTurns
<1> QED
  BY <1>2, <1>5, <1>6

\* The memory worker.
LEMMA WorkerStep ==
    ASSUME MemoryInvariant, NEW t \in Turns, TakeMemory(t) \/ HandleMemory(t) \/ AckMemory(t)
    PROVE  MemoryInvariant'
<1> USE MemoryAssumption DEF MemoryInvariant
<1>1. UNCHANGED <<turn, summaries>>
  BY DEF TakeMemory, HandleMemory, AckMemory
<1>2. OrdinaryTurns /\ NumbersInOrder'
  BY <1>1, NoTurn, OrdinaryKeepsNumbers
<1>3. hrag_memory[t] \in QueueRecords
  BY DEF MemoryShape
<1> DEFINE moved(at) == [hrag_memory[t] EXCEPT !.at = at]
<1>4. \A at \in {"taken", "written", "acked"} :
         moved(at) \in QueueRecords /\ moved(at).at = at
  BY <1>3 DEF QueueRecords
<1>5. CASE TakeMemory(t) \/ AckMemory(t)
  <2>1. PICK at \in {"taken", "acked"} :
            /\ hrag_memory' = [hrag_memory EXCEPT ![t] = moved(at)]
            /\ at = "acked" => hrag_memory[t].at = "written"
    BY <1>5 DEF TakeMemory, AckMemory
  <2>2. UNCHANGED <<episodes, misread>>
    BY <1>5 DEF TakeMemory, AckMemory
  <2> HIDE DEF moved
  <2>3. /\ hrag_memory' \in [Turns -> QueueRecords]
        /\ \A u \in Turns : hrag_memory'[u] = IF u = t THEN moved(at) ELSE hrag_memory[u]
    BY <1>4, <2>1, MessageMoves
  <2>4. \A u \in Turns : hrag_memory'[u].at \in {"written", "acked"} =>
                             hrag_memory[u].at \in {"written", "acked"}
    BY <1>4, <2>1, <2>3
  <2>5. FactsInPlace'
    BY <1>1, <2>2, <2>4, FactsRest
  <2>6. MemoryShape'
    BY <1>1, <2>2, <2>3 DEF MemoryShape
  <2> QED
    BY <1>2, <2>5, <2>6
<1>6. CASE HandleMemory(t) /\ Extracted(t) /\ Writes(t)
           /\ hrag_memory' = [hrag_memory EXCEPT ![t].at = "written"]
  <2>1. hrag_memory' = [hrag_memory EXCEPT ![t] = moved("written")]
    BY <1>6
  <2> HIDE DEF moved
  <2>2. /\ hrag_memory' \in [Turns -> QueueRecords]
        /\ \A u \in Turns : hrag_memory'[u] = IF u = t THEN moved("written") ELSE hrag_memory[u]
    BY <1>4, <2>1, MessageMoves
  <2>3. /\ episodes' \in Seq(Turns) /\ misread' \subseteq Turns
        /\ Range(episodes) \subseteq Range(episodes')
        /\ t \in Telling => t \in Range(episodes')
        /\ OnlyFactsAreKept'
    BY <1>6, WritesFacts
  <2>4. FactsInPlace'
    BY <1>1, <2>2, <2>3 DEF FactsInPlace
  <2>5. MemoryShape'
    BY <1>1, <2>2, <2>3 DEF MemoryShape
  <2> QED
    BY <1>2, <2>4, <2>5
<1>7. CASE HandleMemory(t) /\ UNCHANGED <<episodes, misread>>
           /\ hrag_memory' = [hrag_memory EXCEPT ![t] = RaisedFor(@)]
  <2> DEFINE m == RaisedFor(hrag_memory[t])
  <2>1. m \in QueueRecords /\ m.at \in {"ready", "dead"}
    BY <1>3 DEF RaisedFor, QueueRecords
  <2>2. hrag_memory' = [hrag_memory EXCEPT ![t] = m]
    BY <1>7
  <2> HIDE DEF m
  <2>3. /\ hrag_memory' \in [Turns -> QueueRecords]
        /\ \A u \in Turns : hrag_memory'[u] = IF u = t THEN m ELSE hrag_memory[u]
    BY <2>1, <2>2, MessageMoves
  <2>4. \A u \in Turns : hrag_memory'[u].at \in {"written", "acked"} =>
                             hrag_memory[u].at \in {"written", "acked"}
    BY <2>1, <2>3
  <2>5. FactsInPlace'
    BY <1>1, <1>7, <2>4, FactsRest
  <2>6. MemoryShape'
    BY <1>1, <1>7, <2>3 DEF MemoryShape
  <2> QED
    BY <1>2, <2>5, <2>6
<1> QED
  BY <1>5, <1>6, <1>7 DEF HandleMemory

\* Restarts.
LEMMA RestartStep ==
    ASSUME MemoryInvariant, ApiRestarts \/ WorkerRestarts
    PROVE  MemoryInvariant'
<1> USE DEF MemoryInvariant
<1>1. UNCHANGED <<episodes, summaries, misread>>
  BY DEF ApiRestarts, WorkerRestarts
<1>2. CASE ApiRestarts
  <2>1. OrdinaryTurns /\ NumbersInOrder' /\ hrag_memory' = hrag_memory
    BY <1>2, ApiRestartIsOrdinary, OrdinaryKeepsNumbers DEF ApiRestarts
  <2> DEFINE tool(u) == IF turn[u].tool = "saving" THEN "ended" ELSE turn[u].tool
  <2>2. ASSUME NEW u \in Turns
        PROVE  turn'[u].tool # "saving"
    <3> DEFINE r == [turn[u] EXCEPT !.phase = IF @ \in {"new", "over"} THEN @ ELSE "lost"]
    <3>1. turn'[u] = [r EXCEPT !.tool = tool(u)]
      BY <1>2 DEF ApiRestarts
    <3>2. r \in [DOMAIN r -> {r[x] : x \in DOMAIN r}] /\ DOMAIN r = DOMAIN turn[u]
      OBVIOUS
    <3>3. "tool" \in DOMAIN turn[u]
      BY DEF MemoryShape, TurnRecords
    <3> HIDE DEF r
    <3>4. turn'[u].tool = tool(u)
      BY <3>1, <3>2, <3>3
    <3> QED
      BY <3>4
  <2>3. FactsInPlace'
    BY <1>1, <2>1, <2>2, FactsRest
  <2>4. MemoryShape'
    BY <1>1, <2>1 DEF MemoryShape, OrdinaryTurns
  <2> QED
    BY <2>1, <2>3, <2>4
<1>3. CASE WorkerRestarts
  <2> DEFINE at(u) == IF hrag_memory[u].at \in {"taken", "written"} THEN "ready"
                      ELSE hrag_memory[u].at
             m(u) == [hrag_memory[u] EXCEPT !.at = at(u)]
  <2>1. hrag_memory' = [u \in Turns |-> m(u)] /\ turn' = turn
    BY <1>3 DEF WorkerRestarts
  <2>2. \A u \in Turns : m(u) \in QueueRecords /\ m(u).at = at(u)
    BY DEF MemoryShape, QueueRecords
  <2> HIDE DEF m
  <2>3. /\ hrag_memory' \in [Turns -> QueueRecords]
        /\ \A u \in Turns : hrag_memory'[u].at \in {"written", "acked"} =>
                                hrag_memory[u].at \in {"written", "acked"}
    BY <2>1, <2>2
  <2>4. OrdinaryTurns /\ NumbersInOrder'
    BY <1>1, <2>1, NoTurn, OrdinaryKeepsNumbers
  <2>5. FactsInPlace'
    BY <1>1, <2>1, <2>3, FactsRest
  <2>6. MemoryShape'
    BY <1>1, <2>1, <2>3 DEF MemoryShape
  <2> QED
    BY <2>4, <2>5, <2>6
<1> QED
  BY <1>2, <1>3

LEMMA MemoryStarts == MemoryInit => MemoryInvariant
<1> SUFFICES ASSUME MemoryInit
             PROVE  MemoryInvariant
  OBVIOUS
<1> USE DEF MemoryInit
<1>1. MemoryShape
  BY DEF MemoryShape, Begun, TurnRecords, Phases, QueueRecords
<1>2. Indices = 1..0 /\ LastIndex = 0
  <2>1. Indices = 1..0
    BY DEF Indices
  <2>2. LastIndex = Cardinality(Indices)
    BY DEF LastIndex, Indices
  <2> QED
    BY <2>1, <2>2, FirstNumbers, 0 \in Nat
<1>3. \A t \in Turns : turn[t].phase = "new" /\ turn[t].after = {} /\ turn[t].tool = "no"
  BY DEF Begun
<1>4. NumbersInOrder
  BY <1>2, <1>3 DEF NumbersInOrder
<1>5. Range(episodes) = {}
  BY DEF Range
<1>6. FactsInPlace
  BY <1>3, <1>5, MemoryAssumption DEF FactsInPlace, OnlyFactsAreKept
<1> QED
  BY <1>1, <1>4, <1>6 DEF MemoryInvariant

\* Through any overlap of turns, failures, retries, redeliveries and restarts, a
\* fact that was acknowledged is in the graph, nothing is there that was not told
\* or could not be read, and the summaries are numbered in order.
THEOREM MemoriesAreKept == MemorySpec => []MemoryIsKept
<1>1. MemoryInvariant /\ [MemoryNext]_memoryVars => MemoryInvariant'
  <2> SUFFICES ASSUME MemoryInvariant, [MemoryNext]_memoryVars
               PROVE  MemoryInvariant'
    OBVIOUS
  <2>1. CASE UNCHANGED memoryVars
    <3>1. UNCHANGED <<turn, hrag_memory, episodes, summaries, misread>>
      BY <2>1 DEF memoryVars
    <3>2. NumbersInOrder'
      BY <3>1, NoTurn, OrdinaryKeepsNumbers DEF MemoryInvariant
    <3>3. FactsInPlace'
      BY <3>1, FactsRest DEF MemoryInvariant
    <3>4. MemoryShape'
      BY <3>1 DEF MemoryInvariant, MemoryShape
    <3> QED
      BY <3>2, <3>3, <3>4 DEF MemoryInvariant
  <2> QED
    BY <2>1, TurnStep, ProcessStep, EndTurnStep, WorkerStep, RestartStep DEF MemoryNext
<1>2. MemoryInvariant => MemoryIsKept
  <2> SUFFICES ASSUME MemoryInvariant
               PROVE  MemoryIsKept
    OBVIOUS
  <2> USE DEF MemoryInvariant
  <2>1. QueuedFactIsKept
    BY DEF QueuedFactIsKept, FactsInPlace
  <2>2. SummariesInOrder
    <3>1. ASSUME NEW s \in summaries, NEW u \in summaries, s.turn \in turn[u.turn].after
          PROVE  s.exchange_index < u.exchange_index
      <4>1. u.turn \in Turns /\ u.exchange_index = turn[u.turn].next_index
        BY DEF MemoryShape, NumbersInOrder
      <4> QED
        BY <3>1, <4>1 DEF NumbersInOrder
    <3> QED
      BY <3>1 DEF SummariesInOrder
  <2> QED
    BY <2>1, <2>2 DEF MemoryIsKept, FactsInPlace
<1> QED
  BY <1>1, <1>2, MemoryStarts, PTL DEF MemorySpec

-----------------------------------------------------------------------------
(* People.                                                                 *)

\* What a collection that answered holds of the person has been found, and what
\* is told at the end is made of what was found and of nothing else.
PeopleInv ==
    /\ PeopleTypeOK
    /\ \A s \in lookup.asked \ (lookup.waiting \cup lookup.skipped \cup lookup.cut) :
          lookup.unavailable \/ MatchesIn(s, lookup.query) \subseteq lookup.found
    /\ lookup.answer \in {"none", "refused", "failed"} => lookup.profiles = {}
    /\ lookup.answer \in {"refused", "failed"} => lookup.found = {}
    /\ lookup.answer \in {"found", "not_found", "busy"} =>
          /\ lookup.waiting = {}
          /\ lookup.answer = Outcome(lookup.found, lookup.unavailable)
          /\ lookup.profiles = Profiles(lookup.found)
    /\ lookup.phase = "searching" => lookup.answer = "none"
    /\ lookup.phase = "documents" => lookup.answer \in {"found", "not_found", "failed"}
    /\ lookup.answer \in {"none", "refused"} => lookup.sources = {}
    /\ lookup.phase # "over" => lookup.sources = {}
    /\ DocumentsMention

LEMMA SameKey ==
    ASSUME NEW r \in PersonRecords, NEW q \in PersonRecords, IdentityKey(r) = IdentityKey(q)
    PROVE  /\ r.cccd = q.cccd
           /\ r.cccd = Missing => r.bhxh = q.bhxh
           /\ r.cccd = Missing /\ r.bhxh = Missing => r.dob = q.dob
<1> USE PeopleAssumption
<1> DEFINE kr == IdentityKey(r)[1]
           kq == IdentityKey(q)[1]
<1>1. /\ r.cccd # Missing => IdentityKey(r) = <<"cccd", r.cccd>>
      /\ r.cccd = Missing /\ r.bhxh # Missing => IdentityKey(r) = <<"bhxh", r.bhxh>>
      /\ r.cccd = Missing /\ r.bhxh = Missing /\ r.name # Missing
            => IdentityKey(r) = <<"np", r.name, IF r.dob # Missing THEN r.dob ELSE r.phone>>
      /\ r.cccd = Missing /\ r.bhxh = Missing /\ r.name = Missing
            => IdentityKey(r) = <<"id", r.id>>
  BY DEF IdentityKey
<1>2. /\ q.cccd # Missing => IdentityKey(q) = <<"cccd", q.cccd>>
      /\ q.cccd = Missing /\ q.bhxh # Missing => IdentityKey(q) = <<"bhxh", q.bhxh>>
      /\ q.cccd = Missing /\ q.bhxh = Missing /\ q.name # Missing
            => IdentityKey(q) = <<"np", q.name, IF q.dob # Missing THEN q.dob ELSE q.phone>>
      /\ q.cccd = Missing /\ q.bhxh = Missing /\ q.name = Missing
            => IdentityKey(q) = <<"id", q.id>>
  BY DEF IdentityKey
<1>3. CASE r.cccd # Missing
  BY <1>1, <1>2, <1>3
<1>4. CASE r.cccd = Missing /\ r.bhxh # Missing
  BY <1>1, <1>2, <1>4
<1>5. CASE r.cccd = Missing /\ r.bhxh = Missing /\ r.name # Missing
  BY <1>1, <1>2, <1>5
<1>6. CASE r.cccd = Missing /\ r.bhxh = Missing /\ r.name = Missing
  BY <1>1, <1>2, <1>6
<1> QED BY <1>3, <1>4, <1>5, <1>6

LEMMA ProfilesArePersons ==
    ASSUME NEW R \in SUBSET PersonRecords, lookup.profiles \in {{}, Profiles(R)}
    PROVE  ProfileIsOnePersons /\ lookup.profiles \in SUBSET SUBSET PersonRecords
<1>1. ASSUME NEW P \in lookup.profiles
      PROVE  \E p \in R : P = {r \in R : IdentityKey(r) = IdentityKey(p)}
  BY <1>1 DEF Profiles
<1>2. ASSUME NEW P \in lookup.profiles, NEW r \in P, NEW q \in P
      PROVE  IdentityKey(r) = IdentityKey(q) /\ r \in PersonRecords /\ q \in PersonRecords
  BY <1>1
<1>3. ASSUME NEW P \in lookup.profiles, NEW Q \in lookup.profiles, P # Q,
             NEW r \in P, NEW q \in Q, r.cccd # Missing, r.cccd = q.cccd
      PROVE  FALSE
  <2>1. IdentityKey(r) = IdentityKey(q)
    BY <1>3 DEF IdentityKey
  <2> QED BY <1>1, <1>3, <2>1
<1> QED BY <1>1, <1>2, <1>3, SameKey DEF ProfileIsOnePersons

LEMMA FoundIsShown ==
    ASSUME NEW R
    PROVE  UNION Profiles(R) = R
BY DEF Profiles

LEMMA PeopleStart == PeopleInit => PeopleInv
<1> USE PeopleAssumption
<1> SUFFICES ASSUME PeopleInit PROVE PeopleInv
  OBVIOUS
<1>1. lookup \in LookupStates
  BY DEF PeopleInit, NoLookup, LookupStates
<1> QED BY <1>1 DEF PeopleInit, NoLookup, PeopleInv, PeopleTypeOK, DocumentsMention, Anchors

LEMMA PeopleKeep == PeopleInv /\ [PeopleNext]_peopleVars => PeopleInv'
<1> USE PeopleAssumption
<1> SUFFICES ASSUME PeopleInv, [PeopleNext]_peopleVars PROVE PeopleInv'
  OBVIOUS
<1>0. lookup \in LookupStates /\ lookup.waiting \subseteq lookup.asked
      /\ mongoFaults \in 0..MaxMongoFaults
  BY DEF PeopleInv, PeopleTypeOK
<1>m. ASSUME MongoWorks \/ MongoFails PROVE mongoFaults' \in 0..MaxMongoFaults
  BY <1>0, <1>m DEF MongoWorks, MongoFails
<1>1. CASE StartLookup
  <2>1. PICK q \in Lookups :
          /\ MongoWorks \/ MongoFails
          /\ LET b == [NoLookup(lookup.runs + 1) EXCEPT !.query = q]
             IN  lookup' \in {[b EXCEPT !.phase = "over", !.answer = "refused"],
                              [b EXCEPT !.phase = "documents", !.answer = "failed"],
                              [b EXCEPT !.phase = "searching", !.asked = Searchable(q),
                                        !.waiting = Searchable(q)]}
    BY <1>1 DEF StartLookup
  <2> DEFINE begun == [NoLookup(lookup.runs + 1) EXCEPT !.query = q]
  <2>2. begun \in LookupStates /\ begun.asked = {} /\ begun.waiting = {} /\ begun.found = {}
        /\ begun.profiles = {} /\ begun.sources = {}
    <3> DEFINE n == lookup.runs + 1
    <3>1. n \in 0..MaxLookups
      BY <1>0, <1>1 DEF StartLookup, LookupStates
    <3> HIDE DEF n
    <3> DEFINE base == NoLookup(n)
    <3>2. base \in LookupStates /\ base.asked = {} /\ base.waiting = {} /\ base.found = {}
          /\ base.profiles = {} /\ base.sources = {}
      BY <3>1 DEF NoLookup, LookupStates
    <3>3. begun = [base EXCEPT !.query = q]
      BY DEF n
    <3> HIDE DEF base, begun
    <3> QED BY <3>2, <3>3 DEF LookupStates
  <2>3. lookup' \in {[begun EXCEPT !.phase = "over", !.answer = "refused"],
                     [begun EXCEPT !.phase = "documents", !.answer = "failed"],
                     [begun EXCEPT !.phase = "searching", !.asked = Searchable(q),
                                   !.waiting = Searchable(q)]}
    BY <2>1
  <2>4. Searchable(q) \in SUBSET Schemas
    BY DEF Searchable
  <2> HIDE DEF begun
  <2>5. /\ lookup' \in LookupStates /\ lookup'.waiting = lookup'.asked
        /\ lookup'.found = {} /\ lookup'.profiles = {} /\ lookup'.sources = {}
        /\ \/ lookup'.phase = "over" /\ lookup'.answer = "refused"
           \/ lookup'.phase = "documents" /\ lookup'.answer = "failed"
           \/ lookup'.phase = "searching" /\ lookup'.answer = begun.answer
    <3>1. CASE lookup' = [begun EXCEPT !.phase = "over", !.answer = "refused"]
      BY <2>2, <3>1 DEF LookupStates
    <3>2. CASE lookup' = [begun EXCEPT !.phase = "documents", !.answer = "failed"]
      BY <2>2, <3>2 DEF LookupStates
    <3>3. CASE lookup' = [begun EXCEPT !.phase = "searching", !.asked = Searchable(q),
                                       !.waiting = Searchable(q)]
      <4> DEFINE chosen == Searchable(q)
      <4>1. lookup' = [begun EXCEPT !.phase = "searching", !.asked = chosen, !.waiting = chosen]
        BY <3>3
      <4>2. chosen \in SUBSET Schemas
        BY <2>4
      <4> HIDE DEF chosen
      <4> QED BY <2>2, <4>1, <4>2 DEF LookupStates
    <3> QED BY <2>3, <3>1, <3>2, <3>3
  <2>6. begun.answer = "none"
    BY DEF begun, NoLookup
  <2>7. mongoFaults' \in 0..MaxMongoFaults
    BY <2>1, <1>m
  <2> QED BY <2>5, <2>6, <2>7 DEF PeopleInv, PeopleTypeOK, DocumentsMention
<1>2. ASSUME NEW s \in Schemas, QuerySchema(s) PROVE PeopleInv'
  <2> DEFINE all == MatchesIn(s, lookup.query)
             answered == [lookup EXCEPT !.waiting = @ \ {s}]
  <2>1. all \subseteq PersonRecords
    BY DEF MatchesIn
  <2>2. /\ answered \in LookupStates /\ answered.waiting = lookup.waiting \ {s}
        /\ answered.found = lookup.found /\ answered.query = lookup.query
        /\ answered.asked = lookup.asked /\ answered.cut = lookup.cut
        /\ answered.skipped = lookup.skipped /\ answered.unavailable = lookup.unavailable
        /\ answered.phase = "searching" /\ answered.answer = "none"
        /\ answered.profiles = {} /\ answered.sources = {}
    BY <1>0, <1>2 DEF LookupStates, QuerySchema, PeopleInv
  <2>3. \/ \E S \in SUBSET all : lookup' = [answered EXCEPT !.found = @ \cup S,
                                             !.cut = IF S = all THEN @ ELSE @ \cup {s}]
        \/ lookup' = [answered EXCEPT !.skipped = @ \cup {s}]
        \/ lookup' = [answered EXCEPT !.unavailable = TRUE]
    BY <1>2 DEF QuerySchema
  <2>4. mongoFaults' \in 0..MaxMongoFaults
    BY <1>2, <1>m DEF QuerySchema
  <2> HIDE DEF answered, all
  <2>5. CASE \E S \in SUBSET all : lookup' = [answered EXCEPT !.found = @ \cup S,
                                             !.cut = IF S = all THEN @ ELSE @ \cup {s}]
    <3>1. PICK S \in SUBSET all : lookup' = [answered EXCEPT !.found = @ \cup S,
                                             !.cut = IF S = all THEN @ ELSE @ \cup {s}]
      BY <2>5
    <3> DEFINE cut == IF S = all THEN answered.cut ELSE answered.cut \cup {s}
    <3>2. answered.found \cup S \in SUBSET PersonRecords /\ cut \in SUBSET Schemas
      BY <2>1, <2>2 DEF LookupStates
    <3>3. cut = answered.cut \cup {s} \/ (cut = answered.cut /\ S = all)
      OBVIOUS
    <3>4. lookup' = [answered EXCEPT !.found = answered.found \cup S, !.cut = cut]
      BY <3>1
    <3> HIDE DEF cut
    <3>5. lookup' \in LookupStates
      BY <2>2, <3>2, <3>4 DEF LookupStates
    <3>6. /\ lookup'.waiting = lookup.waiting \ {s} /\ lookup'.asked = lookup.asked
          /\ lookup'.found = lookup.found \cup S /\ lookup'.cut = cut
          /\ lookup'.skipped = lookup.skipped /\ lookup'.unavailable = lookup.unavailable
          /\ lookup'.query = lookup.query /\ lookup'.phase = "searching"
          /\ lookup'.answer = "none" /\ lookup'.profiles = {} /\ lookup'.sources = {}
      BY <2>2, <3>4 DEF LookupStates
    <3>7. ASSUME NEW z \in lookup'.asked \ (lookup'.waiting \cup lookup'.skipped \cup lookup'.cut)
          PROVE  lookup'.unavailable \/ MatchesIn(z, lookup'.query) \subseteq lookup'.found
      <4>1. CASE z = s
        BY <2>2, <3>3, <3>6, <3>7, <4>1 DEF all
      <4>2. CASE z # s
        BY <2>2, <3>3, <3>6, <3>7, <4>2 DEF PeopleInv
      <4> QED BY <4>1, <4>2
    <3> QED BY <1>0, <2>4, <3>5, <3>6, <3>7 DEF PeopleInv, PeopleTypeOK, DocumentsMention
  <2>6. CASE \/ lookup' = [answered EXCEPT !.skipped = @ \cup {s}]
             \/ lookup' = [answered EXCEPT !.unavailable = TRUE]
    <3>1. lookup' \in LookupStates
      <4>1. CASE lookup' = [answered EXCEPT !.skipped = @ \cup {s}]
        <5> DEFINE skipped == answered.skipped \cup {s}
        <5>1. skipped \in SUBSET Schemas
          BY <2>2 DEF LookupStates
        <5>2. lookup' = [answered EXCEPT !.skipped = skipped]
          BY <4>1
        <5> HIDE DEF skipped
        <5> QED BY <2>2, <5>1, <5>2 DEF LookupStates
      <4>2. CASE lookup' = [answered EXCEPT !.unavailable = TRUE]
        BY <2>2, <4>2 DEF LookupStates
      <4> QED BY <2>6, <4>1, <4>2
    <3>2. /\ lookup'.waiting = lookup.waiting \ {s} /\ lookup'.asked = lookup.asked
          /\ lookup'.found = lookup.found /\ lookup'.cut = lookup.cut
          /\ lookup'.query = lookup.query /\ lookup'.phase = "searching"
          /\ lookup'.answer = "none" /\ lookup'.profiles = {} /\ lookup'.sources = {}
          /\ \/ lookup'.skipped = lookup.skipped \cup {s}
                /\ lookup'.unavailable = lookup.unavailable
             \/ lookup'.unavailable = TRUE
      BY <2>2, <2>6 DEF LookupStates
    <3>3. ASSUME NEW z \in lookup'.asked \ (lookup'.waiting \cup lookup'.skipped \cup lookup'.cut),
                 lookup'.unavailable # TRUE
          PROVE  MatchesIn(z, lookup'.query) \subseteq lookup'.found
      BY <1>0, <3>2, <3>3 DEF PeopleInv, LookupStates
    <3> QED BY <1>0, <2>4, <3>1, <3>2, <3>3 DEF PeopleInv, PeopleTypeOK, DocumentsMention
  <2> QED BY <2>3, <2>5, <2>6
<1>3. CASE GatherSchemas
  <2> DEFINE answer == Outcome(lookup.found, lookup.unavailable)
             phase == IF answer = "busy" THEN "over" ELSE "documents"
  <2>1. lookup' = [lookup EXCEPT !.phase = phase, !.answer = answer,
                                 !.profiles = Profiles(lookup.found)]
        /\ lookup.phase = "searching" /\ lookup.waiting = {}
    BY <1>3 DEF GatherSchemas
  <2>2. answer \in {"found", "busy", "not_found"} /\ phase \in {"over", "documents"}
        /\ (phase = "documents" => answer \in {"found", "not_found"})
    BY DEF Outcome
  <2>3. Profiles(lookup.found) \in SUBSET SUBSET PersonRecords
    BY <1>0 DEF Profiles, LookupStates
  <2>4. mongoFaults' \in 0..MaxMongoFaults
    BY <1>3, <1>m DEF GatherSchemas
  <2>5. answer = Outcome(lookup.found, lookup.unavailable)
    OBVIOUS
  <2> HIDE DEF answer, phase
  <2>6. lookup' \in LookupStates
    BY <1>0, <2>1, <2>2, <2>3 DEF LookupStates
  <2>7. /\ lookup'.waiting = {} /\ lookup'.asked = lookup.asked
        /\ lookup'.found = lookup.found /\ lookup'.cut = lookup.cut
        /\ lookup'.skipped = lookup.skipped /\ lookup'.unavailable = lookup.unavailable
        /\ lookup'.query = lookup.query /\ lookup'.phase = phase
        /\ lookup'.answer = answer /\ lookup'.profiles = Profiles(lookup.found)
        /\ lookup'.sources = {}
    BY <1>0, <2>1 DEF LookupStates, PeopleInv
  <2> QED BY <2>1, <2>2, <2>4, <2>5, <2>6, <2>7 DEF PeopleInv, PeopleTypeOK, DocumentsMention
<1>4. CASE SearchDocuments
  <2>1. PICK sources \in SUBSET DocChunks :
          /\ lookup' = [lookup EXCEPT !.phase = "over", !.sources = sources]
          /\ Anchors # {} => \A c \in sources : Mentioning[c] \cap Anchors # {}
    <3>1. CASE \E S \in SUBSET DocChunks :
                  lookup' = [lookup EXCEPT !.phase = "over", !.sources = Relevant(S)]
      BY <3>1 DEF Relevant
    <3>2. CASE lookup' = [lookup EXCEPT !.phase = "over"]
      <4>1. lookup.sources = {}
        BY <1>4 DEF SearchDocuments, PeopleInv
      <4>2. [lookup EXCEPT !.phase = "over"] = [lookup EXCEPT !.phase = "over", !.sources = {}]
        BY <1>0, <4>1 DEF LookupStates
      <4> QED BY <3>2, <4>2
    <3> QED BY <1>4, <3>1, <3>2 DEF SearchDocuments
  <2>2. lookup' \in LookupStates
    BY <1>0, <2>1 DEF LookupStates
  <2>3. /\ lookup'.waiting = lookup.waiting /\ lookup'.asked = lookup.asked
        /\ lookup'.found = lookup.found /\ lookup'.cut = lookup.cut
        /\ lookup'.skipped = lookup.skipped /\ lookup'.unavailable = lookup.unavailable
        /\ lookup'.query = lookup.query /\ lookup'.phase = "over"
        /\ lookup'.answer = lookup.answer /\ lookup'.profiles = lookup.profiles
        /\ lookup'.sources = sources
    BY <1>0, <2>1 DEF LookupStates
  <2>4. lookup.phase = "documents" /\ mongoFaults' \in 0..MaxMongoFaults
    BY <1>4, <1>m DEF SearchDocuments
  <2>5. Anchors' = Anchors
    BY <2>3 DEF Anchors
  <2> QED BY <1>0, <2>1, <2>2, <2>3, <2>4, <2>5 DEF PeopleInv, PeopleTypeOK, DocumentsMention
<1>5. CASE UNCHANGED peopleVars
  BY <1>5 DEF peopleVars, PeopleInv, PeopleTypeOK, DocumentsMention, Anchors
<1> QED BY <1>1, <1>2, <1>3, <1>4, <1>5 DEF PeopleNext

LEMMA PeopleInvSuffices == PeopleInv => PeopleTypeOK /\ PeopleAreToldApart
<1> SUFFICES ASSUME PeopleInv PROVE PeopleTypeOK /\ PeopleAreToldApart
  OBVIOUS
<1>0. lookup \in LookupStates
  BY DEF PeopleInv, PeopleTypeOK
<1>1. AbsenceIsKnown
  BY DEF PeopleInv, AbsenceIsKnown, Outcome
<1>2. ReachableIsShown
  <2> SUFFICES ASSUME lookup.answer = "found", NEW r \in PersonRecords,
                      r \in MatchesIn(r.schema, lookup.query),
                      r.schema \in lookup.asked \ (lookup.skipped \cup lookup.cut),
                      ~lookup.unavailable
               PROVE  r \in UNION lookup.profiles
    BY DEF ReachableIsShown
  <2>1. lookup.waiting = {} /\ lookup.profiles = Profiles(lookup.found)
    BY DEF PeopleInv
  <2>2. MatchesIn(r.schema, lookup.query) \subseteq lookup.found
    BY <2>1 DEF PeopleInv
  <2> QED BY <2>1, <2>2, FoundIsShown
<1>3. ProfileIsOnePersons
  <2>1. lookup.found \in SUBSET PersonRecords /\ lookup.profiles \in {{}, Profiles(lookup.found)}
    BY <1>0 DEF LookupStates, PeopleInv
  <2> QED BY <2>1, ProfilesArePersons
<1>4. DocumentsMention /\ RefusedIsSilent
  BY DEF PeopleInv, RefusedIsSilent
<1> QED BY <1>1, <1>2, <1>3, <1>4 DEF PeopleInv, PeopleAreToldApart

\* However the collections answer, are cut off or lost, nobody is said not to
\* exist while one could not be reached, what the others hold is shown, a profile
\* is one person's, and documents are shown only where they mention the person.
THEOREM PeopleAreKeptApart == PeopleSpec => []PeopleAreToldApart
BY PeopleStart, PeopleKeep, PeopleInvSuffices, PTL DEF PeopleSpec

-----------------------------------------------------------------------------
(* The document that is meant.                                             *)

OneEach(C) == \A c, e \in C : c.doc = e.doc => c = e
DocsOf(C) == {c.doc : c \in C}
Bearing(D, n) == {d \in D : n \in Bears[d]}

\* What has become of the rows that matched at first, where nothing failed or
\* changed: they are matched, ranked and, if they bear the number, passed on.
FirstMatchesFollow ==
    /\ asked.phase = "db" => asked.matching0 = Matches(asked)
    /\ asked.phase \in {"idle", "llm", "db_again", "vector"} => asked.matching0 = {}
    /\ asked.phase = "rank" =>
          \/ asked.matching0 = {}
          \/ /\ DocsOf(asked.candidates) = asked.matching0
             /\ \A c \in asked.candidates : c.strategy = "db_query"
    /\ asked.phase = "similar" => Bearing(asked.matching0, asked.number_raw) = {}
    /\ asked.phase = "present" =>
          \/ asked.matching0 = {}
          \/ /\ DocsOf(asked.candidates) = Bearing(asked.matching0, asked.number_raw)
             /\ \A c \in asked.candidates : c.strategy = "db_query"

Undisturbed ==
    /\ resolveFaults = 0 /\ titleChanges = 0
    /\ asked.number_raw # NoNumber
    /\ Cardinality(asked.matching0) <= DbLimit

ResolverInv ==
    /\ ResolverTypeOK
    /\ IsFiniteSet(asked.words) /\ IsFiniteSet(asked.topic)
    /\ OneEach(asked.candidates)
    /\ asked.phase # "over" => asked.shown = <<>> /\ asked.answer = "none"
    /\ asked.unfiltered => resolveFaults # 0
    /\ asked.phase = "present" /\ asked.number_raw # NoNumber /\ ~asked.unfiltered =>
          \A c \in asked.candidates : BearsNumber(c, asked.number_raw)
    /\ Undisturbed => FirstMatchesFollow
    /\ ResolutionIsSound

\* The scores are percentages.
LEMMA ShareIsNat ==
    ASSUME NEW part, NEW S, IsFiniteSet(S)
    PROVE  Share(part, S) \in Nat
<1>1. CASE S = {}
  BY <1>1 DEF Share
<1>2. CASE S # {}
  <2> DEFINE n == Cardinality(S)
             m == Cardinality(part \cap S)
  <2>1. n \in Nat /\ n # 0
    BY <1>2, FS_CardinalityType, FS_EmptySet
  <2>2. m \in Nat
    BY FS_Subset, FS_CardinalityType
  <2>3. Share(part, S) = (m * 100) \div n
    BY <1>2 DEF Share
  <2> HIDE DEF n, m
  <2>4. m * 100 \in Nat
    BY <2>2
  <2> DEFINE k == m * 100
  <2>5. k \in Nat
    BY <2>4
  <2> HIDE DEF k
  <2>6. k \div n \in Nat
    BY <2>1, <2>5
  <2> QED BY <2>3, <2>6 DEF k
<1> QED BY <1>1, <1>2

LEMMA CappedScore == ASSUME NEW n \in Nat PROVE AtMost100(n) \in 0..100
BY DEF AtMost100

LEMMA DbScoreTyped ==
    ASSUME NEW d \in Titled, NEW q, IsFiniteSet(q.words)
    PROVE  DbScore(d, q) \in 0..100
<1> DEFINE number == IF q.numbers \cap Exact[d] # {} THEN 95
                     ELSE IF q.numbers \cap ContainedIn[d] # {} THEN 70 ELSE 0
           kind == IF q.kind # NoKind THEN 25 ELSE 0
           share == Share(WordsOf[d], q.words)
<1>1. number \in Nat /\ kind \in Nat /\ share \in Nat
  BY ShareIsNat
<1>2. DbScore(d, q) = AtMost100(number + kind + share \div 4)
  BY DEF DbScore
<1> HIDE DEF number, kind, share
<1>3. number + kind + share \div 4 \in Nat
  BY <1>1
<1> QED BY <1>2, <1>3, CappedScore

\* What a query finds: one candidate for each row, and all rows within the limit.
LEMMA QueriedRows ==
    ASSUME NEW q, IsFiniteSet(q.words), NEW found \in Queried(q)
    PROVE  /\ found \in SUBSET Candidates /\ OneEach(found)
           /\ \A c \in found : c.strategy = "db_query"
           /\ Cardinality(Matches(q)) <= DbLimit => DocsOf(found) = Matches(q)
<1>1. PICK S \in SUBSET Matches(q) :
          /\ found = {[doc |-> d, score |-> DbScore(d, q), strategy |-> "db_query"] : d \in S}
          /\ Cardinality(Matches(q)) <= DbLimit => S = Matches(q)
  BY DEF Queried
<1>2. S \subseteq Titled
  BY DEF Matches
<1>3. \A d \in S : [doc |-> d, score |-> DbScore(d, q), strategy |-> "db_query"] \in Candidates
  BY <1>2, DbScoreTyped DEF Candidates, Strategies
<1>4. found \in SUBSET Candidates
  BY <1>1, <1>3
<1>5. OneEach(found)
  BY <1>1 DEF OneEach
<1>6. DocsOf(found) = S
  <2>1. \A c \in found : c.doc \in S
    BY <1>1
  <2>2. ASSUME NEW d \in S PROVE \E c \in found : c.doc = d
    <3> DEFINE score == DbScore(d, q)
               c == [doc |-> d, score |-> score, strategy |-> "db_query"]
    <3>1. c \in found
      BY <1>1
    <3> HIDE DEF score
    <3>2. c.doc = d
      OBVIOUS
    <3> QED BY <3>1, <3>2
  <2> QED BY <2>1, <2>2 DEF DocsOf
<1>7. \A c \in found : c.strategy = "db_query"
  BY <1>1
<1> QED BY <1>1, <1>4, <1>5, <1>6, <1>7

\* The lift changes scores only.
LEMMA LiftedAlike ==
    ASSUME NEW C \in SUBSET Candidates, NEW topic, IsFiniteSet(topic), OneEach(C)
    PROVE  /\ TopicLifted(C, topic) \in SUBSET Candidates /\ OneEach(TopicLifted(C, topic))
           /\ \A k \in TopicLifted(C, topic) :
                 \E c \in C : k.doc = c.doc /\ k.strategy = c.strategy
           /\ DocsOf(TopicLifted(C, topic)) = DocsOf(C)
<1> DEFINE lift(c) == AtMost100(c.score + (Share(WordsOf[c.doc], topic) * 3) \div 10)
           Lift(c) == [c EXCEPT !.score = lift(c)]
           K == TopicLifted(C, topic)
<1>1. ASSUME NEW c \in C
      PROVE  Lift(c) \in Candidates /\ Lift(c).doc = c.doc /\ Lift(c).strategy = c.strategy
  <2>1. c.score \in Nat /\ c \in Candidates
    BY DEF Candidates
  <2> DEFINE share == Share(WordsOf[c.doc], topic)
  <2>2. share \in Nat
    BY ShareIsNat
  <2> HIDE DEF share
  <2>3. c.score + (share * 3) \div 10 \in Nat
    BY <2>1, <2>2
  <2>4. lift(c) \in 0..100
    BY <2>3, CappedScore DEF share
  <2> HIDE DEF lift
  <2> QED BY <2>1, <2>4 DEF Candidates
<1>2. K = {Lift(c) : c \in C}
  BY DEF TopicLifted
<1> HIDE DEF Lift, K
<1>3. K \in SUBSET Candidates
  BY <1>1, <1>2
<1>4. \A k \in K : \E c \in C : k = Lift(c) /\ k.doc = c.doc /\ k.strategy = c.strategy
  BY <1>1, <1>2
<1>5. OneEach(K)
  BY <1>4 DEF OneEach
<1>6. DocsOf(K) = DocsOf(C)
  BY <1>1, <1>2 DEF DocsOf
<1> QED BY <1>3, <1>4, <1>5, <1>6 DEF K

\* Candidates of one document each are no more than their documents.
LEMMA FewCandidates ==
    ASSUME NEW C \in SUBSET Candidates, OneEach(C), NEW D, IsFiniteSet(D), DocsOf(C) \subseteq D
    PROVE  IsFiniteSet(C) /\ Cardinality(C) <= Cardinality(D)
<1> DEFINE f == [c \in C |-> c.doc]
<1>1. f \in Injection(C, D)
  BY DEF Injection, IsInjective, OneEach, DocsOf
<1> QED BY <1>1, FS_Injection

\* An enumeration of a finite set leaves nothing out.
LEMMA EnumeratesAll ==
    ASSUME NEW S, IsFiniteSet(S), NEW s \in SetToSeqs(S)
    PROVE  /\ s \in Seq(S) /\ Len(s) = Cardinality(S)
           /\ \A e \in S : \E i \in 1..Len(s) : s[i] = e
<1> DEFINE n == Cardinality(S)
<1>1. n \in Nat
  BY FS_CardinalityType
<1>2. s \in [1..n -> S] /\ \A i, j \in 1..n : i # j => s[i] # s[j]
  BY DEF SetToSeqs
<1>3. s \in Seq(S) /\ Len(s) = n
  BY <1>1, <1>2
<1>4. s \in Injection(1..n, S)
  BY <1>2 DEF Injection, IsInjective
<1>5. Cardinality(1..n) = n
  BY <1>1, FS_Interval
<1>6. s \in Surjection(1..n, S)
  BY <1>4, <1>5, FS_Injection
<1> QED BY <1>3, <1>6 DEF Surjection

\* The first candidates.
LEMMA FirstPart ==
    ASSUME NEW S, NEW s \in Seq(S), NEW m \in Nat, m <= Len(s)
    PROVE  /\ SubSeq(s, 1, m) \in Seq(S) /\ Len(SubSeq(s, 1, m)) = m
           /\ \A i \in 1..m : SubSeq(s, 1, m)[i] = s[i] /\ s[i] \in S
<1>1. \A i \in 1..m : i \in 1..Len(s) /\ s[i] \in S
  OBVIOUS
<1>2. SubSeq(s, 1, m) = [i \in 1..m |-> s[i]]
  BY <1>1
<1> QED BY <1>1, <1>2

LEMMA ResolverStart == ResolverInit => ResolverInv
<1> USE ResolverAssumption
<1> SUFFICES ASSUME ResolverInit PROVE ResolverInv
  OBVIOUS
<1>1. asked \in AskedStates
  <2>1. <<>> \in Seq(Candidates)
    OBVIOUS
  <2>2. NoNumber \in Named /\ NoKind \in {r.kind : r \in References} \cup {NoKind}
    BY DEF Named
  <2> QED BY <2>1, <2>2 DEF ResolverInit, Nothing, AskedStates
<1>2. /\ asked.phase = "idle" /\ asked.words = {} /\ asked.topic = {} /\ asked.candidates = {}
      /\ asked.shown = <<>> /\ asked.answer = "none" /\ asked.unfiltered = FALSE
      /\ asked.matching0 = {} /\ asked.number_raw = NoNumber
  BY DEF ResolverInit, Nothing
<1>3. row \in [Titled -> {"indexed", "building_kg", "gone"}]
  BY DEF ResolverInit
<1>4. ResolverTypeOK
  BY <1>1, <1>2, <1>3 DEF ResolverTypeOK, ResolverInit
<1>5. OneEach(asked.candidates) /\ ResolutionIsSound /\ ~Undisturbed
  BY <1>2 DEF OneEach, ResolutionIsSound, NamedNumberIsKept, GuessesAreNotAsserted, NamedIsFound,
     Undisturbed
<1> QED BY <1>2, <1>4, <1>5, FS_EmptySet DEF ResolverInv

\* What every step but the last leaves to show: the new state of the resolution
\* is typed, and nothing is shown or answered before the end.
LEMMA StillResolving ==
    ASSUME ResolverInv, asked'.phase # "over", asked'.shown = <<>>, asked'.answer = "none",
           row' = row, titleChanges' = titleChanges,
           StageWorks \/ StageFails,
           asked' \in AskedStates,
           IsFiniteSet(asked'.words) /\ IsFiniteSet(asked'.topic),
           OneEach(asked'.candidates),
           asked'.unfiltered => resolveFaults' # 0,
           asked'.phase = "present" /\ asked'.number_raw # NoNumber /\ ~asked'.unfiltered =>
               \A c \in asked'.candidates : BearsNumber(c, asked'.number_raw),
           Undisturbed' => FirstMatchesFollow'
    PROVE  ResolverInv'
<1> USE ResolverAssumption
<1>1. ResolverTypeOK'
  <2>1. resolveFaults' \in 0..MaxResolveFaults
    BY DEF StageWorks, StageFails, ResolverInv, ResolverTypeOK
  <2>2. Len(asked'.shown) <= MaxShown
    OBVIOUS
  <2> QED BY <2>1, <2>2 DEF ResolverInv, ResolverTypeOK
<1>2. ResolutionIsSound'
  BY DEF ResolutionIsSound, NamedNumberIsKept, Shown, GuessesAreNotAsserted, NamedIsFound
<1> QED BY <1>1, <1>2 DEF ResolverInv

\* Until a stage fails there has been no fault.
LEMMA FaultsCount ==
    ASSUME ResolverInv
    PROVE  /\ StageFails => resolveFaults' # 0
           /\ StageWorks \/ StageFails => (resolveFaults' = 0 => resolveFaults = 0 /\ StageWorks)
<1>1. resolveFaults \in Nat
  BY ResolverAssumption DEF ResolverInv, ResolverTypeOK
<1> QED BY <1>1 DEF StageWorks, StageFails

LEMMA RegexStep == ResolverInv /\ ExtractByRegex => ResolverInv'
<1> USE ResolverAssumption
<1> SUFFICES ASSUME ResolverInv, ExtractByRegex PROVE ResolverInv'
  OBVIOUS
<1>0. asked \in AskedStates /\ row' = row /\ titleChanges' = titleChanges /\ StageWorks
  BY DEF ResolverInv, ResolverTypeOK, ExtractByRegex
<1>1. PICK r \in References :
          LET q == [Nothing EXCEPT !.phase = "db", !.kind = r.kind, !.number_raw = r.number,
                                   !.numbers = NumberForms(r),
                                   !.words = r.words, !.topic = r.topic]
          IN  asked' = [q EXCEPT !.matching0 = Matches(q)]
  BY DEF ExtractByRegex
<1> DEFINE q == [Nothing EXCEPT !.phase = "db", !.kind = r.kind, !.number_raw = r.number,
                                !.numbers = NumberForms(r),
                                !.words = r.words, !.topic = r.topic]
           numbers == NumberForms(r)
<1>2. asked' = [q EXCEPT !.matching0 = Matches(q)]
  BY <1>1
<1>3. numbers \in SUBSET Named /\ r.number \in Named
  BY DEF NumberForms, Named
<1>4. r.words \in SUBSET Words /\ r.topic \in SUBSET Words
  BY DEF Words
<1>5. Nothing \in AskedStates
  <2>1. <<>> \in Seq(Candidates)
    OBVIOUS
  <2>2. NoNumber \in Named /\ NoKind \in {x.kind : x \in References} \cup {NoKind}
    BY DEF Named
  <2> QED BY <2>1, <2>2 DEF Nothing, AskedStates
<1>6. Nothing.candidates = {} /\ Nothing.shown = <<>> /\ Nothing.answer = "none"
      /\ Nothing.unfiltered = FALSE
  BY DEF Nothing
<1>7. q = [Nothing EXCEPT !.phase = "db", !.kind = r.kind, !.number_raw = r.number,
                          !.numbers = numbers, !.words = r.words, !.topic = r.topic]
  OBVIOUS
<1> HIDE DEF numbers, q
<1>8. /\ q \in AskedStates /\ q.phase = "db" /\ q.kind = r.kind /\ q.numbers = numbers
      /\ q.words = r.words /\ q.topic = r.topic /\ q.candidates = {} /\ q.shown = <<>>
      /\ q.answer = "none" /\ q.unfiltered = FALSE
  BY <1>3, <1>4, <1>5, <1>6, <1>7 DEF AskedStates
<1> DEFINE m == Matches(q)
<1>9. m \in SUBSET Titled
  BY DEF Matches
<1>10. asked' = [q EXCEPT !.matching0 = m]
  BY <1>2
<1> HIDE DEF m
<1>11. /\ asked' \in AskedStates /\ asked'.phase = "db" /\ asked'.kind = q.kind
       /\ asked'.numbers = q.numbers /\ asked'.words = q.words /\ asked'.topic = q.topic
       /\ asked'.candidates = {} /\ asked'.shown = <<>> /\ asked'.answer = "none"
       /\ asked'.unfiltered = FALSE /\ asked'.matching0 = m
  BY <1>8, <1>9, <1>10 DEF AskedStates
<1>12. Matches(asked)' = m
  BY <1>0, <1>11 DEF Matches, m
<1>13. FirstMatchesFollow'
  BY <1>11, <1>12 DEF FirstMatchesFollow
<1>14. IsFiniteSet(asked'.words) /\ IsFiniteSet(asked'.topic) /\ OneEach(asked'.candidates)
  BY <1>8, <1>11 DEF OneEach
<1> QED BY <1>0, <1>11, <1>13, <1>14, StillResolving

\* A query of the database.
LEMMA QueryStep ==
    ASSUME ResolverInv, NEW phase, NEW next, <<phase, next>> \in {<<"db", "llm">>, <<"db_again", "vector">>},
           Query(phase, next)
    PROVE  ResolverInv'
<1> USE ResolverAssumption
<1>0. /\ asked \in AskedStates /\ row' = row /\ titleChanges' = titleChanges
      /\ asked.phase = phase /\ phase \in {"db", "db_again"} /\ next \in {"llm", "vector"}
      /\ asked.phase # "over" /\ asked.shown = <<>> /\ asked.answer = "none"
      /\ IsFiniteSet(asked.words) /\ IsFiniteSet(asked.topic) /\ OneEach(asked.candidates)
      /\ asked.unfiltered => resolveFaults # 0
      /\ resolveFaults \in Nat
  <2>1. asked.phase = phase /\ row' = row /\ titleChanges' = titleChanges
    BY Zenon DEF Query
  <2>2. phase \in {"db", "db_again"} /\ next \in {"llm", "vector"}
    OBVIOUS
  <2> QED BY <2>1, <2>2 DEF ResolverInv, ResolverTypeOK
<1>1. CASE /\ StageWorks
           /\ \E found \in Queried(asked) :
                  asked' = [asked EXCEPT !.candidates = found,
                                         !.phase = IF found = {} THEN next ELSE "rank"]
  <2>1. PICK found \in Queried(asked) :
            asked' = [asked EXCEPT !.candidates = found,
                                   !.phase = IF found = {} THEN next ELSE "rank"]
    BY <1>1
  <2>2. /\ found \in SUBSET Candidates /\ OneEach(found)
        /\ \A c \in found : c.strategy = "db_query"
        /\ Cardinality(Matches(asked)) <= DbLimit => DocsOf(found) = Matches(asked)
    BY <1>0, QueriedRows
  <2> DEFINE to == IF found = {} THEN next ELSE "rank"
  <2>3. asked' = [asked EXCEPT !.candidates = found, !.phase = to]
    BY <2>1
  <2>4. to \in {"llm", "vector", "rank"} /\ (to = "rank" <=> found # {})
    BY <1>0
  <2> HIDE DEF to
  <2>5. /\ asked' \in AskedStates /\ asked'.phase = to /\ asked'.candidates = found
        /\ asked'.shown = <<>> /\ asked'.answer = "none" /\ asked'.words = asked.words
        /\ asked'.topic = asked.topic /\ asked'.unfiltered = asked.unfiltered
        /\ asked'.matching0 = asked.matching0 /\ asked'.number_raw = asked.number_raw
    BY <1>0, <2>2, <2>3, <2>4 DEF AskedStates
  <2>6. ASSUME Undisturbed' PROVE FirstMatchesFollow'
    <3>1. Undisturbed
      BY <1>0, <1>1, <2>5, <2>6 DEF Undisturbed, StageWorks
    <3>2. FirstMatchesFollow
      BY <3>1 DEF ResolverInv
    <3>3. CASE phase = "db"
      <4>1. asked.matching0 = Matches(asked)
        BY <1>0, <3>2, <3>3 DEF FirstMatchesFollow
      <4>2. DocsOf(found) = asked.matching0
        BY <2>2, <3>1, <4>1 DEF Undisturbed
      <4>3. found = {} => asked.matching0 = {}
        BY <4>2 DEF DocsOf
      <4> QED BY <2>2, <2>4, <2>5, <4>2, <4>3 DEF FirstMatchesFollow
    <3>4. CASE phase = "db_again"
      <4>1. asked'.matching0 = {}
        BY <1>0, <2>5, <3>2, <3>4 DEF FirstMatchesFollow
      <4> QED BY <2>4, <2>5, <4>1 DEF FirstMatchesFollow
    <3> QED BY <1>0, <3>3, <3>4
  <2> QED BY <1>0, <1>1, <2>2, <2>4, <2>5, <2>6, StillResolving DEF StageWorks
<1>2. CASE asked' = [asked EXCEPT !.phase = next] /\ StageFails
  <2>1. /\ asked' \in AskedStates /\ asked'.phase = next /\ asked'.candidates = asked.candidates
        /\ asked'.shown = <<>> /\ asked'.answer = "none" /\ asked'.words = asked.words
        /\ asked'.topic = asked.topic
    BY <1>0, <1>2 DEF AskedStates
  <2>2. resolveFaults' # 0 /\ ~Undisturbed'
    BY <1>2, FaultsCount DEF Undisturbed
  <2> QED BY <1>0, <1>2, <2>1, <2>2, StillResolving
<1> QED BY <1>1, <1>2 DEF Query

LEMMA LlmStep == ResolverInv /\ ExtractByLlm => ResolverInv'
<1> USE ResolverAssumption
<1> SUFFICES ASSUME ResolverInv, ExtractByLlm PROVE ResolverInv'
  OBVIOUS
<1>0. /\ asked \in AskedStates /\ row' = row /\ titleChanges' = titleChanges
      /\ asked.phase = "llm" /\ asked.shown = <<>> /\ asked.answer = "none"
      /\ IsFiniteSet(asked.words) /\ IsFiniteSet(asked.topic) /\ OneEach(asked.candidates)
      /\ asked.unfiltered => resolveFaults # 0
      /\ resolveFaults \in Nat
  <2>1. asked.phase = "llm" /\ row' = row /\ titleChanges' = titleChanges
    BY Zenon DEF ExtractByLlm
  <2> QED BY <2>1 DEF ResolverInv, ResolverTypeOK
<1>1. CASE /\ StageWorks
           /\ \E r \in References :
                 asked' = [asked EXCEPT
                     !.phase = "db_again",
                     !.numbers = @ \cup NumberForms(r),
                     !.words = @ \cup r.words,
                     !.kind = IF @ = NoKind THEN r.kind ELSE @]
  <2>1. PICK r \in References :
                 asked' = [asked EXCEPT
                     !.phase = "db_again",
                     !.numbers = @ \cup NumberForms(r),
                     !.words = @ \cup r.words,
                     !.kind = IF @ = NoKind THEN r.kind ELSE @]
    BY <1>1
  <2> DEFINE numbers == asked.numbers \cup NumberForms(r)
             words == asked.words \cup r.words
             kind == IF asked.kind = NoKind THEN r.kind ELSE asked.kind
  <2>2. asked' = [asked EXCEPT !.phase = "db_again", !.numbers = numbers, !.words = words,
                               !.kind = kind]
    BY <2>1
  <2>3. numbers \in SUBSET Named
    BY <1>0 DEF NumberForms, Named, AskedStates
  <2>4. words \in SUBSET Words
    BY <1>0 DEF Words, AskedStates
  <2>5. kind \in {x.kind : x \in References} \cup {NoKind}
    BY <1>0 DEF AskedStates
  <2>6. IsFiniteSet(words)
    BY <1>0, FS_Union
  <2> HIDE DEF numbers, words, kind
  <2>7. /\ asked' \in AskedStates /\ asked'.phase = "db_again"
        /\ asked'.candidates = asked.candidates /\ asked'.shown = <<>>
        /\ asked'.answer = "none" /\ asked'.words = words /\ asked'.topic = asked.topic
        /\ asked'.unfiltered = asked.unfiltered
        /\ asked'.matching0 = asked.matching0 /\ asked'.number_raw = asked.number_raw
    BY <1>0, <2>2, <2>3, <2>4, <2>5 DEF AskedStates
  <2>8. ASSUME Undisturbed' PROVE FirstMatchesFollow'
    BY <1>0, <1>1, <2>7, <2>8 DEF Undisturbed, FirstMatchesFollow, ResolverInv, StageWorks
  <2> QED BY <1>0, <1>1, <2>6, <2>7, <2>8, StillResolving DEF StageWorks
<1>2. CASE asked' = [asked EXCEPT !.phase = "vector"] /\ StageFails
  <2>1. /\ asked' \in AskedStates /\ asked'.phase = "vector"
        /\ asked'.candidates = asked.candidates
        /\ asked'.shown = <<>> /\ asked'.answer = "none" /\ asked'.words = asked.words
        /\ asked'.topic = asked.topic
    BY <1>0, <1>2 DEF AskedStates
  <2>2. resolveFaults' # 0 /\ ~Undisturbed'
    BY <1>2, FaultsCount DEF Undisturbed
  <2> QED BY <1>0, <1>2, <2>1, <2>2, StillResolving
<1> QED BY <1>1, <1>2 DEF ExtractByLlm

LEMMA VectorStep == ResolverInv /\ VectorFallback => ResolverInv'
<1> USE ResolverAssumption
<1> SUFFICES ASSUME ResolverInv, VectorFallback PROVE ResolverInv'
  OBVIOUS
<1>0. /\ asked \in AskedStates /\ row' = row /\ titleChanges' = titleChanges
      /\ asked.phase = "vector" /\ asked.shown = <<>> /\ asked.answer = "none"
      /\ IsFiniteSet(asked.words) /\ IsFiniteSet(asked.topic) /\ OneEach(asked.candidates)
      /\ asked.unfiltered => resolveFaults # 0
      /\ resolveFaults \in Nat
  <2>1. asked.phase = "vector" /\ row' = row /\ titleChanges' = titleChanges
    BY Zenon DEF VectorFallback
  <2> QED BY <2>1 DEF ResolverInv, ResolverTypeOK
<1>1. CASE /\ StageWorks
           /\ \E S \in SUBSET {d \in Titled : row[d] # "gone"} :
                 asked' = [asked EXCEPT
                     !.phase = IF S = {} THEN "similar" ELSE "rank",
                     !.candidates = {[doc |-> d, score |-> (Likeness[d] * 4) \div 5,
                                      strategy |-> "vector"] : d \in S}]
  <2>1. PICK S \in SUBSET {d \in Titled : row[d] # "gone"} :
                 asked' = [asked EXCEPT
                     !.phase = IF S = {} THEN "similar" ELSE "rank",
                     !.candidates = {[doc |-> d, score |-> (Likeness[d] * 4) \div 5,
                                      strategy |-> "vector"] : d \in S}]
    BY <1>1
  <2> DEFINE to == IF S = {} THEN "similar" ELSE "rank"
             C == {[doc |-> d, score |-> (Likeness[d] * 4) \div 5, strategy |-> "vector"] : d \in S}
  <2>2. asked' = [asked EXCEPT !.phase = to, !.candidates = C]
    BY <2>1
  <2>3. \A d \in S : (Likeness[d] * 4) \div 5 \in 0..100
    <3>1. \A n \in 0..100 : (n * 4) \div 5 \in 0..100
      OBVIOUS
    <3>2. \A d \in S : Likeness[d] \in 0..100
      OBVIOUS
    <3> QED BY <3>1, <3>2
  <2>4. C \in SUBSET Candidates
    BY <2>3 DEF Candidates, Strategies
  <2>5. OneEach(C)
    BY DEF OneEach
  <2>6. to \in {"similar", "rank"}
    OBVIOUS
  <2> HIDE DEF to, C
  <2>7. /\ asked' \in AskedStates /\ asked'.phase = to
        /\ asked'.candidates = C /\ asked'.shown = <<>>
        /\ asked'.answer = "none" /\ asked'.words = asked.words /\ asked'.topic = asked.topic
        /\ asked'.unfiltered = asked.unfiltered
        /\ asked'.matching0 = asked.matching0 /\ asked'.number_raw = asked.number_raw
    BY <1>0, <2>2, <2>4, <2>6 DEF AskedStates
  <2>8. ASSUME Undisturbed' PROVE FirstMatchesFollow'
    <3>1. asked'.matching0 = {}
      BY <1>0, <1>1, <2>7, <2>8 DEF Undisturbed, FirstMatchesFollow, ResolverInv, StageWorks
    <3> QED BY <2>6, <2>7, <3>1 DEF FirstMatchesFollow, Bearing
  <2> QED BY <1>0, <1>1, <2>5, <2>6, <2>7, <2>8, StillResolving DEF StageWorks
<1>2. CASE asked' = [asked EXCEPT !.phase = "similar"] /\ StageFails
  <2>1. /\ asked' \in AskedStates /\ asked'.phase = "similar"
        /\ asked'.candidates = asked.candidates
        /\ asked'.shown = <<>> /\ asked'.answer = "none" /\ asked'.words = asked.words
        /\ asked'.topic = asked.topic
    BY <1>0, <1>2 DEF AskedStates
  <2>2. resolveFaults' # 0 /\ ~Undisturbed'
    BY <1>2, FaultsCount DEF Undisturbed
  <2> QED BY <1>0, <1>2, <2>1, <2>2, StillResolving
<1> QED BY <1>1, <1>2 DEF VectorFallback

LEMMA RankStep == ResolverInv /\ Rank => ResolverInv'
<1> USE ResolverAssumption
<1> SUFFICES ASSUME ResolverInv, Rank PROVE ResolverInv'
  OBVIOUS
<1>0. /\ asked \in AskedStates /\ row' = row /\ titleChanges' = titleChanges
      /\ asked.phase = "rank" /\ asked.shown = <<>> /\ asked.answer = "none"
      /\ IsFiniteSet(asked.words) /\ IsFiniteSet(asked.topic) /\ OneEach(asked.candidates)
      /\ asked.unfiltered => resolveFaults # 0
      /\ resolveFaults \in Nat
  BY DEF ResolverInv, ResolverTypeOK, Rank
<1> DEFINE left == NumberFiltered(asked.candidates, asked.number_raw)
           kept == TopicLifted(left, asked.topic)
           to == IF kept = {} THEN "similar" ELSE "present"
<1>1. CASE StageWorks /\ asked' = [asked EXCEPT !.candidates = kept, !.phase = to]
  <2>1. /\ left \in SUBSET asked.candidates
        /\ asked.number_raw # NoNumber =>
              left = {c \in asked.candidates : asked.number_raw \in Bears[c.doc]}
    BY DEF NumberFiltered, BearsNumber
  <2>2. left \in SUBSET Candidates /\ OneEach(left)
    BY <1>0, <2>1 DEF AskedStates, OneEach
  <2> HIDE DEF left
  <2>3. /\ kept \in SUBSET Candidates /\ OneEach(kept)
        /\ \A k \in kept : \E c \in left : k.doc = c.doc /\ k.strategy = c.strategy
        /\ DocsOf(kept) = DocsOf(left)
    BY <1>0, <2>2, LiftedAlike
  <2> HIDE DEF kept
  <2>4. to \in {"similar", "present"} /\ (to = "similar" <=> kept = {})
    OBVIOUS
  <2> HIDE DEF to
  <2>5. /\ asked' \in AskedStates /\ asked'.phase = to
        /\ asked'.candidates = kept /\ asked'.shown = <<>>
        /\ asked'.answer = "none" /\ asked'.words = asked.words /\ asked'.topic = asked.topic
        /\ asked'.unfiltered = asked.unfiltered
        /\ asked'.matching0 = asked.matching0 /\ asked'.number_raw = asked.number_raw
    BY <1>0, <1>1, <2>3, <2>4 DEF AskedStates
  <2>6. asked.number_raw # NoNumber => \A k \in kept : BearsNumber(k, asked.number_raw)
    BY <2>1, <2>3 DEF BearsNumber
  <2>7. ASSUME Undisturbed' PROVE FirstMatchesFollow'
    <3>1. Undisturbed
      BY <1>0, <1>1, <2>5, <2>7 DEF Undisturbed, StageWorks
    <3>2. CASE asked.matching0 = {}
      BY <2>4, <2>5, <3>2 DEF FirstMatchesFollow, Bearing
    <3>3. CASE /\ DocsOf(asked.candidates) = asked.matching0
               /\ \A c \in asked.candidates : c.strategy = "db_query"
      <4>1. DocsOf(kept) = Bearing(asked.matching0, asked.number_raw)
        BY <2>1, <2>3, <3>1, <3>3 DEF Undisturbed, DocsOf, Bearing
      <4>2. \A k \in kept : k.strategy = "db_query"
        BY <2>1, <2>3, <3>3
      <4>3. kept = {} => Bearing(asked.matching0, asked.number_raw) = {}
        BY <4>1 DEF DocsOf
      <4> QED BY <2>4, <2>5, <4>1, <4>2, <4>3 DEF FirstMatchesFollow
    <3> QED BY <1>0, <3>1, <3>2, <3>3 DEF ResolverInv, FirstMatchesFollow
  <2> QED BY <1>0, <1>1, <2>3, <2>4, <2>5, <2>6, <2>7, StillResolving DEF StageWorks
<1>2. CASE asked' = [asked EXCEPT !.phase = "present", !.unfiltered = TRUE] /\ StageFails
  <2>1. /\ asked' \in AskedStates /\ asked'.phase = "present"
        /\ asked'.candidates = asked.candidates /\ asked'.unfiltered = TRUE
        /\ asked'.shown = <<>> /\ asked'.answer = "none" /\ asked'.words = asked.words
        /\ asked'.topic = asked.topic
    BY <1>0, <1>2 DEF AskedStates
  <2>2. resolveFaults' # 0 /\ ~Undisturbed'
    BY <1>2, FaultsCount DEF Undisturbed
  <2> QED BY <1>0, <1>2, <2>1, <2>2, StillResolving
<1> QED BY <1>1, <1>2 DEF Rank

LEMMA SimilarStep == ResolverInv /\ SearchSimilar => ResolverInv'
<1> USE ResolverAssumption
<1> SUFFICES ASSUME ResolverInv, SearchSimilar PROVE ResolverInv'
  OBVIOUS
<1>0. /\ asked \in AskedStates /\ row' = row /\ titleChanges' = titleChanges
      /\ asked.phase = "similar" /\ asked.shown = <<>> /\ resolveFaults' = resolveFaults
      /\ IsFiniteSet(asked.words) /\ IsFiniteSet(asked.topic) /\ OneEach(asked.candidates)
      /\ asked.unfiltered => resolveFaults # 0
  BY DEF ResolverInv, ResolverTypeOK, SearchSimilar, StageWorks
<1>1. PICK S \in SUBSET Titled :
          asked' = [asked EXCEPT !.phase = "over", !.similar = S,
                                 !.answer = IF S = {} THEN "not_found" ELSE "similar"]
  BY DEF SearchSimilar
<1> DEFINE ans == IF S = {} THEN "not_found" ELSE "similar"
<1>2. asked' = [asked EXCEPT !.phase = "over", !.similar = S, !.answer = ans]
  BY <1>1
<1>3. ans \in {"not_found", "similar"}
  OBVIOUS
<1> HIDE DEF ans
<1>4. /\ asked' \in AskedStates /\ asked'.phase = "over" /\ asked'.answer = ans
      /\ asked'.candidates = asked.candidates /\ asked'.shown = <<>>
      /\ asked'.words = asked.words /\ asked'.topic = asked.topic
      /\ asked'.unfiltered = asked.unfiltered
      /\ asked'.matching0 = asked.matching0 /\ asked'.number_raw = asked.number_raw
  BY <1>0, <1>2, <1>3 DEF AskedStates
<1>5. ResolverTypeOK'
  <2>1. Len(asked'.shown) <= MaxShown
    BY <1>4
  <2> QED BY <1>0, <1>4, <2>1 DEF ResolverInv, ResolverTypeOK
<1>6. NamedIsFound'
  <2> SUFFICES ASSUME Undisturbed', NEW d \in asked'.matching0, asked'.number_raw \in Bears[d]
               PROVE  FALSE
    BY DEF NamedIsFound, Undisturbed
  <2>1. Undisturbed
    BY <1>0, <1>4 DEF Undisturbed
  <2>2. Bearing(asked.matching0, asked.number_raw) = {}
    BY <1>0, <2>1 DEF ResolverInv, FirstMatchesFollow
  <2> QED BY <1>4, <2>2 DEF Bearing
<1>7. NamedNumberIsKept' /\ GuessesAreNotAsserted'
  BY <1>3, <1>4 DEF NamedNumberIsKept, Shown, GuessesAreNotAsserted
<1>8. FirstMatchesFollow'
  BY <1>4 DEF FirstMatchesFollow
<1> QED BY <1>0, <1>4, <1>5, <1>6, <1>7, <1>8 DEF ResolverInv, ResolutionIsSound

LEMMA PresentStep == ResolverInv /\ Present => ResolverInv'
<1> USE ResolverAssumption
<1> SUFFICES ASSUME ResolverInv, Present PROVE ResolverInv'
  OBVIOUS
<1>0. /\ asked \in AskedStates
      /\ IsFiniteSet(asked.words) /\ IsFiniteSet(asked.topic) /\ OneEach(asked.candidates)
      /\ asked.unfiltered => resolveFaults # 0
      /\ resolveFaults \in Nat /\ titleChanges \in Nat
  BY DEF ResolverInv, ResolverTypeOK
<1>1. asked.phase = "present" /\ row' = row /\ titleChanges' = titleChanges
  BY Zenon DEF Present
<1>2. PICK all \in Ranked(asked.candidates), hint \in BOOLEAN :
          LET s == SubSeq(all, 1, IF Len(all) < MaxShown THEN Len(all) ELSE MaxShown)
          IN  /\ StageWorks \/ StageFails
              /\ asked' = [asked EXCEPT
                     !.phase = "over",
                     !.answer = IF MereGuess(s[1]) THEN "not_found"
                                ELSE IF NearTied(s) THEN "ask" ELSE "resolved",
                     !.shown = IF MereGuess(s[1]) THEN <<>> ELSE s,
                     !.suggestion = hint]
  BY Zenon DEF Present
<1> DEFINE m == IF Len(all) < MaxShown THEN Len(all) ELSE MaxShown
           s == SubSeq(all, 1, m)
           ans == IF MereGuess(s[1]) THEN "not_found"
                  ELSE IF NearTied(s) THEN "ask" ELSE "resolved"
           shown == IF MereGuess(s[1]) THEN <<>> ELSE s
           C == asked.candidates
<1>3. StageWorks \/ StageFails
  BY <1>2
<1>4. asked' = [asked EXCEPT !.phase = "over", !.answer = ans, !.shown = shown,
                             !.suggestion = hint]
  BY <1>2
<1>5. C \in SUBSET Candidates
  BY <1>0 DEF AskedStates
<1>6. IsFiniteSet(C)
  BY <1>0, <1>5, FewCandidates DEF DocsOf, Candidates
<1>7. /\ all \in Seq(C) /\ Len(all) = Cardinality(C)
      /\ \A e \in C : \E i \in 1..Len(all) : all[i] = e
  BY <1>2, <1>6, EnumeratesAll DEF Ranked
<1>8. /\ m \in 0..Len(all) /\ m <= MaxShown
      /\ Len(all) <= MaxShown => m = Len(all)
  BY <1>7
<1> HIDE DEF m
<1>9. /\ s \in Seq(C) /\ Len(s) = m /\ \A i \in 1..m : s[i] = all[i] /\ s[i] \in C
  <2>1. all \in Seq(C) /\ Len(all) \in Nat /\ m \in Nat /\ m <= Len(all)
    BY <1>7, <1>8
  <2> HIDE DEF C
  <2> QED BY <2>1, FirstPart
<1> HIDE DEF s, C
<1>10. ans \in {"not_found", "ask", "resolved"}
       /\ (ans = "ask" => ~MereGuess(s[1]) /\ NearTied(s))
       /\ (ans = "resolved" => ~MereGuess(s[1]))
       /\ ((shown = <<>> /\ MereGuess(s[1])) \/ (shown = s /\ ~MereGuess(s[1])))
  <2>1. CASE MereGuess(s[1])
    BY <2>1
  <2>2. CASE ~MereGuess(s[1])
    BY <2>2
  <2> QED BY <2>1, <2>2
<1>11. shown \in Seq(Candidates) /\ Len(shown) <= MaxShown
       /\ \A i \in 1..Len(shown) : shown[i] \in C
  <2>1. <<>> \in Seq(Candidates) /\ Len(<<>>) = 0
    OBVIOUS
  <2>2. s \in Seq(Candidates)
    BY <1>5, <1>9
  <2> HIDE DEF shown, ans
  <2>3. \A i \in 1..Len(s) : s[i] \in C
    BY <1>9
  <2>4. Len(s) <= MaxShown /\ 0 <= MaxShown
    BY <1>8, <1>9
  <2>5. \A i \in 1..0 : FALSE
    OBVIOUS
  <2>6. CASE shown = <<>>
    BY <2>1, <2>4, <2>5, <2>6
  <2>7. CASE shown = s
    BY <2>2, <2>3, <2>4, <2>7
  <2> QED BY <1>10, <2>6, <2>7
<1> HIDE DEF ans, shown
<1>12. /\ asked' \in AskedStates /\ asked'.phase = "over" /\ asked'.answer = ans
       /\ asked'.shown = shown /\ asked'.candidates = C
       /\ asked'.words = asked.words /\ asked'.topic = asked.topic
       /\ asked'.unfiltered = asked.unfiltered
       /\ asked'.matching0 = asked.matching0 /\ asked'.number_raw = asked.number_raw
  BY <1>0, <1>4, <1>10, <1>11 DEF AskedStates, C
<1>13. ResolverTypeOK'
  <2>1. resolveFaults' \in 0..MaxResolveFaults
    BY <1>3 DEF StageWorks, StageFails, ResolverInv, ResolverTypeOK
  <2> QED BY <1>1, <1>11, <1>12, <2>1 DEF ResolverInv, ResolverTypeOK
<1>14. Shown' = {shown[i].doc : i \in 1..Len(shown)}
  BY <1>11, <1>12 DEF Shown
<1>15. NamedNumberIsKept'
  <2> SUFFICES ASSUME asked'.number_raw # NoNumber, ~asked'.unfiltered, NEW d \in Shown'
               PROVE  asked'.number_raw \in Bears[d]
    BY DEF NamedNumberIsKept
  <2>1. \A c \in C : BearsNumber(c, asked.number_raw)
    BY <1>1, <1>12 DEF ResolverInv, C
  <2> QED BY <1>11, <1>12, <1>14, <2>1 DEF BearsNumber
<1>16. GuessesAreNotAsserted'
  BY <1>10, <1>12 DEF GuessesAreNotAsserted, NearTied
<1>17. NamedIsFound'
  <2> SUFFICES ASSUME Undisturbed',
                      Cardinality(Bearing(asked.matching0, asked.number_raw)) <= MaxShown,
                      NEW d \in asked.matching0, asked.number_raw \in Bears[d]
               PROVE  d \in Shown'
    BY <1>12 DEF NamedIsFound, Undisturbed, Bearing
  <2> DEFINE D == Bearing(asked.matching0, asked.number_raw)
  <2>1. Undisturbed
    BY <1>0, <1>1, <1>3, <1>12, FaultsCount DEF Undisturbed
  <2>2. DocsOf(C) = D /\ \A c \in C : c.strategy = "db_query"
    BY <1>1, <2>1 DEF ResolverInv, FirstMatchesFollow, C
  <2>3. IsFiniteSet(D)
    BY <1>0, FS_Subset DEF AskedStates, Bearing
  <2>4. Cardinality(C) <= Cardinality(D)
    BY <1>0, <1>5, <2>2, <2>3, FewCandidates DEF C
  <2>5. m = Len(all)
    <3>1. Cardinality(C) \in Nat /\ Cardinality(D) \in Nat
      BY <1>6, <2>3, FS_CardinalityType
    <3>2. Cardinality(D) <= MaxShown
      OBVIOUS
    <3> HIDE DEF D
    <3> QED BY <1>7, <1>8, <2>4, <3>1, <3>2
  <2>6. PICK c \in C : c.doc = d
    BY <2>2 DEF DocsOf, Bearing
  <2>7. PICK i \in 1..Len(all) : all[i] = c
    BY <1>7
  <2>8. s[i] = c /\ i \in 1..Len(s)
    BY <1>9, <2>5, <2>7
  <2>9. ~MereGuess(s[1])
    <3>1. 1 \in 1..m
      BY <1>7, <2>5, <2>7
    <3>2. s[1] \in C
      BY <1>9, <3>1
    <3> QED BY <2>2, <3>2 DEF MereGuess
  <2>10. shown = s
    BY <1>10, <2>9
  <2> QED BY <1>14, <2>6, <2>8, <2>10
<1>18. FirstMatchesFollow'
  BY <1>12 DEF FirstMatchesFollow
<1>19. asked'.unfiltered => resolveFaults' # 0
  BY <1>0, <1>3, <1>12, FaultsCount
<1> QED
  BY <1>0, <1>12, <1>13, <1>15, <1>16, <1>17, <1>18, <1>19 DEF ResolverInv, ResolutionIsSound, C

LEMMA RowChangesStep == ASSUME ResolverInv, NEW d \in Titled, RowChanges(d) PROVE ResolverInv'
<1> USE ResolverAssumption
<1>1. asked' = asked /\ resolveFaults' = resolveFaults
      /\ titleChanges' \in 0..MaxTitleChanges /\ titleChanges' # 0
  BY DEF RowChanges, ResolverInv, ResolverTypeOK
<1>2. row' \in [Titled -> {"indexed", "building_kg", "gone"}]
  BY DEF RowChanges, ResolverInv, ResolverTypeOK
<1>3. ResolverTypeOK' /\ ~Undisturbed'
  BY <1>1, <1>2 DEF ResolverInv, ResolverTypeOK, Undisturbed
<1>4. ResolutionIsSound'
  BY <1>1 DEF ResolverInv, ResolutionIsSound, NamedNumberIsKept, Shown, GuessesAreNotAsserted,
     NamedIsFound
<1> QED BY <1>1, <1>3, <1>4 DEF ResolverInv

LEMMA ResolverKeep == ResolverInv /\ [ResolverNext]_resolverVars => ResolverInv'
<1> SUFFICES ASSUME ResolverInv, [ResolverNext]_resolverVars PROVE ResolverInv'
  OBVIOUS
<1>1. CASE UNCHANGED resolverVars
  <2>1. UNCHANGED <<row, asked, resolveFaults, titleChanges>>
    BY <1>1 DEF resolverVars
  <2>2. ResolverTypeOK' /\ ResolutionIsSound'
    BY <2>1 DEF ResolverInv, ResolverTypeOK, ResolutionIsSound, NamedNumberIsKept, Shown,
       GuessesAreNotAsserted, NamedIsFound
  <2>3. Undisturbed' => FirstMatchesFollow'
    BY <2>1 DEF ResolverInv, Undisturbed, FirstMatchesFollow, Matches
  <2> QED BY <2>1, <2>2, <2>3 DEF ResolverInv
<1>2. CASE QueryDb
  BY <1>2, QueryStep DEF QueryDb
<1>3. CASE QueryDbAgain
  BY <1>3, QueryStep DEF QueryDbAgain
<1> QED
  BY <1>1, <1>2, <1>3, RowChangesStep, RegexStep, LlmStep, VectorStep, RankStep, SimilarStep,
     PresentStep DEF ResolverNext

\* What the statuses of the rows and the local variables of a resolution hold is
\* of their types, and no more candidates are passed on than the limit.
THEOREM ResolverTyped == ResolverSpec => []ResolverTypeOK
<1>1. ResolverInv => ResolverTypeOK
  BY DEF ResolverInv
<1> QED BY <1>1, ResolverStart, ResolverKeep, PTL DEF ResolverSpec

\* However stages fail and the corpus changes, a number that was named is that of
\* every candidate unless its lookup failed, a guess is not asserted, and a document
\* that matches at first and bears the number is among the candidates, where no
\* stage failed and no limit cut it off.
THEOREM ResolutionsAreSound == ResolverSpec => []ResolutionIsSound
<1>1. ResolverInv => ResolutionIsSound
  BY DEF ResolverInv
<1> QED BY <1>1, ResolverStart, ResolverKeep, PTL DEF ResolverSpec

-----------------------------------------------------------------------------
(* Induction, and what is kept of a sequence.                              *)

\* Induction over a set of numbers.
LEMMA SetInduction ==
    ASSUME NEW S, 0 \in S, \A n \in Nat : n \in S => n + 1 \in S
    PROVE  Nat \subseteq S
<1> DEFINE R == OpToRel(<, Nat)
           T == Nat \ S
<1>1. IsWellFoundedOn(R, Nat)
  BY NatLessThanWellFounded
<1>2. \A x, y \in Nat : x < y => <<x, y>> \in R
  BY DEF OpToRel
<1>3. SUFFICES ASSUME T # {} PROVE FALSE
  OBVIOUS
<1> HIDE DEF R
<1>4. PICK x \in T : \A y \in T : <<y, x>> \notin R
  BY <1>1, <1>3, WFMin
<1>5. x \in Nat /\ x # 0 /\ x - 1 \in Nat /\ x - 1 < x
  BY <1>4
<1>6. x - 1 \in S
  BY <1>2, <1>4, <1>5
<1> QED BY <1>4, <1>5, <1>6

\* A value that is computed along 1..n, a step at a time, exists.
Computed(A, base, n, step, g) ==
    /\ g \in [0..n -> A] /\ g[0] = base
    /\ \A i \in 1..n : g[i] = step[<<g[i - 1], i>>]

LEMMA StepsExist ==
    ASSUME NEW A, NEW base \in A, NEW n \in Nat, NEW step \in [A \X (1..n) -> A]
    PROVE  \E g : Computed(A, base, n, step, g)
<1> DEFINE Upto(k, g) == /\ g \in [0..k -> A] /\ g[0] = base
                         /\ \A i \in 1..k : g[i] = step[<<g[i - 1], i>>]
           S == {k \in Nat : k > n \/ \E g \in [0..k -> A] : Upto(k, g)}
<1>1. 0 \in S
  <2> DEFINE g == [i \in 0..0 |-> base]
  <2>1. Upto(0, g)
    OBVIOUS
  <2> HIDE DEF g
  <2> QED BY <2>1
<1>2. ASSUME NEW k \in Nat, k \in S PROVE k + 1 \in S
  <2>1. CASE k + 1 > n
    BY <2>1
  <2>2. CASE k + 1 <= n
    <3>1. PICK g \in [0..k -> A] : Upto(k, g)
      BY <1>2, <2>2
    <3> DEFINE next == step[<<g[k], k + 1>>]
               h == [i \in 0..(k + 1) |-> IF i = k + 1 THEN next ELSE g[i]]
    <3>2. g[k] \in A /\ k + 1 \in 1..n
      BY <2>2
    <3>3. next \in A
      BY <3>2
    <3>4. h \in [0..(k + 1) -> A] /\ h[0] = base
      BY <3>1, <3>3
    <3>5. ASSUME NEW i \in 1..(k + 1) PROVE h[i] = step[<<h[i - 1], i>>]
      <4>1. CASE i = k + 1
        <5>1. i - 1 = k /\ k \in 0..(k + 1) /\ k # k + 1
          BY <4>1
        <5>2. h[i - 1] = g[k] /\ h[i] = next
          BY <4>1, <5>1
        <5> QED BY <4>1, <5>2
      <4>2. CASE i # k + 1
        <5>1. i \in 1..k /\ i - 1 \in 0..k /\ i - 1 # k + 1
          BY <4>2
        <5>2. h[i] = g[i] /\ h[i - 1] = g[i - 1]
          BY <5>1
        <5> QED BY <3>1, <5>1, <5>2
      <4> QED BY <4>1, <4>2
    <3> HIDE DEF h
    <3> QED BY <3>4, <3>5
  <2> QED BY <2>1, <2>2
<1> HIDE DEF S
<1>3. n \in S
  BY <1>1, <1>2, SetInduction
<1>4. PICK g \in [0..n -> A] : Upto(n, g)
  BY <1>3 DEF S
<1> QED BY <1>4 DEF Computed

\* What the first k of s leave: where each comes from, in the same order.
Tracks(s, k, t, g) ==
    /\ g \in [1..Len(t) -> 1..k]
    /\ \A a \in 1..Len(t) : t[a] = s[g[a]] /\ Alive(t[a])
    /\ \A a, b \in 1..Len(t) : a < b => g[a] < g[b]
    /\ \A p \in 1..k : Alive(s[p]) => \E a \in 1..Len(t) : g[a] = p

Kept(s, k, t) == t \in Seq(SearchDocs) /\ Len(t) <= k /\ \E g : Tracks(s, k, t, g)

LEMMA KeptNext ==
    ASSUME NEW s \in Seq(SearchDocs), NEW k \in Nat, k + 1 <= Len(s),
           NEW t, Kept(s, k, t),
           NEW u, u = IF Alive(s[k + 1]) THEN Append(t, s[k + 1]) ELSE t
    PROVE  Kept(s, k + 1, u)
<1>1. PICK g : Tracks(s, k, t, g)
  BY DEF Kept
<1>2. t \in Seq(SearchDocs) /\ Len(t) \in Nat /\ Len(t) <= k /\ s[k + 1] \in SearchDocs
  BY DEF Kept
<1>3. CASE ~Alive(s[k + 1])
  <2>1. u = t
    BY <1>3
  <2>2. g \in [1..Len(t) -> 1..(k + 1)]
    BY <1>1 DEF Tracks
  <2>3. \A p \in 1..(k + 1) : Alive(s[p]) => p \in 1..k
    BY <1>3
  <2>4. Tracks(s, k + 1, t, g)
    BY <1>1, <2>2, <2>3 DEF Tracks
  <2> QED BY <1>2, <2>1, <2>4 DEF Kept
<1>4. CASE Alive(s[k + 1])
  <2> DEFINE n == Len(t)
             h == [a \in 1..(n + 1) |-> IF a = n + 1 THEN k + 1 ELSE g[a]]
  <2>1. /\ u = Append(t, s[k + 1]) /\ u \in Seq(SearchDocs) /\ Len(u) = n + 1
        /\ \A a \in 1..n : u[a] = t[a]
        /\ u[n + 1] = s[k + 1]
    BY <1>2, <1>4
  <2>2. n \in Nat /\ n <= k
    BY <1>2
  <2> HIDE DEF n
  <2>3. /\ g \in [1..n -> 1..k] /\ \A a \in 1..n : t[a] = s[g[a]] /\ Alive(t[a])
        /\ \A a, b \in 1..n : a < b => g[a] < g[b]
        /\ \A p \in 1..k : Alive(s[p]) => \E a \in 1..n : g[a] = p
    BY <1>1 DEF Tracks, n
  <2>4. h \in [1..(n + 1) -> 1..(k + 1)]
    BY <2>2, <2>3
  <2>5. h[n + 1] = k + 1 /\ \A a \in 1..n : h[a] = g[a] /\ g[a] \in 1..k
    BY <2>2, <2>3
  <2>6. n + 1 \in 1..(n + 1) /\ \A a \in 1..(n + 1) : a \in 1..n \/ a = n + 1
    BY <2>2
  <2> HIDE DEF h
  <2>7. \A a \in 1..(n + 1) : u[a] = s[h[a]] /\ Alive(u[a])
    BY <1>4, <2>1, <2>3, <2>5, <2>6
  <2>8. ASSUME NEW a \in 1..(n + 1), NEW b \in 1..(n + 1), a < b PROVE h[a] < h[b]
    <3>1. a \in 1..n
      BY <2>2, <2>8
    <3>2. CASE b = n + 1
      BY <2>5, <3>1, <3>2
    <3>3. CASE b # n + 1
      BY <2>3, <2>5, <2>6, <2>8, <3>1, <3>3
    <3> QED BY <3>2, <3>3
  <2>9. ASSUME NEW p \in 1..(k + 1), Alive(s[p]) PROVE \E a \in 1..(n + 1) : h[a] = p
    <3>1. CASE p = k + 1
      BY <2>5, <2>6, <3>1
    <3>2. CASE p # k + 1
      <4>1. p \in 1..k
        BY <3>2
      <4>2. PICK a \in 1..n : g[a] = p
        BY <2>3, <2>9, <4>1
      <4>3. a \in 1..(n + 1) /\ h[a] = p
        BY <2>2, <2>5, <4>2
      <4> QED BY <4>3
    <3> QED BY <3>1, <3>2
  <2>10. Tracks(s, k + 1, u, h)
    BY <2>1, <2>4, <2>7, <2>8, <2>9 DEF Tracks
  <2> QED BY <2>1, <2>2, <2>10 DEF Kept
<1> QED BY <1>3, <1>4

\* The sources that remain are those whose document exists, in their order.
LEMMA ExistingKeeps ==
    ASSUME NEW s \in Seq(SearchDocs)
    PROVE  Kept(s, Len(s), Existing(s))
<1> DEFINE n == Len(s)
           A == Seq(SearchDocs)
           step == [x \in A \X (1..n) |-> IF Alive(s[x[2]]) THEN Append(x[1], s[x[2]]) ELSE x[1]]
           Upto(f) == f = [i \in 0..n |-> IF i = 0 THEN <<>>
                                          ELSE IF Alive(s[i]) THEN Append(f[i - 1], s[i]) ELSE f[i - 1]]
           f == CHOOSE f : Upto(f)
<1>1. n \in Nat /\ \A i \in 1..n : s[i] \in SearchDocs
  OBVIOUS
<1>2. <<>> \in A /\ \A t \in A, d \in SearchDocs : Append(t, d) \in A
  OBVIOUS
<1> HIDE DEF n, A
<1>3. step \in [A \X (1..n) -> A]
  BY <1>1, <1>2
<1>4. \A t \in A : \A i \in 1..n : step[<<t, i>>] = IF Alive(s[i]) THEN Append(t, s[i]) ELSE t
  OBVIOUS
<1> HIDE DEF step, f, Upto
<1>5. PICK g : Computed(A, <<>>, n, step, g)
  BY <1>1, <1>2, <1>3, StepsExist, Zenon
<1>6. ASSUME NEW i \in 0..n
      PROVE  g[i] = IF i = 0 THEN <<>>
                    ELSE IF Alive(s[i]) THEN Append(g[i - 1], s[i]) ELSE g[i - 1]
  <2>1. CASE i = 0
    BY <1>5, <2>1 DEF Computed
  <2>2. CASE i # 0
    <3>1. i \in 1..n /\ i - 1 \in 0..n
      BY <1>1, <2>2
    <3>2. g[i - 1] \in A /\ g[i] = step[<<g[i - 1], i>>]
      BY <1>5, <3>1 DEF Computed
    <3> QED BY <1>4, <2>2, <3>1, <3>2
  <2> QED BY <2>1, <2>2
<1>7. Upto(g)
  BY <1>5, <1>6 DEF Upto, Computed
<1>8. f = [i \in 0..n |-> IF i = 0 THEN <<>>
                          ELSE IF Alive(s[i]) THEN Append(f[i - 1], s[i]) ELSE f[i - 1]]
  BY <1>7 DEF f, Upto
<1>9. Existing(s) = f[n]
  BY DEF Existing, n, f, Upto
<1>10. f[0] = <<>> /\ \A i \in 1..n : f[i] = IF Alive(s[i]) THEN Append(f[i - 1], s[i]) ELSE f[i - 1]
  <2>1. \A i \in 0..n : f[i] = IF i = 0 THEN <<>>
                        ELSE IF Alive(s[i]) THEN Append(f[i - 1], s[i]) ELSE f[i - 1]
    BY <1>8, Zenon
  <2>2. 0 \in 0..n /\ \A i \in 1..n : i \in 0..n /\ i # 0
    BY <1>1
  <2> QED BY <2>1, <2>2, Zenon
<1> DEFINE S == {k \in Nat : k > n \/ Kept(s, k, f[k])}
<1>11. 0 \in S
  <2>1. Len(<<>>) = 0 /\ <<>> \in Seq(SearchDocs)
    OBVIOUS
  <2>2. Tracks(s, 0, <<>>, <<>>)
    BY DEF Tracks
  <2>3. Kept(s, 0, <<>>)
    BY <2>1, <2>2 DEF Kept
  <2> QED BY <1>10, <2>3, Zenon
<1>12. ASSUME NEW k \in Nat, k \in S PROVE k + 1 \in S
  <2>1. CASE k + 1 > n
    BY <2>1
  <2>2. CASE k + 1 <= n
    <3>1. k + 1 \in 1..n /\ (k + 1) - 1 = k /\ Kept(s, k, f[k])
      BY <1>1, <1>12, <2>2
    <3>2. f[k + 1] = IF Alive(s[k + 1]) THEN Append(f[k], s[k + 1]) ELSE f[k]
      BY <1>10, <3>1
    <3>3. Kept(s, k + 1, f[k + 1])
      BY <2>2, <3>1, <3>2, KeptNext DEF n
    <3> QED BY <3>3
  <2> QED BY <1>1, <2>1, <2>2
<1> HIDE DEF S
<1>13. n \in S
  BY <1>1, <1>11, <1>12, SetInduction
<1> QED BY <1>1, <1>9, <1>13 DEF S, n

-----------------------------------------------------------------------------
(* The best of a set of chunks.                                            *)

LEMMA ScoredFinite == IsFiniteSet(Scored)
<1> USE RetrievalAssumption
<1>1. Cardinality(SearchDocs) \in Nat
  BY FS_CardinalityType
<1>2. MaxScore \in Nat
  BY <1>1 DEF MaxScore
<1>3. IsFiniteSet(0..MaxScore)
  BY <1>2, FS_Interval
<1>4. IsFiniteSet(SearchDocs \X (0..MaxScore))
  BY <1>3, FS_Product
<1> DEFINE f == [c \in Scored |-> <<c.doc, c.score>>]
<1>5. f \in Injection(Scored, SearchDocs \X (0..MaxScore))
  <2>1. f \in [Scored -> SearchDocs \X (0..MaxScore)]
    BY DEF Scored
  <2>2. ASSUME NEW c \in Scored, NEW e \in Scored, f[c] = f[e] PROVE c = e
    <3>1. c.doc = e.doc /\ c.score = e.score
      BY <2>2
    <3> QED BY <3>1 DEF Scored
  <2> QED BY <2>1, <2>2 DEF Injection, IsInjective
<1> QED BY <1>4, <1>5, FS_Injection

\* t holds the best of S, at most n of them.
InOrder(t) ==
    /\ \A i, j \in 1..Len(t) : i # j => t[i] # t[j]
    /\ \A i, j \in 1..Len(t) : i < j => t[i].score >= t[j].score

Misses(t, n, c) == Len(t) = n /\ \A i \in 1..n : t[i].score >= c.score

Best(S, n, t) ==
    /\ t \in Seq(S) /\ Len(t) <= n
    /\ InOrder(t)
    /\ \A c \in S : c \in Range(t) \/ Misses(t, n, c)
    /\ Cardinality(S) <= n => S \subseteq Range(t)

LEMMA InSequence ==
    ASSUME NEW S, NEW t \in Seq(S)
    PROVE  /\ Len(t) \in Nat /\ DOMAIN t = 1..Len(t) /\ Range(t) \subseteq S
           /\ \A i \in 1..Len(t) : t[i] \in S /\ t[i] \in Range(t)
           /\ \A c \in Range(t) : \E i \in 1..Len(t) : t[i] = c
  BY DEF Range

LEMMA BestOf ==
    ASSUME NEW S \in SUBSET Scored, NEW n \in Nat, NEW s \in Sorted(S)
    PROVE  Best(S, n, FirstOf(n, s))
<1>1. IsFiniteSet(S)
  BY ScoredFinite, FS_Subset
<1>2. s \in SetToSeqs(S) /\ \A i, j \in DOMAIN s : i < j => s[i].score >= s[j].score
  BY DEF Sorted
<1>3. /\ s \in Seq(S) /\ Len(s) = Cardinality(S) /\ Len(s) \in Nat /\ DOMAIN s = 1..Len(s)
      /\ \A c \in S : \E i \in 1..Len(s) : s[i] = c
  BY <1>1, <1>2, EnumeratesAll
<1>4. \A i, j \in 1..Len(s) : i # j => s[i] # s[j]
  BY <1>2, <1>3 DEF SetToSeqs
<1> DEFINE m == IF Len(s) < n THEN Len(s) ELSE n
           t == FirstOf(n, s)
<1>5. m \in Nat /\ m <= Len(s) /\ m <= n /\ (m = Len(s) \/ m = n)
  BY <1>3
<1>6. t = SubSeq(s, 1, m)
  BY DEF FirstOf
<1> HIDE DEF m, t
<1>7. t \in Seq(S) /\ Len(t) = m /\ \A i \in 1..m : t[i] = s[i] /\ i \in 1..Len(s)
  BY <1>3, <1>5, <1>6, FirstPart
<1>8. DOMAIN t = 1..m
  BY <1>7
<1>9. InOrder(t)
  BY <1>2, <1>3, <1>4, <1>7 DEF InOrder
<1>10. ASSUME NEW c \in S PROVE c \in Range(t) \/ Misses(t, n, c)
  <2>1. PICK i \in 1..Len(s) : s[i] = c
    BY <1>3
  <2>2. CASE i \in 1..m
    <3>1. t[i] = c /\ i \in DOMAIN t
      BY <1>7, <1>8, <2>1, <2>2
    <3> QED BY <3>1 DEF Range
  <2>3. CASE i \notin 1..m
    <3>1. m = n /\ \A j \in 1..n : j < i /\ j \in 1..Len(s)
      BY <1>3, <1>5, <2>3
    <3> QED BY <1>2, <1>3, <1>7, <2>1, <3>1 DEF Misses
  <2> QED BY <2>2, <2>3
<1>11. ASSUME Cardinality(S) <= n, NEW c \in S PROVE c \in Range(t)
  <2>1. m = Len(s)
    BY <1>3, <1>5, <1>11
  <2>2. PICK i \in 1..m : s[i] = c
    BY <1>3, <2>1
  <2>3. t[i] = c /\ i \in DOMAIN t
    BY <1>7, <1>8, <2>2
  <2> QED BY <2>3 DEF Range
<1> QED BY <1>5, <1>7, <1>9, <1>10, <1>11 DEF Best, t

-----------------------------------------------------------------------------
(* What a workspace's search returns.                                      *)

\* The chunk of a document whose score has not been reduced.
FullScore(d) == [doc |-> d, score |-> 2 * Relevance[d]]

\* C has the chunk of e, or as many others that are no worse as are asked for.
Finds(C, e) ==
    \/ FullScore(e) \in C
    \/ \E f \in [1..TopK -> C] :
          /\ \A i, j \in 1..TopK : i # j => f[i] # f[j]
          /\ \A i \in 1..TopK : f[i].score >= 2 * Relevance[e]

Judged(C, D, old) ==
    \A c \in C :
       /\ c \in Scored /\ c.doc \in D
       /\ c.doc \in old => c.score <= Relevance[c.doc]
       /\ c.doc \notin old => c.score = 2 * Relevance[c.doc]

LEMMA FindsMore ==
    ASSUME NEW C, NEW E, C \subseteq E, NEW e, Finds(C, e)
    PROVE  Finds(E, e)
<1>1. CASE FullScore(e) \in C
  BY <1>1 DEF Finds
<1>2. CASE FullScore(e) \notin C
  <2>1. PICK f \in [1..TopK -> C] :
            /\ \A i, j \in 1..TopK : i # j => f[i] # f[j]
            /\ \A i \in 1..TopK : f[i].score >= 2 * Relevance[e]
    BY <1>2 DEF Finds
  <2>2. f \in [1..TopK -> E]
    BY <2>1
  <2> QED BY <2>1, <2>2 DEF Finds
<1> QED BY <1>1, <1>2

LEMMA BestFinds ==
    ASSUME NEW S \in SUBSET Scored, NEW t, Best(S, TopK, t),
           NEW e \in SearchDocs, FullScore(e) \in S
    PROVE  Finds(Range(t), e)
<1> USE RetrievalAssumption
<1>1. t \in Seq(S) /\ TopK \in Nat
  BY DEF Best
<1>2. CASE FullScore(e) \in Range(t)
  BY <1>2 DEF Finds
<1>3. CASE FullScore(e) \notin Range(t)
  <2>1. Misses(t, TopK, FullScore(e)) /\ FullScore(e).score = 2 * Relevance[e]
    BY <1>3 DEF Best, FullScore
  <2>2. /\ Len(t) = TopK
        /\ \A i \in 1..TopK : t[i].score >= 2 * Relevance[e]
        /\ \A i, j \in 1..TopK : i # j => t[i] # t[j]
    BY <2>1 DEF Misses, Best, InOrder
  <2>3. t \in [1..TopK -> Range(t)]
    BY <1>1, <2>2, InSequence
  <2> QED BY <2>2, <2>3 DEF Finds
<1> QED BY <1>2, <1>3

\* The chunks the reranker sees, with its scores.
Weighed(S, D) ==
    /\ S \subseteq Scored
    /\ \A c \in S : c.doc \in D /\ c.score = 2 * Relevance[c.doc]

LEMMA RerankedChunks ==
    ASSUME NEW D \in SUBSET SearchDocs, NEW k \in Nat, NEW s \in Reranked(D, k)
    PROVE  \E S \in SUBSET Scored : \E n \in Nat :
              /\ Weighed(S, D) /\ Best(S, n, s)
              /\ \A e \in D : Relevance[e] > 0 => FullScore(e) \in S /\ n = k
<1> USE RetrievalAssumption
<1> DEFINE relevant == {[doc |-> d, score |-> 2 * Relevance[d]] : d \in {d \in D : Relevance[d] > 0}}
           rest == {[doc |-> d, score |-> 0] : d \in D}
<1>1. Cardinality(SearchDocs) \in Nat /\ MaxScore \in Nat
  BY FS_CardinalityType DEF MaxScore
<1>2. \A d \in SearchDocs : Relevance[d] \in Nat /\ 2 * Relevance[d] \in 0..MaxScore /\ 0 \in 0..MaxScore
  BY <1>1
<1>3. Weighed(relevant, D)
  BY <1>2 DEF Weighed, Scored
<1>4. \A e \in D : Relevance[e] > 0 => FullScore(e) \in relevant
  BY DEF FullScore
<1>5. CASE relevant # {}
  <2>1. PICK o \in Sorted(relevant) : s = FirstOf(k, o)
    BY <1>5, Zenon DEF Reranked
  <2> HIDE DEF relevant
  <2>2. Best(relevant, k, s)
    BY <1>3, <2>1, BestOf DEF Weighed
  <2> QED BY <1>3, <1>4, <2>2 DEF Weighed
<1>6. CASE relevant = {}
  <2>1. PICK o \in Sorted(rest) : s = FirstOf(3, o)
    BY <1>6, Zenon DEF Reranked
  <2>2. \A d \in D : ~(Relevance[d] > 0) /\ Relevance[d] = 0
    <3>1. ASSUME NEW d \in D, Relevance[d] > 0 PROVE FALSE
      <4>1. FullScore(d) \in relevant
        BY <1>4, <3>1
      <4> QED BY <1>6, <4>1
    <3> QED BY <1>2, <3>1
  <2>3. Weighed(rest, D)
    BY <1>2, <2>2 DEF Weighed, Scored
  <2> HIDE DEF relevant, rest
  <2>4. Best(rest, 3, s)
    BY <2>1, <2>3, BestOf DEF Weighed
  <2> QED BY <2>2, <2>3, <2>4 DEF Weighed
<1> QED BY <1>5, <1>6

\* A superseded document's chunk counts half.
Halved(c, old) == IF c.doc \in old THEN [c EXCEPT !.score = @ \div 2] ELSE c

LEMMA Halves ==
    ASSUME NEW c \in Scored, NEW old, c.score = 2 * Relevance[c.doc]
    PROVE  /\ Halved(c, old) \in Scored /\ Halved(c, old).doc = c.doc
           /\ c.doc \in old => Halved(c, old).score <= Relevance[c.doc]
           /\ c.doc \notin old => Halved(c, old) = c
<1> USE RetrievalAssumption
<1>1. Cardinality(SearchDocs) \in Nat /\ MaxScore \in Nat
  BY FS_CardinalityType DEF MaxScore
<1>2. c.doc \in SearchDocs /\ c.score \in 0..MaxScore /\ Relevance[c.doc] \in Nat
  BY DEF Scored
<1>3. CASE c.doc \in old
  <2> DEFINE half == c.score \div 2
  <2>1. half \in 0..MaxScore /\ half <= Relevance[c.doc]
    BY <1>1, <1>2
  <2>2. Halved(c, old) = [c EXCEPT !.score = half]
    BY <1>3 DEF Halved
  <2> HIDE DEF half
  <2>3. [c EXCEPT !.score = half] \in Scored
    BY <2>1 DEF Scored
  <2>4. [c EXCEPT !.score = half].doc = c.doc /\ [c EXCEPT !.score = half].score = half
    BY DEF Scored
  <2> QED BY <1>3, <2>1, <2>2, <2>3, <2>4
<1>4. CASE c.doc \notin old
  BY <1>4 DEF Halved
<1> QED BY <1>3, <1>4

\* The result names candidates only.  Where superseded ones are demoted, or there
\* are none, an effective document is found with its full score, or makes way for
\* others that are no worse.
LEMMA WorkspaceResult ==
    ASSUME NEW D \in SUBSET SearchDocs, NEW old \in SUBSET D, NEW demote \in BOOLEAN,
           NEW s \in Reranked(D, IF demote THEN 2 * TopK ELSE TopK),
           NEW t \in IF demote THEN Demoted(s, old, TopK) ELSE {s}
    PROVE  /\ \A c \in Range(t) : c \in Scored /\ c.doc \in D
           /\ demote \/ old = {} =>
                 /\ Judged(Range(t), D, old)
                 /\ \A e \in D \ old :
                       Relevance[e] > 0 /\ Cardinality(D) <= 2 * TopK => Finds(Range(t), e)
<1> USE RetrievalAssumption
<1> DEFINE k == IF demote THEN 2 * TopK ELSE TopK
<1>1. k \in Nat /\ TopK \in Nat /\ (demote => k = 2 * TopK) /\ (~demote => k = TopK)
  OBVIOUS
<1>2. s \in Reranked(D, k)
  OBVIOUS
<1> HIDE DEF k
<1>3. PICK S \in SUBSET Scored : \E n \in Nat :
          /\ Weighed(S, D) /\ Best(S, n, s)
          /\ \A e \in D : Relevance[e] > 0 => FullScore(e) \in S /\ n = k
  <2>1. k \in Nat
    BY <1>1
  <2> QED BY <1>2, <2>1, RerankedChunks, Zenon
<1>4. PICK n \in Nat :
          /\ Weighed(S, D) /\ Best(S, n, s)
          /\ \A e \in D : Relevance[e] > 0 => FullScore(e) \in S /\ n = k
  BY <1>3
<1>5. s \in Seq(S) /\ Range(s) \subseteq S
  BY <1>4, InSequence DEF Best
<1>6. \A c \in Range(s) : c \in Scored /\ c.doc \in D /\ c.score = 2 * Relevance[c.doc]
  BY <1>4, <1>5 DEF Weighed
<1>7. CASE ~demote
  <2>1. t = s
    BY <1>7
  <2>2. old = {} => Judged(Range(t), D, old)
    BY <1>6, <2>1 DEF Judged
  <2>3. ASSUME NEW e \in D, Relevance[e] > 0 PROVE Finds(Range(t), e)
    <3>1. FullScore(e) \in S /\ Best(S, TopK, t)
      BY <1>1, <1>4, <1>7, <2>1, <2>3
    <3> QED BY <1>4, <3>1, BestFinds DEF Weighed
  <2> QED BY <1>6, <1>7, <2>1, <2>2, <2>3
<1>8. CASE demote
  <2> DEFINE M == {Halved(c, old) : c \in Range(s)}
  <2>1. PICK o \in Sorted(M) : t = FirstOf(TopK, o)
    BY <1>8 DEF Demoted, Halved
  <2>2. \A x \in M : \E c \in Range(s) : x = Halved(c, old)
    OBVIOUS
  <2>3. \A c \in Range(s) : Halved(c, old) \in M
    OBVIOUS
  <2> HIDE DEF M
  <2>4. \A x \in M : x \in Scored
    BY <1>6, <2>2, Halves
  <2>5. Best(M, TopK, t)
    BY <1>1, <2>1, <2>4, BestOf
  <2>6. Range(t) \subseteq M
    BY <2>5, InSequence DEF Best
  <2>7. ASSUME NEW x \in M
        PROVE  /\ x.doc \in D
               /\ x.doc \in old => x.score <= Relevance[x.doc]
               /\ x.doc \notin old => x.score = 2 * Relevance[x.doc]
    <3>1. PICK c \in Range(s) : x = Halved(c, old)
      BY <2>2
    <3> QED BY <1>6, <3>1, Halves
  <2>8. Judged(Range(t), D, old)
    BY <2>4, <2>6, <2>7 DEF Judged
  <2>9. ASSUME NEW e \in D \ old, Relevance[e] > 0, Cardinality(D) <= 2 * TopK
        PROVE  Finds(Range(t), e)
    <3>1. FullScore(e) \in S /\ n = 2 * TopK
      BY <1>1, <1>4, <1>8, <2>9
    <3>2. Cardinality(S) <= Cardinality(D)
      <4> DEFINE f == [c \in S |-> c.doc]
      <4>1. f \in Injection(S, D)
        <5>1. f \in [S -> D]
          BY <1>4 DEF Weighed
        <5>2. ASSUME NEW c \in S, NEW b \in S, f[c] = f[b] PROVE c = b
          <6>1. c \in Scored /\ b \in Scored /\ c.doc = b.doc /\ c.score = b.score
            BY <1>4, <5>2 DEF Weighed
          <6> QED BY <6>1 DEF Scored
        <5> QED BY <5>1, <5>2 DEF Injection, IsInjective
      <4>2. IsFiniteSet(D)
        BY FS_Subset
      <4> QED BY <4>1, <4>2, FS_Injection
    <3>3. Cardinality(S) <= n
      <4>1. IsFiniteSet(D) /\ IsFiniteSet(S)
        BY <1>4, ScoredFinite, FS_Subset DEF Weighed
      <4>2. Cardinality(D) \in Nat /\ Cardinality(S) \in Nat
        BY <4>1, FS_CardinalityType
      <4> QED BY <1>1, <2>9, <3>1, <3>2, <4>2
    <3>4. FullScore(e) \in Range(s)
      BY <1>4, <3>1, <3>3 DEF Best
    <3>5. FullScore(e).doc = e
      BY DEF FullScore
    <3>6. FullScore(e) \in M
      BY <1>6, <2>3, <2>9, <3>4, <3>5, Halves
    <3> QED BY <2>4, <2>5, <3>6, BestFinds
  <2> QED BY <1>8, <2>4, <2>6, <2>7, <2>8, <2>9
<1> QED BY <1>7, <1>8

-----------------------------------------------------------------------------
(* The invariant of a search.                                              *)

\* The workspace was searched anew, with the documents' validity known.
Anew(w) == w \notin search.hits \cup search.unsure \cup search.failed
Pending == search.waiting \cup search.reading

\* What was superseded or deleted stays so, and what is not deleted has vectors.
CorpusSound ==
    /\ \A d \in search.superseded0 : validity[d] \in {"superseded", "deleted"}
    /\ \A d \in search.deleted0 : ~Alive(d)
    /\ \A e \in Embeddable : Alive(e) => e \in embedded

\* A cached result holds chunks of its own workspace.
CacheSound ==
    \A k \in DOMAIN retrieval_cache : \A c \in Range(retrieval_cache[k]) : PlaceOf[c.doc] = k[1]

\* A chunk has come from a workspace that has answered, and a workspace that has
\* been searched anew has halved the scores of the superseded ones.
ChunkSound(c) ==
    LET w == PlaceOf[c.doc] IN
    /\ w \notin Pending
    /\ Anew(w) => /\ c.doc \in search.superseded0 /\ Alive(c.doc) => c.score <= Relevance[c.doc]
                  /\ validity[c.doc] = "effective" => c.score = 2 * Relevance[c.doc]

\* An effective document is among the candidates, then among the results or
\* behind others that are no worse.
EffectiveSound(e) ==
    LET w == PlaceOf[e] IN
    /\ w \in search.reading => e \in search.raw
    /\ w \notin Pending /\ Anew(w) /\ Relevance[e] > 0 /\ Cardinality(InScope(w)) <= 2 * TopK
          => Finds(search.all_chunks, e)

SearchingSound ==
    /\ search.document_ids = {} /\ search.scoped => search.all_chunks = {} /\ Pending = {}
    /\ search.document_ids = {} /\ ~search.scoped =>
          /\ \A c \in search.all_chunks : ChunkSound(c)
          /\ \A e \in Embeddable : validity[e] = "effective" => EffectiveSound(e)

\* e comes once, and before d.
Leads(sources, e, d) ==
    /\ \A p, q \in 1..Len(sources) : sources[p] = e /\ sources[q] = e => p = q
    /\ \A p \in 1..Len(sources) :
          sources[p] = d => \E q \in 1..Len(sources) : q < p /\ sources[q] = e

Overtakes(e, d) ==
    /\ validity[e] = "effective"
    /\ {PlaceOf[d], PlaceOf[e]} \cap (search.hits \cup search.unsure \cup search.failed) = {}
    /\ Cardinality(InScope(PlaceOf[e])) <= 2 * TopK
    /\ Relevance[d] < 2 * Relevance[e]

SourcesSound ==
    /\ \A d \in Range(search.sources) \cap search.superseded0 : Alive(d) => d \in search.flagged
    /\ search.document_ids = {} =>
          \A d \in search.superseded0, e \in Embeddable :
             Alive(d) /\ Overtakes(e, d) => Leads(search.sources, e, d)

OverSound ==
    /\ Range(search.sources) \cap search.deleted0 = {}
    /\ Range(search.sources) \cap search.superseded0 \subseteq search.flagged
    /\ search.document_ids = {} =>
          \A d \in Range(search.sources) \cap search.superseded0, e \in Embeddable :
             Overtakes(e, d) => Leads(search.sources, e, d)

RetrievalInv ==
    /\ RetrievalTypeOK
    /\ CorpusSound
    /\ CacheSound
    /\ search.phase = "searching" => SearchingSound
    /\ search.phase = "sources" => SourcesSound
    /\ search.phase = "over" => OverSound
    /\ FailureIsTold

LEMMA ScopeIs ==
    ASSUME NEW w
    PROVE  /\ InScope(w) \subseteq {d \in Embeddable : PlaceOf[d] = w}
           /\ search.document_ids = {} =>
                 IdsFor(w) = {} /\ InScope(w) = {d \in Embeddable : PlaceOf[d] = w}
<1>1. search.document_ids = {} => IdsFor(w) = {}
  BY DEF IdsFor
<1> QED BY <1>1 DEF InScope

LEMMA ScopeStays ==
    ASSUME search'.document_ids = search.document_ids, search'.scoped = search.scoped, NEW w
    PROVE  InScope(w)' = InScope(w) /\ IdsFor(w)' = IdsFor(w)
  BY DEF InScope, IdsFor

LEMMA RetrievalStart == RetrievalInit => RetrievalInv
<1> USE RetrievalAssumption
<1> SUFFICES ASSUME RetrievalInit PROVE RetrievalInv
  OBVIOUS
<1>1. <<>> \in Seq(SearchDocs) /\ Len(<<>>) = 0 /\ DOMAIN <<>> = {}
  OBVIOUS
<1>2. Fresh(0) \in SearchStates /\ 0 <= TopK
  BY <1>1 DEF Fresh, SearchStates
<1>3. /\ search.phase = "idle" /\ search.waiting = {} /\ search.reading = {}
      /\ search.sources = <<>> /\ search.superseded0 = {} /\ search.deleted0 = {}
  BY DEF RetrievalInit, Fresh
<1>4. /\ search \in SearchStates /\ retrieval_cache = <<>> /\ embedded = Embeddable
      /\ validity \in [SearchDocs -> {"effective", "superseded", "deleted"}]
      /\ searchFaults \in 0..MaxSearchFaults /\ edits \in 0..MaxEdits
  BY <1>2 DEF RetrievalInit
<1>5. RetrievalTypeOK
  BY <1>1, <1>2, <1>3, <1>4 DEF RetrievalTypeOK
<1>6. CorpusSound /\ CacheSound /\ FailureIsTold
  BY <1>1, <1>3, <1>4 DEF CorpusSound, CacheSound, FailureIsTold
<1> QED BY <1>3, <1>5, <1>6 DEF RetrievalInv

\* Documents change while a search is in any of its phases.
LEMMA CorpusStep ==
    ASSUME RetrievalInv, NEW d \in SearchDocs, Supersede(d) \/ DeleteSearchDoc(d)
    PROVE  RetrievalInv'
<1> USE RetrievalAssumption
<1>1. UNCHANGED <<retrieval_cache, search>> /\ edits < MaxEdits /\ edits' = edits + 1
  BY DEF Supersede, DeleteSearchDoc
<1>2. /\ validity \in [SearchDocs -> {"effective", "superseded", "deleted"}]
      /\ embedded \subseteq Embeddable /\ search \in SearchStates
      /\ searchFaults \in 0..MaxSearchFaults /\ edits \in 0..MaxEdits
  BY DEF RetrievalInv, RetrievalTypeOK
<1>3. PICK new \in {"superseded", "deleted"} :
          /\ validity' = [validity EXCEPT ![d] = new]
          /\ validity[d] # "deleted"
          /\ validity[d] # "effective" => new = "deleted"
          /\ new = "superseded" => embedded' = embedded
          /\ new = "deleted" => embedded' \in {embedded, embedded \ {d}}
  BY DEF Supersede, DeleteSearchDoc, Alive
<1>4. searchFaults' \in 0..MaxSearchFaults
  <2>1. Proceeds \/ Faults
    BY DEF Supersede, DeleteSearchDoc, Proceeds
  <2> QED BY <1>2, <2>1 DEF Proceeds, Faults
<1>5. /\ validity' \in [SearchDocs -> {"effective", "superseded", "deleted"}]
      /\ \A e \in SearchDocs : /\ validity'[e] = "effective" => validity[e] = "effective"
                               /\ validity'[e] # "deleted" => validity[e] # "deleted"
                               /\ validity'[e] = "effective" => e # d
                               /\ validity[e] \in {"superseded", "deleted"} =>
                                      validity'[e] \in {"superseded", "deleted"}
                               /\ validity[e] = "deleted" => validity'[e] = "deleted"
  BY <1>2, <1>3
<1>6. /\ search.superseded0 \subseteq SearchDocs /\ search.deleted0 \subseteq SearchDocs
      /\ \A c \in search.all_chunks : c.doc \in SearchDocs
      /\ Embeddable \subseteq SearchDocs
  BY <1>2 DEF SearchStates, Scored, Embeddable
<1>7. RetrievalTypeOK'
  <2>1. embedded' \subseteq Embeddable
    BY <1>2, <1>3
  <2>2. edits' \in 0..MaxEdits
    BY <1>1, <1>2
  <2>3. Embeddable' = Embeddable /\ Keys' = Keys /\ Scored' = Scored /\ SearchStates' = SearchStates
    BY DEF Embeddable, Keys, Scored, SearchStates
  <2> QED BY <1>1, <1>4, <1>5, <2>1, <2>2 DEF RetrievalInv, RetrievalTypeOK
<1>8. CorpusSound'
  <2>1. \A e \in Embeddable : Alive(e)' => e \in embedded'
    <3>1. ASSUME NEW e \in Embeddable, Alive(e)' PROVE e \in embedded'
      <4>1. Alive(e) /\ e \in embedded
        BY <1>5, <1>6, <3>1 DEF Alive, RetrievalInv, CorpusSound
      <4>2. new = "deleted" => e # d
        BY <1>2, <1>3, <3>1 DEF Alive
      <4> QED BY <1>3, <4>1, <4>2
    <3> QED BY <3>1
  <2> QED BY <1>1, <1>5, <1>6, <2>1 DEF RetrievalInv, CorpusSound, Alive
<1>9. CacheSound'
  BY <1>1 DEF RetrievalInv, CacheSound
<1>10. ASSUME search.phase = "searching" PROVE SearchingSound'
  <2>1. SearchingSound
    BY <1>10 DEF RetrievalInv
  <2>2. \A c \in search.all_chunks : ChunkSound(c) => ChunkSound(c)'
    BY <1>1, <1>5, <1>6 DEF ChunkSound, Pending, Anew, Alive
  <2>3. \A e \in Embeddable : EffectiveSound(e) => EffectiveSound(e)'
    BY <1>1 DEF EffectiveSound, Pending, Anew, InScope, IdsFor, Finds
  <2>4. search.all_chunks' = search.all_chunks /\ Pending' = Pending
        /\ \A e \in Embeddable : validity'[e] = "effective" => validity[e] = "effective"
    BY <1>1, <1>5, <1>6 DEF Pending
  <2>5. search.document_ids = {} /\ ~search.scoped =>
          /\ \A c \in search.all_chunks : ChunkSound(c)'
          /\ \A e \in Embeddable : validity'[e] = "effective" => EffectiveSound(e)'
    BY <2>1, <2>2, <2>3, <2>4 DEF SearchingSound
  <2> QED BY <1>1, <2>1, <2>4, <2>5 DEF SearchingSound
<1>11. \A e, b \in SearchDocs : Overtakes(e, b)' => Overtakes(e, b)
  BY <1>1, <1>5 DEF Overtakes, InScope, IdsFor
<1>12. ASSUME search.phase = "sources" PROVE SourcesSound'
  <2>1. SourcesSound
    BY <1>12 DEF RetrievalInv
  <2>2. \A b \in SearchDocs : Alive(b)' => Alive(b)
    BY <1>5 DEF Alive
  <2>3. \A b \in Range(search.sources) \cap search.superseded0 : Alive(b)' => b \in search.flagged
    BY <1>6, <2>1, <2>2 DEF SourcesSound
  <2>4. search.document_ids = {} =>
           \A b \in search.superseded0, e \in Embeddable :
              Alive(b)' /\ Overtakes(e, b)' => Leads(search.sources, e, b)
    BY <1>6, <1>11, <2>1, <2>2 DEF SourcesSound
  <2> QED BY <1>1, <2>3, <2>4 DEF SourcesSound
<1>13. ASSUME search.phase = "over" PROVE OverSound'
  <2>1. OverSound
    BY <1>13 DEF RetrievalInv
  <2>2. search.document_ids = {} =>
           \A b \in Range(search.sources) \cap search.superseded0, e \in Embeddable :
              Overtakes(e, b)' => Leads(search.sources, e, b)
    BY <1>6, <1>11, <2>1 DEF OverSound
  <2> QED BY <1>1, <2>1, <2>2 DEF OverSound
<1>14. FailureIsTold'
  BY <1>1 DEF RetrievalInv, FailureIsTold
<1> QED BY <1>1, <1>7, <1>8, <1>9, <1>10, <1>12, <1>13, <1>14 DEF RetrievalInv

LEMMA CacheExpiresStep ==
    ASSUME RetrievalInv, NEW k, CacheExpires(k)
    PROVE  RetrievalInv'
<1>1. UNCHANGED <<validity, embedded, edits, search, searchFaults>>
  BY DEF CacheExpires, CorpusKept
<1>2. /\ DOMAIN retrieval_cache' \subseteq DOMAIN retrieval_cache
      /\ \A j \in DOMAIN retrieval_cache' : retrieval_cache'[j] = retrieval_cache[j]
  BY DEF CacheExpires, Restrict
<1>3. RetrievalTypeOK'
  BY <1>1, <1>2 DEF RetrievalInv, RetrievalTypeOK, Embeddable, Keys, Scored, SearchStates
<1>4. CacheSound'
  BY <1>2 DEF RetrievalInv, CacheSound
<1>5. CorpusSound' /\ FailureIsTold'
  BY <1>1 DEF RetrievalInv, CorpusSound, FailureIsTold, Alive
<1>6. ASSUME search.phase = "searching" PROVE SearchingSound'
  BY <1>1, <1>6 DEF RetrievalInv, SearchingSound, ChunkSound, EffectiveSound, Pending, Anew, Alive,
     InScope, IdsFor
<1>7. ASSUME search.phase = "sources" PROVE SourcesSound'
  BY <1>1, <1>7 DEF RetrievalInv, SourcesSound, Overtakes, Alive, InScope, IdsFor
<1>8. ASSUME search.phase = "over" PROVE OverSound'
  BY <1>1, <1>8 DEF RetrievalInv, OverSound, Overtakes, InScope, IdsFor
<1> QED BY <1>1, <1>3, <1>4, <1>5, <1>6, <1>7, <1>8 DEF RetrievalInv

\* What is left to show of a step that leaves the documents alone.
LEMMA SearchTyped ==
    ASSUME RetrievalInv, CorpusKept, Proceeds \/ Faults,
           search' \in SearchStates, search'.waiting \cap search'.reading = {},
           Len(search'.sources) <= TopK,
           DOMAIN retrieval_cache' \subseteq Keys,
           \A k \in DOMAIN retrieval_cache' : Range(retrieval_cache'[k]) \subseteq Scored
    PROVE  RetrievalTypeOK'
<1> USE RetrievalAssumption
<1>1. /\ validity' \in [SearchDocs -> {"effective", "superseded", "deleted"}]
      /\ embedded' \subseteq Embeddable /\ edits' \in 0..MaxEdits
      /\ searchFaults' \in 0..MaxSearchFaults
  BY DEF RetrievalInv, RetrievalTypeOK, CorpusKept, Proceeds, Faults
<1> QED BY <1>1 DEF RetrievalTypeOK, Embeddable, Keys, Scored, SearchStates

LEMMA StillSearching ==
    ASSUME RetrievalInv, CorpusKept, Proceeds \/ Faults,
           search' \in SearchStates, search'.waiting \cap search'.reading = {},
           search'.phase = "searching", search'.sources = search.sources,
           search'.superseded0 = search.superseded0, search'.deleted0 = search.deleted0,
           DOMAIN retrieval_cache' \subseteq Keys,
           \A k \in DOMAIN retrieval_cache' :
              \A c \in Range(retrieval_cache'[k]) : c \in Scored /\ PlaceOf[c.doc] = k[1],
           SearchingSound'
    PROVE  RetrievalInv'
<1>1. Len(search'.sources) <= TopK
  BY DEF RetrievalInv, RetrievalTypeOK
<1>2. \A k \in DOMAIN retrieval_cache' : Range(retrieval_cache'[k]) \subseteq Scored
  OBVIOUS
<1>3. RetrievalTypeOK'
  BY <1>1, <1>2, SearchTyped
<1>4. CacheSound'
  BY DEF CacheSound
<1>5. CorpusSound'
  BY DEF RetrievalInv, CorpusSound, Alive, CorpusKept
<1>6. FailureIsTold'
  BY DEF FailureIsTold
<1> QED BY <1>3, <1>4, <1>5, <1>6 DEF RetrievalInv

LEMMA StartSearchStep ==
    ASSUME RetrievalInv, StartSearch
    PROVE  RetrievalInv'
<1> USE RetrievalAssumption
<1>1. CorpusKept /\ Proceeds /\ retrieval_cache' = retrieval_cache /\ search.runs < MaxSearches
  BY Zenon DEF StartSearch
<1>2. /\ search \in SearchStates
      /\ validity \in [SearchDocs -> {"effective", "superseded", "deleted"}]
  BY DEF RetrievalInv, RetrievalTypeOK
<1> DEFINE Narrow(ids, scoped) == scoped /\ ids # {}
           Places(ids) == {PlaceOf[d] : d \in {d \in ids : Alive(d)}}
           Ids(ids, scoped) == IF Narrow(ids, scoped) THEN {d \in ids : Alive(d)} ELSE ids
           Asked(ids, scoped) == IF Narrow(ids, scoped) THEN SearchWorkspaces \cap Places(ids)
                                                        ELSE SearchWorkspaces
           old == {d \in SearchDocs : validity[d] = "superseded"}
           dead == {d \in SearchDocs : ~Alive(d)}
           New(ids, scoped) == [Fresh(search.runs + 1) EXCEPT
                  !.phase = "searching",
                  !.document_ids = Ids(ids, scoped),
                  !.scoped = Narrow(ids, scoped),
                  !.waiting = Asked(ids, scoped),
                  !.all_chunks = DirectChunks(ids),
                  !.superseded0 = old,
                  !.deleted0 = dead]
<1>3. PICK ids \in Scopes, scoped \in BOOLEAN : search' = New(ids, scoped)
  BY Zenon DEF StartSearch
<1>4. ids \subseteq SearchDocs
  OBVIOUS
<1>5. DirectChunks(ids) \subseteq Scored
  <2>1. MaxScore \in 0..MaxScore
    BY FS_CardinalityType DEF MaxScore
  <2> QED BY <1>4, <2>1 DEF DirectChunks, Scored
<1>6. /\ Ids(ids, scoped) \in SUBSET SearchDocs /\ Asked(ids, scoped) \in SUBSET SearchWorkspaces
      /\ old \in SUBSET SearchDocs /\ dead \in SUBSET SearchDocs
      /\ search.runs + 1 \in 0..MaxSearches
  BY <1>1, <1>2, <1>4 DEF SearchStates
<1>7. Narrow(ids, scoped) \in BOOLEAN
  OBVIOUS
<1>8. Ids(ids, scoped) = {} => DirectChunks(ids) = {} /\ (Narrow(ids, scoped) => Asked(ids, scoped) = {})
  <2>1. CASE Narrow(ids, scoped)
    BY <2>1 DEF DirectChunks
  <2>2. CASE ~Narrow(ids, scoped)
    BY <2>2 DEF DirectChunks
  <2> QED BY <2>1, <2>2
<1>9. Narrow(ids, scoped) \/ Asked(ids, scoped) = SearchWorkspaces
  OBVIOUS
<1> HIDE DEF Narrow, Places, Named, Asked
<1>10. <<>> \in Seq(SearchDocs) /\ Len(<<>>) = 0
  OBVIOUS
<1>11. Fresh(search.runs + 1) \in SearchStates
  BY <1>6, <1>10 DEF Fresh, SearchStates
<1>12. search' \in SearchStates
  <2> HIDE DEF old, dead
  <2> QED BY <1>3, <1>5, <1>6, <1>7, <1>11 DEF SearchStates
<1>13. /\ search'.phase = "searching" /\ search'.document_ids = Ids(ids, scoped)
       /\ search'.scoped = Narrow(ids, scoped) /\ search'.waiting = Asked(ids, scoped)
       /\ search'.all_chunks = DirectChunks(ids)
       /\ search'.reading = {} /\ search'.sources = <<>>
       /\ search'.superseded0 = old /\ search'.deleted0 = dead
  <2> HIDE DEF old, dead
  <2> QED BY <1>3 DEF Fresh
<1>14. RetrievalTypeOK'
  <2>1. search'.waiting \cap search'.reading = {} /\ Len(search'.sources) <= TopK
    BY <1>10, <1>13
  <2>2. /\ DOMAIN retrieval_cache' \subseteq Keys
        /\ \A k \in DOMAIN retrieval_cache' : Range(retrieval_cache'[k]) \subseteq Scored
    BY <1>1 DEF RetrievalInv, RetrievalTypeOK
  <2> QED BY <1>1, <1>12, <2>1, <2>2, SearchTyped
<1>15. CorpusSound'
  <2>1. validity' = validity /\ embedded' = embedded
    BY <1>1 DEF CorpusKept
  <2> QED BY <1>13, <2>1 DEF RetrievalInv, CorpusSound, Alive
<1>16. CacheSound' /\ FailureIsTold'
  BY <1>1, <1>13 DEF RetrievalInv, CacheSound, FailureIsTold
<1>17. SearchingSound'
  <2>1. Pending' = Asked(ids, scoped)
    BY <1>13 DEF Pending
  <2>2. ASSUME search'.document_ids = {} PROVE search'.all_chunks = {}
    BY <1>8, <1>13, <2>2
  <2>3. ASSUME search'.document_ids = {}, search'.scoped PROVE Pending' = {}
    BY <1>8, <1>13, <2>1, <2>3
  <2>4. ASSUME ~search'.scoped, NEW e \in Embeddable PROVE EffectiveSound(e)'
    <3>1. PlaceOf[e] \in Pending' /\ PlaceOf[e] \notin search'.reading
      BY <1>9, <1>13, <2>1, <2>4 DEF Embeddable
    <3> QED BY <3>1 DEF EffectiveSound
  <2> QED BY <2>2, <2>3, <2>4 DEF SearchingSound, Embeddable
<1> QED BY <1>13, <1>14, <1>15, <1>16, <1>17 DEF RetrievalInv

\* The chunks of a workspace that has been searched anew.
ResultSound(w, C) ==
    /\ \A c \in C :
          /\ c.doc \in search.superseded0 /\ Alive(c.doc) => c.score <= Relevance[c.doc]
          /\ validity[c.doc] = "effective" => c.score = 2 * Relevance[c.doc]
    /\ \A e \in Embeddable :
          PlaceOf[e] = w /\ validity[e] = "effective" /\ Relevance[e] > 0
          /\ Cardinality(InScope(w)) <= 2 * TopK => Finds(C, e)

\* A workspace's result joins those of the others.
LEMMA ResultJoins ==
    ASSUME RetrievalInv, search.phase = "searching", search'.phase = "searching",
           NEW w \in SearchWorkspaces, w \in Pending,
           NEW C \in SUBSET Scored, \A c \in C : PlaceOf[c.doc] = w,
           validity' = validity,
           search' \in SearchStates,
           search'.document_ids = search.document_ids, search'.scoped = search.scoped,
           search'.superseded0 = search.superseded0,
           search'.waiting = search.waiting \ {w}, search'.reading = search.reading \ {w},
           \A e \in search.raw : e \notin InScope(w) => e \in search'.raw,
           search'.all_chunks = search.all_chunks \cup C,
           \A v \in SearchWorkspaces : v # w /\ Anew(v)' => Anew(v),
           search.document_ids = {} /\ ~search.scoped /\ Anew(w)' => ResultSound(w, C)
    PROVE  SearchingSound'
<1> USE RetrievalAssumption
<1>1. SearchingSound /\ search \in SearchStates
  BY DEF RetrievalInv, RetrievalTypeOK
<1>2. Pending' = Pending \ {w}
  BY DEF Pending
<1>3. CASE search.document_ids # {}
  BY <1>3 DEF SearchingSound
<1>4. CASE search.document_ids = {} /\ search.scoped
  BY <1>1, <1>4 DEF SearchingSound
<1>5. CASE search.document_ids = {} /\ ~search.scoped
  <2>1. /\ \A c \in search.all_chunks : ChunkSound(c)
        /\ \A e \in Embeddable : validity[e] = "effective" => EffectiveSound(e)
    BY <1>1, <1>5 DEF SearchingSound
  <2>2. \A c \in Scored : c.doc \in SearchDocs /\ PlaceOf[c.doc] \in SearchWorkspaces
    BY DEF Scored
  <2>3. search.all_chunks \subseteq Scored
    BY <1>1 DEF SearchStates
  <2>4. ASSUME NEW c \in search'.all_chunks PROVE ChunkSound(c)'
    <3>1. CASE c \in C
      <4>1. PlaceOf[c.doc] = w /\ w \notin Pending'
        BY <1>2, <3>1
      <4>2. Anew(w)' => /\ c.doc \in search.superseded0 /\ Alive(c.doc) => c.score <= Relevance[c.doc]
                        /\ validity[c.doc] = "effective" => c.score = 2 * Relevance[c.doc]
        BY <1>5, <3>1 DEF ResultSound
      <4>3. Alive(c.doc)' = Alive(c.doc)
        BY DEF Alive
      <4> QED BY <4>1, <4>2, <4>3 DEF ChunkSound
    <3>2. CASE c \notin C
      <4>1. c \in search.all_chunks /\ ChunkSound(c) /\ PlaceOf[c.doc] \in SearchWorkspaces
        BY <2>1, <2>2, <2>3, <3>2
      <4>2. PlaceOf[c.doc] \notin Pending /\ PlaceOf[c.doc] # w
        BY <4>1 DEF ChunkSound
      <4>3. Anew(PlaceOf[c.doc])' => Anew(PlaceOf[c.doc])
        BY <4>1, <4>2
      <4>4. Alive(c.doc)' = Alive(c.doc) /\ PlaceOf[c.doc] \notin Pending'
        BY <1>2, <4>2 DEF Alive
      <4> QED BY <4>1, <4>3, <4>4 DEF ChunkSound
    <3> QED BY <3>1, <3>2
  <2>5. ASSUME NEW e \in Embeddable, validity[e] = "effective" PROVE EffectiveSound(e)'
    <3> DEFINE v == PlaceOf[e]
    <3>1. e \in SearchDocs /\ v \in SearchWorkspaces
      BY DEF Embeddable
    <3>2. EffectiveSound(e)
      BY <2>1, <2>5
    <3>3. InScope(v)' = InScope(v) /\ InScope(w) \subseteq {d \in Embeddable : PlaceOf[d] = w}
      BY ScopeStays, ScopeIs
    <3>4. CASE v = w
      <4>1. v \notin search'.reading
        BY <3>4
      <4>2. Anew(w)' /\ Relevance[e] > 0 /\ Cardinality(InScope(w)) <= 2 * TopK => Finds(C, e)
        BY <1>5, <2>5, <3>4 DEF ResultSound
      <4>3. Finds(C, e) => Finds(search'.all_chunks, e)
        BY FindsMore
      <4> QED BY <3>3, <3>4, <4>1, <4>2, <4>3 DEF EffectiveSound
    <3>5. CASE v # w
      <4>1. v \in search'.reading => e \in search'.raw
        <5>1. e \notin InScope(w)
          BY <3>3, <3>5
        <5> QED BY <3>2, <5>1 DEF EffectiveSound
      <4>2. v \in Pending <=> v \in Pending'
        BY <1>2, <3>5
      <4>3. Anew(v)' => Anew(v)
        BY <3>1, <3>5
      <4>4. Finds(search.all_chunks, e) => Finds(search'.all_chunks, e)
        BY FindsMore
      <4> QED BY <3>2, <3>3, <4>1, <4>2, <4>3, <4>4 DEF EffectiveSound
    <3> QED BY <3>4, <3>5
  <2> QED BY <1>5, <2>4, <2>5 DEF SearchingSound
<1> QED BY <1>3, <1>4, <1>5

\* What Returns does to the search.
LEMMA ReturnsTyped ==
    ASSUME RetrievalInv, NEW w \in SearchWorkspaces, NEW t, Range(t) \subseteq Scored
    PROVE  /\ Returns(w, t) \in SearchStates
           /\ Returns(w, t).phase = search.phase
           /\ Returns(w, t).document_ids = search.document_ids
           /\ Returns(w, t).scoped = search.scoped
           /\ Returns(w, t).waiting = search.waiting \ {w}
           /\ Returns(w, t).reading = search.reading \ {w}
           /\ Returns(w, t).raw = search.raw \ InScope(w)
           /\ Returns(w, t).all_chunks = search.all_chunks \cup Range(t)
           /\ Returns(w, t).hits = search.hits /\ Returns(w, t).unsure = search.unsure
           /\ Returns(w, t).failed = search.failed /\ Returns(w, t).sources = search.sources
           /\ Returns(w, t).superseded0 = search.superseded0
           /\ Returns(w, t).deleted0 = search.deleted0
<1> DEFINE waiting == search.waiting \ {w}
           reading == search.reading \ {w}
           raw == search.raw \ InScope(w)
           chunks == search.all_chunks \cup Range(t)
<1>1. search \in SearchStates
  BY DEF RetrievalInv, RetrievalTypeOK
<1>2. /\ waiting \in SUBSET SearchWorkspaces /\ reading \in SUBSET SearchWorkspaces
      /\ raw \in SUBSET SearchDocs /\ chunks \in SUBSET Scored
  BY <1>1 DEF SearchStates
<1>3. Returns(w, t) = [search EXCEPT !.waiting = waiting, !.reading = reading, !.raw = raw,
                                     !.all_chunks = chunks]
  BY DEF Returns
<1> HIDE DEF waiting, reading, raw, chunks
<1>4. /\ Returns(w, t) \in SearchStates
      /\ Returns(w, t).waiting = waiting /\ Returns(w, t).reading = reading
      /\ Returns(w, t).raw = raw /\ Returns(w, t).all_chunks = chunks
  <2> DEFINE new == [search EXCEPT !.waiting = waiting, !.reading = reading, !.raw = raw,
                                   !.all_chunks = chunks]
  <2>1. new \in SearchStates
    BY <1>1, <1>2 DEF SearchStates
  <2>2. new.waiting = waiting /\ new.reading = reading /\ new.raw = raw /\ new.all_chunks = chunks
    BY <1>1 DEF SearchStates
  <2> QED BY <1>3, <2>1, <2>2, Zenon
<1>5. /\ Returns(w, t).phase = search.phase
      /\ Returns(w, t).document_ids = search.document_ids
      /\ Returns(w, t).scoped = search.scoped
      /\ Returns(w, t).hits = search.hits /\ Returns(w, t).unsure = search.unsure
      /\ Returns(w, t).failed = search.failed /\ Returns(w, t).sources = search.sources
      /\ Returns(w, t).superseded0 = search.superseded0
      /\ Returns(w, t).deleted0 = search.deleted0
  BY <1>1, <1>3 DEF SearchStates
<1> QED BY <1>4, <1>5 DEF waiting, reading, raw, chunks

LEMMA CacheHitStep ==
    ASSUME RetrievalInv, NEW w \in SearchWorkspaces, CacheHit(w)
    PROVE  RetrievalInv'
<1> USE RetrievalAssumption
<1> DEFINE t == retrieval_cache[Key(w)]
           hits == search.hits \cup {w}
           r == Returns(w, t)
<1>1. /\ search.phase = "searching" /\ w \in search.waiting /\ Key(w) \in DOMAIN retrieval_cache
      /\ CorpusKept /\ Proceeds /\ retrieval_cache' = retrieval_cache
  BY DEF CacheHit
<1>2. search' = [r EXCEPT !.hits = @ \cup {w}]
  BY Zenon DEF CacheHit
<1>3. /\ Range(t) \subseteq Scored /\ \A c \in Range(t) : PlaceOf[c.doc] = w
      /\ search \in SearchStates /\ search.waiting \cap search.reading = {}
  BY <1>1 DEF RetrievalInv, RetrievalTypeOK, CacheSound, Key
<1> HIDE DEF t
<1>4. /\ r \in SearchStates
      /\ r.phase = search.phase /\ r.document_ids = search.document_ids /\ r.scoped = search.scoped
      /\ r.waiting = search.waiting \ {w} /\ r.reading = search.reading \ {w}
      /\ r.raw = search.raw \ InScope(w) /\ r.all_chunks = search.all_chunks \cup Range(t)
      /\ r.hits = search.hits /\ r.unsure = search.unsure /\ r.failed = search.failed
      /\ r.sources = search.sources /\ r.superseded0 = search.superseded0
      /\ r.deleted0 = search.deleted0
  BY <1>3, ReturnsTyped
<1> HIDE DEF r
<1>5. hits \in SUBSET SearchWorkspaces
  BY <1>3 DEF SearchStates
<1>6. search' = [r EXCEPT !.hits = hits]
  BY <1>2, <1>4
<1> HIDE DEF hits
<1>7. /\ search' \in SearchStates /\ search'.hits = hits
      /\ search'.phase = search.phase /\ search'.document_ids = search.document_ids
      /\ search'.scoped = search.scoped
      /\ search'.waiting = search.waiting \ {w} /\ search'.reading = search.reading \ {w}
      /\ search'.raw = search.raw \ InScope(w)
      /\ search'.all_chunks = search.all_chunks \cup Range(t)
      /\ search'.unsure = search.unsure /\ search'.failed = search.failed
      /\ search'.sources = search.sources /\ search'.superseded0 = search.superseded0
      /\ search'.deleted0 = search.deleted0
  BY <1>4, <1>5, <1>6 DEF SearchStates
<1>8. w \in Pending /\ ~Anew(w)' /\ \A v \in SearchWorkspaces : Anew(v)' => Anew(v)
  BY <1>1, <1>7 DEF Pending, Anew, hits
<1>9. validity' = validity
  BY <1>1 DEF CorpusKept
<1>10. SearchingSound'
  BY <1>1, <1>3, <1>7, <1>8, <1>9, ResultJoins
<1>11. /\ DOMAIN retrieval_cache' \subseteq Keys
       /\ \A k \in DOMAIN retrieval_cache' :
             \A c \in Range(retrieval_cache'[k]) : c \in Scored /\ PlaceOf[c.doc] = k[1]
  BY <1>1 DEF RetrievalInv, RetrievalTypeOK, CacheSound
<1>12. search'.waiting \cap search'.reading = {}
  BY <1>3, <1>7
<1> QED BY <1>1, <1>7, <1>10, <1>11, <1>12, StillSearching

LEMMA RetrieveStep ==
    ASSUME RetrievalInv, NEW w \in SearchWorkspaces, Retrieve(w)
    PROVE  RetrievalInv'
<1> USE RetrievalAssumption
<1>1. /\ search.phase = "searching" /\ w \in search.waiting
      /\ CorpusKept /\ retrieval_cache' = retrieval_cache /\ (Proceeds \/ Faults)
  BY DEF Retrieve
<1>2. /\ search \in SearchStates /\ search.waiting \cap search.reading = {}
      /\ SearchingSound /\ CorpusSound
  BY <1>1 DEF RetrievalInv, RetrievalTypeOK
<1>3. PICK bm25 \in SUBSET InScope(w) :
          search' = [search EXCEPT
              !.waiting = @ \ {w}, !.reading = @ \cup {w},
              !.raw = @ \cup Fused(embedded \cap InScope(w), bm25)]
  BY DEF Retrieve
<1> DEFINE waiting == search.waiting \ {w}
           reading == search.reading \cup {w}
           raw == search.raw \cup Fused(embedded \cap InScope(w), bm25)
<1>4. search' = [search EXCEPT !.waiting = waiting, !.reading = reading, !.raw = raw]
  BY <1>3
<1>5. InScope(w) \subseteq SearchDocs
  BY DEF InScope, Embeddable
<1>6. /\ waiting \in SUBSET SearchWorkspaces /\ reading \in SUBSET SearchWorkspaces
      /\ raw \in SUBSET SearchDocs
  BY <1>2, <1>5 DEF SearchStates, Fused
<1>7. search.raw \subseteq raw /\ embedded \cap InScope(w) \subseteq raw
  BY DEF Fused
<1> HIDE DEF waiting, reading, raw
<1>8. /\ search' \in SearchStates /\ search'.waiting = waiting /\ search'.reading = reading
      /\ search'.raw = raw
  BY <1>2, <1>4, <1>6 DEF SearchStates
<1>9. /\ search'.phase = search.phase /\ search'.document_ids = search.document_ids
      /\ search'.scoped = search.scoped /\ search'.all_chunks = search.all_chunks
      /\ search'.hits = search.hits /\ search'.unsure = search.unsure
      /\ search'.failed = search.failed /\ search'.sources = search.sources
      /\ search'.superseded0 = search.superseded0 /\ search'.deleted0 = search.deleted0
  BY <1>2, <1>4 DEF SearchStates
<1>10. /\ Pending' = Pending /\ validity' = validity /\ waiting \cap reading = {}
       /\ \A v : Anew(v)' = Anew(v)
  BY <1>1, <1>2, <1>8, <1>9 DEF Pending, Anew, CorpusKept, waiting, reading
<1>11. SearchingSound'
  <2>1. \A c \in search.all_chunks : ChunkSound(c)' = ChunkSound(c)
    BY <1>9, <1>10 DEF ChunkSound, Alive
  <2>2. ASSUME NEW e \in Embeddable, validity[e] = "effective", EffectiveSound(e),
               search.document_ids = {}
        PROVE  EffectiveSound(e)'
    <3>1. InScope(PlaceOf[e])' = InScope(PlaceOf[e])
      BY <1>9, ScopeStays
    <3>2. PlaceOf[e] = w => e \in raw
      <4>1. PlaceOf[e] = w => e \in InScope(w)
        BY <2>2, ScopeIs
      <4>2. e \in embedded
        BY <1>2, <2>2 DEF CorpusSound, Alive
      <4> QED BY <1>7, <4>1, <4>2
    <3>3. PlaceOf[e] \in search'.reading => e \in search'.raw
      BY <1>7, <1>8, <2>2, <3>2 DEF EffectiveSound, reading
    <3> QED BY <1>9, <1>10, <2>2, <3>1, <3>3 DEF EffectiveSound
  <2> QED BY <1>2, <1>9, <1>10, <2>1, <2>2 DEF SearchingSound
<1>12. /\ DOMAIN retrieval_cache' \subseteq Keys
       /\ \A k \in DOMAIN retrieval_cache' :
             \A c \in Range(retrieval_cache'[k]) : c \in Scored /\ PlaceOf[c.doc] = k[1]
  BY <1>1 DEF RetrievalInv, RetrievalTypeOK, CacheSound
<1> QED BY <1>1, <1>8, <1>9, <1>10, <1>11, <1>12, StillSearching

LEMMA RerankStep ==
    ASSUME RetrievalInv, NEW w \in SearchWorkspaces, Rerank(w)
    PROVE  RetrievalInv'
<1> USE RetrievalAssumption
<1> DEFINE D == search.raw \cap InScope(w)
           Old(known) == SupersededAmong(D, known)
           Demote(known) == IdsFor(w) = {} /\ Old(known) # {}
<1>1. search.phase = "searching" /\ w \in search.reading /\ CorpusKept
  BY Zenon DEF Rerank
<1>2. PICK known \in BOOLEAN, kept \in BOOLEAN :
          /\ Proceeds \/ Faults
          /\ \E s \in Reranked(D, IF Demote(known) THEN 2 * TopK ELSE TopK) :
             \E t \in IF Demote(known) THEN Demoted(s, Old(known), TopK) ELSE {s} :
                /\ search' = [Returns(w, t) EXCEPT
                       !.unsure = IF known THEN @ ELSE @ \cup {w}]
                /\ retrieval_cache' = IF kept THEN Cached(w, t) ELSE retrieval_cache
  BY Zenon DEF Rerank
<1> DEFINE old == Old(known)
           demote == Demote(known)
<1>20. PICK s \in Reranked(D, IF demote THEN 2 * TopK ELSE TopK) :
          \E t \in IF demote THEN Demoted(s, old, TopK) ELSE {s} :
             /\ search' = [Returns(w, t) EXCEPT !.unsure = IF known THEN @ ELSE @ \cup {w}]
             /\ retrieval_cache' = IF kept THEN Cached(w, t) ELSE retrieval_cache
  BY <1>2, Zenon
<1>3. PICK t \in IF demote THEN Demoted(s, old, TopK) ELSE {s} :
          /\ search' = [Returns(w, t) EXCEPT !.unsure = IF known THEN @ ELSE @ \cup {w}]
          /\ retrieval_cache' = IF kept THEN Cached(w, t) ELSE retrieval_cache
  BY <1>20, Zenon
<1>4. /\ search \in SearchStates /\ search.waiting \cap search.reading = {}
      /\ SearchingSound /\ CorpusSound /\ CacheSound /\ DOMAIN retrieval_cache \subseteq Keys
      /\ \A k \in DOMAIN retrieval_cache : Range(retrieval_cache[k]) \subseteq Scored
  BY <1>1 DEF RetrievalInv, RetrievalTypeOK
<1>5. InScope(w) \subseteq SearchDocs /\ D \subseteq SearchDocs /\ D \subseteq InScope(w)
  BY DEF InScope, Embeddable
<1>6. old \in SUBSET D
  BY DEF SupersededAmong
<1>7. demote \in BOOLEAN /\ (IdsFor(w) = {} => demote \/ old = {})
  OBVIOUS
<1>8. known => old = {d \in D : validity[d] = "superseded"}
  BY DEF SupersededAmong
<1> HIDE DEF D, old, demote, Old, Demote
<1>9. /\ \A c \in Range(t) : c \in Scored /\ c.doc \in D
      /\ demote \/ old = {} =>
            /\ Judged(Range(t), D, old)
            /\ \A e \in D \ old :
                  Relevance[e] > 0 /\ Cardinality(D) <= 2 * TopK => Finds(Range(t), e)
  BY <1>3, <1>5, <1>6, <1>7, WorkspaceResult
<1>10. Range(t) \subseteq Scored /\ \A c \in Range(t) : PlaceOf[c.doc] = w
  BY <1>5, <1>9, ScopeIs
<1> DEFINE r == Returns(w, t)
           unsure == IF known THEN r.unsure ELSE r.unsure \cup {w}
<1>11. search' = [r EXCEPT !.unsure = unsure]
  BY <1>3
<1>12. /\ r \in SearchStates
       /\ r.phase = search.phase /\ r.document_ids = search.document_ids /\ r.scoped = search.scoped
       /\ r.waiting = search.waiting \ {w} /\ r.reading = search.reading \ {w}
       /\ r.raw = search.raw \ InScope(w) /\ r.all_chunks = search.all_chunks \cup Range(t)
       /\ r.hits = search.hits /\ r.unsure = search.unsure /\ r.failed = search.failed
       /\ r.sources = search.sources /\ r.superseded0 = search.superseded0
       /\ r.deleted0 = search.deleted0
  BY <1>10, ReturnsTyped
<1> HIDE DEF r
<1>13. /\ unsure \in SUBSET SearchWorkspaces /\ search.unsure \subseteq unsure
       /\ w \notin unsure => known
  BY <1>4, <1>12 DEF SearchStates
<1> HIDE DEF unsure
<1>14. /\ search' \in SearchStates /\ search'.unsure = unsure
       /\ search'.phase = search.phase /\ search'.document_ids = search.document_ids
       /\ search'.scoped = search.scoped
       /\ search'.waiting = search.waiting \ {w} /\ search'.reading = search.reading \ {w}
       /\ search'.raw = search.raw \ InScope(w)
       /\ search'.all_chunks = search.all_chunks \cup Range(t)
       /\ search'.hits = search.hits /\ search'.failed = search.failed
       /\ search'.sources = search.sources /\ search'.superseded0 = search.superseded0
       /\ search'.deleted0 = search.deleted0
  BY <1>11, <1>12, <1>13 DEF SearchStates
<1>15. /\ w \in Pending /\ (Anew(w)' => known) /\ validity' = validity
       /\ \A v \in SearchWorkspaces : Anew(v)' => Anew(v)
  BY <1>1, <1>13, <1>14 DEF Pending, Anew, CorpusKept
<1>16. ASSUME search.document_ids = {}, ~search.scoped, Anew(w)'
       PROVE  ResultSound(w, Range(t))
  <2>1. /\ Judged(Range(t), D, old)
        /\ \A e \in D \ old :
              Relevance[e] > 0 /\ Cardinality(D) <= 2 * TopK => Finds(Range(t), e)
    BY <1>7, <1>9, <1>16, ScopeIs
  <2>2. old = {d \in D : validity[d] = "superseded"}
    BY <1>8, <1>15, <1>16
  <2>3. ASSUME NEW c \in Range(t)
        PROVE  /\ c.doc \in search.superseded0 /\ Alive(c.doc) => c.score <= Relevance[c.doc]
               /\ validity[c.doc] = "effective" => c.score = 2 * Relevance[c.doc]
    <3>1. c.doc \in search.superseded0 /\ Alive(c.doc) => c.doc \in old
      BY <1>4, <1>9, <2>2 DEF CorpusSound, Alive
    <3>2. validity[c.doc] = "effective" => c.doc \notin old
      BY <2>2
    <3> QED BY <2>1, <3>1, <3>2 DEF Judged
  <2>4. ASSUME NEW e \in Embeddable, PlaceOf[e] = w, validity[e] = "effective", Relevance[e] > 0,
               Cardinality(InScope(w)) <= 2 * TopK
        PROVE  Finds(Range(t), e)
    <3>1. e \in search.raw
      BY <1>1, <1>4, <1>16, <2>4 DEF SearchingSound, EffectiveSound
    <3>2. e \in InScope(w)
      BY <1>16, <2>4, ScopeIs
    <3>3. e \in D \ old
      BY <2>2, <2>4, <3>1, <3>2 DEF D
    <3>4. Cardinality(D) <= 2 * TopK
      <4>1. IsFiniteSet(InScope(w))
        BY <1>5, FS_Subset
      <4>2. Cardinality(D) <= Cardinality(InScope(w)) /\ IsFiniteSet(D)
        BY <1>5, <4>1, FS_Subset
      <4>3. Cardinality(D) \in Nat /\ Cardinality(InScope(w)) \in Nat /\ TopK \in Nat
        BY <4>1, <4>2, FS_CardinalityType
      <4> QED BY <2>4, <4>2, <4>3
    <3> QED BY <2>1, <2>4, <3>3, <3>4
  <2> QED BY <2>3, <2>4 DEF ResultSound
<1>17. SearchingSound'
  <2>1. search.phase = "searching" /\ search'.phase = "searching"
    BY <1>1, <1>14
  <2>2. Range(t) \in SUBSET Scored /\ \A c \in Range(t) : PlaceOf[c.doc] = w
    BY <1>10
  <2>3. \A e \in search.raw : e \notin InScope(w) => e \in search'.raw
    BY <1>14
  <2>4. search.document_ids = {} /\ ~search.scoped /\ Anew(w)' => ResultSound(w, Range(t))
    BY <1>16
  <2>5. \A v \in SearchWorkspaces : v # w /\ Anew(v)' => Anew(v)
    BY <1>15
  <2> QED BY <1>14, <1>15, <2>1, <2>2, <2>3, <2>4, <2>5, ResultJoins
<1>18. /\ DOMAIN retrieval_cache' \subseteq Keys
       /\ \A k \in DOMAIN retrieval_cache' :
             \A c \in Range(retrieval_cache'[k]) : c \in Scored /\ PlaceOf[c.doc] = k[1]
  <2>1. CASE ~kept
    BY <1>3, <1>4, <2>1 DEF CacheSound
  <2>2. CASE kept
    <3>1. retrieval_cache' = Cached(w, t)
      BY <1>3, <2>2
    <3>2. Key(w) \in Keys /\ Key(w)[1] = w
      BY <1>4 DEF Key, Keys, IdsFor, SearchStates
    <3>3. /\ DOMAIN Cached(w, t) = DOMAIN retrieval_cache \cup {Key(w)}
          /\ Cached(w, t)[Key(w)] = t
          /\ \A k \in DOMAIN retrieval_cache : k # Key(w) => Cached(w, t)[k] = retrieval_cache[k]
      BY DEF Cached
    <3> QED BY <1>4, <1>10, <3>1, <3>2, <3>3 DEF CacheSound
  <2> QED BY <2>1, <2>2
<1>19. search'.waiting \cap search'.reading = {}
  BY <1>4, <1>14
<1> QED BY <1>1, <1>2, <1>14, <1>17, <1>18, <1>19, StillSearching

LEMMA WorkspaceFailsStep ==
    ASSUME RetrievalInv, NEW w \in SearchWorkspaces, WorkspaceFails(w)
    PROVE  RetrievalInv'
<1> USE RetrievalAssumption
<1>1. /\ search.phase = "searching" /\ w \in search.reading
      /\ Faults /\ CorpusKept /\ retrieval_cache' = retrieval_cache
  BY DEF WorkspaceFails
<1>2. /\ search \in SearchStates /\ search.waiting \cap search.reading = {} /\ SearchingSound
  BY <1>1 DEF RetrievalInv, RetrievalTypeOK
<1>3. /\ DOMAIN retrieval_cache' \subseteq Keys
      /\ \A k \in DOMAIN retrieval_cache' :
            \A c \in Range(retrieval_cache'[k]) : c \in Scored /\ PlaceOf[c.doc] = k[1]
  BY <1>1 DEF RetrievalInv, RetrievalTypeOK, CacheSound
<1>4. validity' = validity
  BY <1>1 DEF CorpusKept
<1>5. CASE search' = [Returns(w, <<>>) EXCEPT !.failed = @ \cup {w}]
  <2> DEFINE r == Returns(w, <<>>)
             failed == r.failed \cup {w}
  <2>1. Range(<<>>) = {} /\ Range(<<>>) \subseteq Scored
        /\ search.all_chunks \cup Range(<<>>) = search.all_chunks
    BY DEF Range
  <2>2. /\ r \in SearchStates
        /\ r.phase = search.phase /\ r.document_ids = search.document_ids /\ r.scoped = search.scoped
        /\ r.waiting = search.waiting \ {w} /\ r.reading = search.reading \ {w}
        /\ r.raw = search.raw \ InScope(w) /\ r.all_chunks = search.all_chunks
        /\ r.hits = search.hits /\ r.unsure = search.unsure /\ r.failed = search.failed
        /\ r.sources = search.sources /\ r.superseded0 = search.superseded0
        /\ r.deleted0 = search.deleted0
    <3>1. /\ r \in SearchStates
          /\ r.phase = search.phase /\ r.document_ids = search.document_ids
          /\ r.scoped = search.scoped /\ r.waiting = search.waiting \ {w}
          /\ r.reading = search.reading \ {w} /\ r.raw = search.raw \ InScope(w)
          /\ r.all_chunks = search.all_chunks \cup Range(<<>>)
          /\ r.hits = search.hits /\ r.unsure = search.unsure /\ r.failed = search.failed
          /\ r.sources = search.sources /\ r.superseded0 = search.superseded0
          /\ r.deleted0 = search.deleted0
      BY <2>1, ReturnsTyped
    <3> QED BY <2>1, <3>1
  <2>3. search' = [r EXCEPT !.failed = failed]
    BY <1>5
  <2> HIDE DEF r
  <2>4. failed \in SUBSET SearchWorkspaces /\ w \in failed /\ search.failed \subseteq failed
    BY <2>2 DEF SearchStates
  <2> HIDE DEF failed
  <2>5. /\ search' \in SearchStates /\ search'.failed = failed
        /\ search'.phase = search.phase /\ search'.document_ids = search.document_ids
        /\ search'.scoped = search.scoped
        /\ search'.waiting = search.waiting \ {w} /\ search'.reading = search.reading \ {w}
        /\ search'.raw = search.raw \ InScope(w)
        /\ search'.all_chunks = search.all_chunks
        /\ search'.hits = search.hits /\ search'.unsure = search.unsure
        /\ search'.sources = search.sources /\ search'.superseded0 = search.superseded0
        /\ search'.deleted0 = search.deleted0
    BY <2>2, <2>3, <2>4 DEF SearchStates
  <2>6. /\ w \in Pending /\ ~Anew(w)'
        /\ \A v \in SearchWorkspaces : v # w /\ Anew(v)' => Anew(v)
    BY <1>1, <2>4, <2>5 DEF Pending, Anew
  <2>7. search.phase = "searching" /\ search'.phase = "searching"
    BY <1>1, <2>5
  <2>8. /\ {} \in SUBSET Scored /\ search'.all_chunks = search.all_chunks \cup {}
        /\ \A c \in {} : PlaceOf[c.doc] = w
    BY <2>5
  <2>9. \A e \in search.raw : e \notin InScope(w) => e \in search'.raw
    BY <2>5
  <2>10. SearchingSound'
    BY <1>4, <2>5, <2>6, <2>7, <2>8, <2>9, ResultJoins
  <2>11. search'.waiting \cap search'.reading = {}
    BY <1>2, <2>5
  <2> QED BY <1>1, <1>3, <2>5, <2>7, <2>10, <2>11, StillSearching
<1>6. CASE search' = [search EXCEPT !.reading = @ \ {w}, !.waiting = @ \cup {w},
                                    !.raw = @ \ InScope(w), !.retried = @ \cup {w}]
  <2> DEFINE reading == search.reading \ {w}
             waiting == search.waiting \cup {w}
             raw == search.raw \ InScope(w)
             retried == search.retried \cup {w}
  <2>1. search' = [search EXCEPT !.reading = reading, !.waiting = waiting,
                                 !.raw = raw, !.retried = retried]
    BY <1>6
  <2>2. /\ reading \in SUBSET SearchWorkspaces /\ waiting \in SUBSET SearchWorkspaces
        /\ raw \in SUBSET SearchDocs /\ retried \in SUBSET SearchWorkspaces
    BY <1>2 DEF SearchStates
  <2> HIDE DEF reading, waiting, raw, retried
  <2>3. /\ search' \in SearchStates /\ search'.reading = reading /\ search'.waiting = waiting
        /\ search'.raw = raw
    BY <1>2, <2>1, <2>2 DEF SearchStates
  <2>4. /\ search'.phase = search.phase /\ search'.document_ids = search.document_ids
        /\ search'.scoped = search.scoped /\ search'.all_chunks = search.all_chunks
        /\ search'.hits = search.hits /\ search'.unsure = search.unsure
        /\ search'.failed = search.failed /\ search'.sources = search.sources
        /\ search'.superseded0 = search.superseded0 /\ search'.deleted0 = search.deleted0
    BY <1>2, <2>1 DEF SearchStates
  <2>5. Pending' = Pending /\ waiting \cap reading = {} /\ \A v : Anew(v)' = Anew(v)
    BY <1>1, <1>2, <2>3, <2>4 DEF Pending, Anew, waiting, reading
  <2>6. SearchingSound'
    <3>1. \A c \in search.all_chunks : ChunkSound(c)' = ChunkSound(c)
      BY <1>4, <2>4, <2>5 DEF ChunkSound, Alive
    <3>2. ASSUME NEW e \in Embeddable, EffectiveSound(e) PROVE EffectiveSound(e)'
      <4>1. InScope(PlaceOf[e])' = InScope(PlaceOf[e])
        BY <2>4, ScopeStays
      <4>2. PlaceOf[e] \in search'.reading => e \in search'.raw
        <5>1. PlaceOf[e] # w => e \notin InScope(w)
          BY ScopeIs
        <5> QED BY <2>3, <3>2, <5>1 DEF EffectiveSound, reading, raw
      <4> QED BY <2>4, <2>5, <3>2, <4>1, <4>2 DEF EffectiveSound
    <3> QED BY <1>2, <1>4, <2>4, <2>5, <3>1, <3>2 DEF SearchingSound
  <2> QED BY <1>1, <1>3, <2>3, <2>4, <2>5, <2>6, StillSearching
<1> QED BY <1>5, <1>6 DEF WorkspaceFails

-----------------------------------------------------------------------------
(* The answer's sources.                                                   *)

\* Among the best of all chunks an effective document that is twice as relevant
\* comes before a demoted one.
LEMMA EffectiveLeads ==
    ASSUME NEW C \in SUBSET Scored, NEW t, Best(C, TopK, t),
           NEW d \in SearchDocs, NEW e \in SearchDocs,
           \A c \in C : c.doc = d => c.score <= Relevance[d],
           \A c \in C : c.doc = e => c.score = 2 * Relevance[e],
           Finds(C, e), Relevance[d] < 2 * Relevance[e],
           NEW best, best = [i \in DOMAIN t |-> t[i].doc]
    PROVE  Leads(best, e, d)
<1> USE RetrievalAssumption
<1>1. t \in Seq(C) /\ Len(t) <= TopK /\ InOrder(t) /\ TopK \in Nat
  BY DEF Best
<1>2. /\ Len(t) \in Nat /\ DOMAIN t = 1..Len(t)
      /\ \A i \in 1..Len(t) : t[i] \in C
      /\ \A c \in Range(t) : \E i \in 1..Len(t) : t[i] = c
  BY <1>1, InSequence
<1>3. Len(best) = Len(t) /\ \A i \in 1..Len(t) : best[i] = t[i].doc
  BY <1>2
<1>4. \A c \in C : c.score \in Nat /\ c.doc \in SearchDocs
  BY DEF Scored
<1>5. Relevance[d] \in Nat /\ Relevance[e] \in Nat
  OBVIOUS
<1> DEFINE twice == 2 * Relevance[e]
<1>6. twice \in Nat /\ Relevance[d] < twice
  BY <1>5
<1>7. \A c \in C : c.doc = e => c.score = twice
  OBVIOUS
<1>8. \/ FullScore(e) \in C
      \/ \E f \in [1..TopK -> C] :
            /\ \A i, j \in 1..TopK : i # j => f[i] # f[j]
            /\ \A i \in 1..TopK : f[i].score >= twice
  BY DEF Finds
<1>9. FullScore(e).doc = e
  BY DEF FullScore
<1> HIDE DEF twice
<1>10. ASSUME NEW p \in 1..Len(best), NEW q \in 1..Len(best), best[p] = e, best[q] = e
       PROVE  p = q
  <2>1. t[p].doc = e /\ t[q].doc = e /\ t[p] \in C /\ t[q] \in C
    BY <1>2, <1>3, <1>10
  <2>2. t[p].score = twice /\ t[q].score = twice
    BY <1>7, <2>1
  <2>3. t[p] = t[q]
    BY <2>1, <2>2 DEF Scored
  <2> QED BY <1>1, <1>3, <2>3 DEF InOrder
<1>11. ASSUME NEW p \in 1..Len(best), best[p] = d
       PROVE  \E q \in 1..Len(best) : q < p /\ best[q] = e
  <2>1. p \in 1..Len(t) /\ t[p] \in C /\ t[p].doc = d /\ t[p].score < twice /\ t[p].score \in Nat
    BY <1>2, <1>3, <1>4, <1>5, <1>6, <1>11
  <2>2. ASSUME NEW c \in C, c.score >= twice
        PROVE  \E i \in 1..Len(t) : i < p /\ t[i] = c
    <3>1. c \in Range(t)
      <4>1. c \in Range(t) \/ Misses(t, TopK, c)
        BY DEF Best
      <4>2. ~Misses(t, TopK, c)
        <5>1. ASSUME Misses(t, TopK, c) PROVE FALSE
          <6>1. t[p].score >= c.score
            BY <2>1, <5>1 DEF Misses
          <6> QED BY <1>4, <1>6, <2>1, <2>2, <6>1
        <5> QED BY <5>1
      <4> QED BY <4>1, <4>2
    <3>2. PICK i \in 1..Len(t) : t[i] = c
      BY <1>2, <3>1
    <3>3. ~(p < i) /\ i # p
      <4>1. p < i => t[p].score >= c.score
        BY <1>1, <2>1, <3>2 DEF InOrder
      <4> QED BY <1>4, <1>6, <2>1, <2>2, <3>2, <4>1
    <3>4. i < p
      BY <1>2, <2>1, <3>3
    <3> QED BY <3>2, <3>4
  <2>3. CASE FullScore(e) \in C
    <3>1. FullScore(e).score = twice /\ twice >= twice
      BY <1>6, <1>7, <1>9, <2>3
    <3>2. PICK i \in 1..Len(t) : i < p /\ t[i] = FullScore(e)
      BY <2>2, <2>3, <3>1
    <3> QED BY <1>3, <1>9, <3>2
  <2>4. CASE FullScore(e) \notin C
    <3>1. PICK f \in [1..TopK -> C] :
              /\ \A i, j \in 1..TopK : i # j => f[i] # f[j]
              /\ \A i \in 1..TopK : f[i].score >= twice
      BY <1>8, <2>4
    <3> DEFINE at == [i \in 1..TopK |-> CHOOSE j \in 1..Len(t) : j < p /\ t[j] = f[i]]
    <3>2. ASSUME NEW i \in 1..TopK
          PROVE  at[i] \in 1..Len(t) /\ at[i] < p /\ t[at[i]] = f[i]
      <4>1. f[i] \in C /\ f[i].score >= twice
        BY <3>1
      <4>2. \E j \in 1..Len(t) : j < p /\ t[j] = f[i]
        BY <2>2, <4>1
      <4> QED BY <4>2
    <3>3. at \in [1..TopK -> 1..(p - 1)]
      <4>1. \A i \in 1..TopK : at[i] \in 1..(p - 1)
        BY <1>2, <2>1, <3>2
      <4> QED BY <4>1
    <3> HIDE DEF at
    <3>4. ASSUME NEW i \in 1..TopK, NEW j \in 1..TopK, at[i] = at[j] PROVE i = j
      <4>1. f[i] = f[j]
        BY <3>2, <3>4
      <4> QED BY <3>1, <4>1
    <3>5. at \in Injection(1..TopK, 1..(p - 1))
      BY <3>3, <3>4 DEF Injection, IsInjective
    <3>6. p - 1 \in Nat /\ p - 1 < TopK
      BY <1>1, <1>2, <2>1
    <3>7. /\ IsFiniteSet(1..(p - 1)) /\ Cardinality(1..(p - 1)) = p - 1
          /\ Cardinality(1..TopK) = TopK
      <4>1. 1 \in Int /\ p - 1 \in Int /\ TopK \in Int
        BY <1>1, <3>6
      <4>2. /\ IsFiniteSet(1..(p - 1))
            /\ Cardinality(1..(p - 1)) = IF 1 > p - 1 THEN 0 ELSE (p - 1) - 1 + 1
            /\ Cardinality(1..TopK) = IF 1 > TopK THEN 0 ELSE TopK - 1 + 1
        BY <4>1, FS_Interval
      <4> QED BY <1>1, <3>6, <4>2
    <3>8. Cardinality(1..TopK) <= Cardinality(1..(p - 1))
      BY <3>5, <3>7, FS_Injection
    <3> QED BY <1>1, <3>6, <3>7, <3>8
  <2> QED BY <2>3, <2>4
<1> QED BY <1>10, <1>11 DEF Leads

\* So it does among those whose document still exists.
LEMMA StillLeads ==
    ASSUME NEW s \in Seq(SearchDocs), NEW t, Kept(s, Len(s), t), NEW e, NEW d,
           Alive(e), Leads(s, e, d)
    PROVE  Leads(t, e, d)
<1>1. PICK g : Tracks(s, Len(s), t, g)
  BY DEF Kept
<1>2. Len(t) \in Nat /\ Len(s) \in Nat
  BY DEF Kept
<1>3. /\ g \in [1..Len(t) -> 1..Len(s)]
      /\ \A a \in 1..Len(t) : t[a] = s[g[a]]
      /\ \A a, b \in 1..Len(t) : a < b => g[a] < g[b]
      /\ \A p \in 1..Len(s) : Alive(s[p]) => \E a \in 1..Len(t) : g[a] = p
  BY <1>1 DEF Tracks
<1>4. \A a, b \in 1..Len(t) : a < b \/ a = b \/ b < a
  BY <1>2
<1>5. \A a, b \in 1..Len(t) : g[a] < g[b] => a < b
  <2>1. ASSUME NEW a \in 1..Len(t), NEW b \in 1..Len(t), g[a] < g[b], ~(a < b) PROVE FALSE
    <3>1. g[a] \in Nat /\ g[b] \in Nat
      BY <1>2, <1>3
    <3>2. a = b \/ g[b] < g[a]
      BY <1>3, <1>4, <2>1
    <3> QED BY <2>1, <3>1, <3>2
  <2> QED BY <2>1
<1>6. ASSUME NEW a \in 1..Len(t), NEW b \in 1..Len(t), t[a] = e, t[b] = e PROVE a = b
  <2>1. g[a] \in 1..Len(s) /\ g[b] \in 1..Len(s) /\ s[g[a]] = e /\ s[g[b]] = e
    BY <1>3, <1>6
  <2>2. g[a] = g[b]
    BY <2>1 DEF Leads
  <2>3. ~(g[a] < g[b]) /\ ~(g[b] < g[a])
    BY <1>2, <2>1, <2>2
  <2> QED BY <1>3, <1>4, <2>3
<1>7. ASSUME NEW b \in 1..Len(t), t[b] = d PROVE \E a \in 1..Len(t) : a < b /\ t[a] = e
  <2>1. g[b] \in 1..Len(s) /\ s[g[b]] = d
    BY <1>3, <1>7
  <2>2. PICK q \in 1..Len(s) : q < g[b] /\ s[q] = e
    BY <2>1 DEF Leads
  <2>3. PICK a \in 1..Len(t) : g[a] = q
    BY <1>3, <2>2
  <2>4. t[a] = e /\ a < b
    BY <1>3, <1>5, <2>2, <2>3
  <2> QED BY <2>4
<1> QED BY <1>6, <1>7 DEF Leads

LEMMA FirstAre ==
    ASSUME NEW S, NEW s \in Seq(S), NEW n \in Nat
    PROVE  \A i \in DOMAIN FirstOf(n, s) : FirstOf(n, s)[i] = s[i]
<1> DEFINE m == IF Len(s) < n THEN Len(s) ELSE n
<1>1. m \in Nat /\ m <= Len(s)
  OBVIOUS
<1>2. FirstOf(n, s) = SubSeq(s, 1, m)
  BY DEF FirstOf
<1> HIDE DEF m
<1>3. /\ SubSeq(s, 1, m) \in Seq(S) /\ Len(SubSeq(s, 1, m)) = m
      /\ \A i \in 1..m : SubSeq(s, 1, m)[i] = s[i]
  BY <1>1, FirstPart
<1>4. DOMAIN SubSeq(s, 1, m) = 1..m
  BY <1>3
<1> QED BY <1>2, <1>3, <1>4

LEMMA BuildSourcesStep ==
    ASSUME RetrievalInv, BuildSources
    PROVE  RetrievalInv'
<1> USE RetrievalAssumption
<1> DEFINE First(s) == FirstOf(TopK, s)
           Docs(s) == [i \in DOMAIN First(s) |-> s[i].doc]
           Flagged(s) == {d \in Range(Docs(s)) : SupersededNow(d)}
<1>1. /\ search.phase = "searching" /\ search.waiting = {} /\ search.reading = {}
      /\ CorpusKept /\ Proceeds /\ retrieval_cache' = retrieval_cache
  BY Zenon DEF BuildSources
<1>2. PICK s \in Sorted(search.all_chunks) :
          search' = [search EXCEPT
              !.phase = "sources", !.sources = Docs(s), !.flagged = Flagged(s), !.warned = Warns]
  BY Zenon DEF BuildSources
<1>3. /\ search \in SearchStates /\ SearchingSound /\ CorpusSound
      /\ search.all_chunks \in SUBSET Scored
  BY <1>1 DEF RetrievalInv, RetrievalTypeOK, SearchStates
<1> DEFINE C == search.all_chunks
           t == First(s)
           best == Docs(s)
           flagged == Flagged(s)
<1>4. Best(C, TopK, t) /\ t \in Seq(C) /\ Len(t) <= TopK /\ TopK \in Nat
  <2>1. Best(C, TopK, t)
    BY <1>3, BestOf
  <2> QED BY <2>1 DEF Best
<1>5. best = [i \in DOMAIN t |-> t[i].doc]
  <2>1. IsFiniteSet(C)
    BY <1>3, ScoredFinite, FS_Subset
  <2>2. s \in Seq(C)
    BY <2>1, EnumeratesAll DEF Sorted
  <2>3. \A i \in DOMAIN t : t[i] = s[i]
    BY <1>4, <2>2, FirstAre
  <2> HIDE DEF First
  <2> QED BY <2>3
<1>6. flagged = {d \in Range(best) : validity[d] = "superseded"}
  BY DEF SupersededNow
<1>7. search' = [search EXCEPT
              !.phase = "sources", !.sources = best, !.flagged = flagged, !.warned = Warns]
  BY <1>2
<1> HIDE DEF First, Docs, Flagged, t, best, flagged
<1>8. /\ Len(t) \in Nat /\ DOMAIN t = 1..Len(t) /\ \A i \in 1..Len(t) : t[i] \in C
  BY <1>4, InSequence
<1>9. \A c \in C : c.doc \in SearchDocs
  BY <1>3 DEF Scored
<1>10. best \in Seq(SearchDocs) /\ Len(best) = Len(t)
  BY <1>5, <1>8, <1>9
<1>11. Range(best) \subseteq SearchDocs /\ flagged \in SUBSET SearchDocs /\ Warns \in BOOLEAN
  BY <1>6, <1>10, InSequence DEF Warns
<1>12. /\ search' \in SearchStates /\ search'.phase = "sources" /\ search'.sources = best
       /\ search'.flagged = flagged /\ search'.warned = Warns
  <2>1. "sources" \in {"idle", "searching", "sources", "over"}
    OBVIOUS
  <2> QED BY <1>3, <1>7, <1>10, <1>11, <2>1 DEF SearchStates
<1>13. /\ search'.waiting = {} /\ search'.reading = {} /\ search'.failed = search.failed
       /\ search'.document_ids = search.document_ids /\ search'.scoped = search.scoped
       /\ search'.hits = search.hits /\ search'.unsure = search.unsure
       /\ search'.superseded0 = search.superseded0 /\ search'.deleted0 = search.deleted0
  BY <1>1, <1>3, <1>7 DEF SearchStates
<1>14. validity' = validity /\ embedded' = embedded
  BY <1>1 DEF CorpusKept
<1>15. RetrievalTypeOK'
  <2>1. /\ DOMAIN retrieval_cache' \subseteq Keys
        /\ \A k \in DOMAIN retrieval_cache' : Range(retrieval_cache'[k]) \subseteq Scored
    BY <1>1 DEF RetrievalInv, RetrievalTypeOK
  <2>2. search'.waiting \cap search'.reading = {} /\ Len(search'.sources) <= TopK
    BY <1>4, <1>10, <1>12, <1>13
  <2> QED BY <1>1, <1>12, <2>1, <2>2, SearchTyped
<1>16. CorpusSound'
  BY <1>13, <1>14 DEF RetrievalInv, CorpusSound, Alive
<1>17. CacheSound'
  BY <1>1 DEF RetrievalInv, CacheSound
<1>18. FailureIsTold'
  BY <1>12, <1>13 DEF FailureIsTold, Warns
<1>19. \A d \in Range(best) \cap search.superseded0 : Alive(d) => d \in flagged
  BY <1>3, <1>6 DEF CorpusSound, Alive
<1>20. ASSUME search.document_ids = {}, NEW d \in search.superseded0, NEW e \in Embeddable,
              Alive(d), Overtakes(e, d)
       PROVE  Leads(best, e, d)
  <2>1. d \in SearchDocs /\ e \in SearchDocs
    BY <1>3 DEF SearchStates, Embeddable
  <2>2. CASE search.scoped
    <3>1. C = {}
      BY <1>3, <1>20, <2>2 DEF SearchingSound
    <3>2. 1..Len(best) = {}
      BY <1>8, <1>10, <3>1
    <3> QED BY <3>2 DEF Leads
  <2>3. CASE ~search.scoped
    <3>1. /\ \A c \in C : ChunkSound(c)
          /\ EffectiveSound(e)
      BY <1>3, <1>20, <2>3 DEF SearchingSound, Overtakes
    <3>2. /\ Anew(PlaceOf[d]) /\ Anew(PlaceOf[e]) /\ PlaceOf[e] \notin Pending
          /\ Relevance[d] < 2 * Relevance[e] /\ validity[e] = "effective"
          /\ Cardinality(InScope(PlaceOf[e])) <= 2 * TopK
      BY <1>1, <1>20 DEF Overtakes, Anew, Pending
    <3>3. Relevance[e] > 0
      <4>1. Relevance[d] \in Nat /\ Relevance[e] \in Nat
        BY <2>1
      <4> QED BY <3>2, <4>1
    <3>4. Finds(C, e)
      BY <3>1, <3>2, <3>3 DEF EffectiveSound
    <3>5. \A c \in C : c.doc = d => c.score <= Relevance[d]
      BY <1>20, <3>1, <3>2 DEF ChunkSound
    <3>6. \A c \in C : c.doc = e => c.score = 2 * Relevance[e]
      BY <3>1, <3>2 DEF ChunkSound
    <3> QED BY <1>3, <1>4, <1>5, <2>1, <3>2, <3>4, <3>5, <3>6, EffectiveLeads
  <2> QED BY <2>2, <2>3
<1>21. \A e, d \in SearchDocs : Overtakes(e, d)' = Overtakes(e, d)
  <2>1. \A w : InScope(w)' = InScope(w)
    BY <1>13, ScopeStays
  <2> QED BY <1>13, <1>14, <2>1 DEF Overtakes
<1>22. SourcesSound'
  <2>1. search.superseded0 \subseteq SearchDocs /\ Embeddable \subseteq SearchDocs
    BY <1>3 DEF SearchStates, Embeddable
  <2>2. \A d \in SearchDocs : Alive(d)' = Alive(d)
    BY <1>14 DEF Alive
  <2>3. \A d \in Range(best) \cap search.superseded0 : Alive(d)' => d \in flagged
    BY <1>19, <2>1, <2>2
  <2>4. search.document_ids = {} =>
           \A d \in search.superseded0, e \in Embeddable :
              Alive(d)' /\ Overtakes(e, d)' => Leads(best, e, d)
    BY <1>20, <1>21, <2>1, <2>2
  <2> QED BY <1>12, <1>13, <2>3, <2>4 DEF SourcesSound
<1> QED BY <1>12, <1>15, <1>16, <1>17, <1>18, <1>22 DEF RetrievalInv

LEMMA DropOrphansStep ==
    ASSUME RetrievalInv, DropOrphans
    PROVE  RetrievalInv'
<1> USE RetrievalAssumption
<1> DEFINE s == search.sources
           t == Existing(s)
<1>1. /\ search.phase = "sources" /\ CorpusKept /\ Proceeds /\ retrieval_cache' = retrieval_cache
      /\ search' = [search EXCEPT !.phase = "over", !.sources = t]
  BY DEF DropOrphans
<1>2. /\ search \in SearchStates /\ search.waiting \cap search.reading = {}
      /\ Len(s) <= TopK /\ s \in Seq(SearchDocs) /\ Len(s) \in Nat
      /\ SourcesSound /\ CorpusSound
  BY <1>1 DEF RetrievalInv, RetrievalTypeOK, SearchStates
<1>3. Kept(s, Len(s), t)
  BY <1>2, ExistingKeeps
<1> HIDE DEF t
<1>4. t \in Seq(SearchDocs) /\ Len(t) \in Nat /\ Len(t) <= TopK
  <2>1. t \in Seq(SearchDocs) /\ Len(t) <= Len(s)
    BY <1>3 DEF Kept
  <2>2. Len(t) \in Nat /\ TopK \in Nat
    BY <2>1
  <2> QED BY <1>2, <2>1, <2>2
<1>5. \A d \in Range(t) : d \in Range(s) /\ Alive(d)
  <2>1. PICK g : Tracks(s, Len(s), t, g)
    BY <1>3 DEF Kept
  <2>2. ASSUME NEW a \in 1..Len(t) PROVE t[a] \in Range(s) /\ Alive(t[a])
    <3>1. t[a] = s[g[a]] /\ Alive(t[a]) /\ g[a] \in 1..Len(s)
      BY <2>1 DEF Tracks
    <3>2. \A i \in 1..Len(s) : s[i] \in Range(s)
      BY <1>2, InSequence
    <3> QED BY <3>1, <3>2
  <2>3. \A d \in Range(t) : \E a \in 1..Len(t) : t[a] = d
    BY <1>4, InSequence
  <2> QED BY <2>2, <2>3
<1>6. search' \in SearchStates /\ search'.phase = "over" /\ search'.sources = t
  <2>1. "over" \in {"idle", "searching", "sources", "over"}
    OBVIOUS
  <2> QED BY <1>1, <1>2, <1>4, <2>1 DEF SearchStates
<1>7. /\ search'.waiting = search.waiting /\ search'.reading = search.reading
      /\ search'.failed = search.failed /\ search'.warned = search.warned
      /\ search'.flagged = search.flagged
      /\ search'.document_ids = search.document_ids /\ search'.scoped = search.scoped
      /\ search'.hits = search.hits /\ search'.unsure = search.unsure
      /\ search'.superseded0 = search.superseded0 /\ search'.deleted0 = search.deleted0
  BY <1>1, <1>2 DEF SearchStates
<1>8. validity' = validity /\ embedded' = embedded
  BY <1>1 DEF CorpusKept
<1>9. RetrievalTypeOK'
  <2>1. /\ DOMAIN retrieval_cache' \subseteq Keys
        /\ \A k \in DOMAIN retrieval_cache' : Range(retrieval_cache'[k]) \subseteq Scored
    BY <1>1 DEF RetrievalInv, RetrievalTypeOK
  <2> QED BY <1>1, <1>2, <1>4, <1>6, <1>7, <2>1, SearchTyped
<1>10. CorpusSound'
  BY <1>7, <1>8 DEF RetrievalInv, CorpusSound, Alive
<1>11. CacheSound'
  BY <1>1 DEF RetrievalInv, CacheSound
<1>12. FailureIsTold'
  BY <1>1, <1>7 DEF RetrievalInv, FailureIsTold
<1>13. OverSound'
  <2>1. Range(t) \cap search.deleted0 = {}
    BY <1>2, <1>5 DEF CorpusSound
  <2>2. Range(t) \cap search.superseded0 \subseteq search.flagged
    BY <1>2, <1>5 DEF SourcesSound
  <2>3. \A w : InScope(w)' = InScope(w)
    BY <1>7, ScopeStays
  <2>4. ASSUME search.document_ids = {}, NEW d \in Range(t) \cap search.superseded0,
               NEW e \in Embeddable, Overtakes(e, d)'
        PROVE  Leads(t, e, d)
    <3>1. Overtakes(e, d)
      BY <1>7, <1>8, <2>3, <2>4 DEF Overtakes
    <3>2. Leads(s, e, d)
      BY <1>2, <1>5, <2>4, <3>1 DEF SourcesSound
    <3>3. Alive(e)
      BY <3>1 DEF Overtakes, Alive
    <3> QED BY <1>2, <1>3, <3>2, <3>3, StillLeads
  <2> QED BY <1>6, <1>7, <2>1, <2>2, <2>4 DEF OverSound
<1> QED BY <1>6, <1>9, <1>10, <1>11, <1>12, <1>13 DEF RetrievalInv

LEMMA RetrievalKeep == RetrievalInv /\ [RetrievalNext]_retrievalVars => RetrievalInv'
<1> SUFFICES ASSUME RetrievalInv, [RetrievalNext]_retrievalVars PROVE RetrievalInv'
  OBVIOUS
<1>1. CASE \E d \in SearchDocs : Supersede(d) \/ DeleteSearchDoc(d)
  BY <1>1, CorpusStep
<1>2. CASE \E k \in DOMAIN retrieval_cache : CacheExpires(k)
  BY <1>2, CacheExpiresStep
<1>3. CASE StartSearch
  BY <1>3, StartSearchStep
<1>4. CASE \E w \in SearchWorkspaces : CacheHit(w) \/ Retrieve(w) \/ Rerank(w) \/ WorkspaceFails(w)
  BY <1>4, CacheHitStep, RetrieveStep, RerankStep, WorkspaceFailsStep
<1>5. CASE BuildSources
  BY <1>5, BuildSourcesStep
<1>6. CASE DropOrphans
  BY <1>6, DropOrphansStep
<1>7. CASE UNCHANGED retrievalVars
  <2>1. UNCHANGED <<validity, embedded, retrieval_cache, search, searchFaults, edits>>
    BY <1>7 DEF retrievalVars
  <2>2. RetrievalTypeOK' /\ CorpusSound' /\ CacheSound' /\ FailureIsTold'
    BY <2>1 DEF RetrievalInv, RetrievalTypeOK, CorpusSound, CacheSound, FailureIsTold, Alive,
       Embeddable, Keys, Scored, SearchStates
  <2>3. ASSUME search.phase = "searching" PROVE SearchingSound'
    BY <2>1, <2>3 DEF RetrievalInv, SearchingSound, ChunkSound, EffectiveSound, Pending, Anew, Alive,
       InScope, IdsFor
  <2>4. ASSUME search.phase = "sources" PROVE SourcesSound'
    BY <2>1, <2>4 DEF RetrievalInv, SourcesSound, Overtakes, Alive, InScope, IdsFor
  <2>5. ASSUME search.phase = "over" PROVE OverSound'
    BY <2>1, <2>5 DEF RetrievalInv, OverSound, Overtakes, InScope, IdsFor
  <2> QED BY <2>1, <2>2, <2>3, <2>4, <2>5 DEF RetrievalInv
<1> QED BY <1>1, <1>2, <1>3, <1>4, <1>5, <1>6, <1>7 DEF RetrievalNext

LEMMA HonestSearch == RetrievalInv => SearchIsHonest
<1> SUFFICES ASSUME RetrievalInv PROVE SearchIsHonest
  OBVIOUS
<1>1. SourcesExist /\ SupersededIsMarked /\ FailureIsTold
  BY DEF RetrievalInv, OverSound, SourcesExist, SupersededIsMarked
<1>2. ASSUME search.phase = "over", search.document_ids = {},
             NEW d \in Range(search.sources) \cap search.superseded0, NEW e \in Embeddable,
             validity[e] = "effective",
             {PlaceOf[d], PlaceOf[e]} \cap (search.hits \cup search.unsure \cup search.failed) = {},
             Cardinality(InScope(PlaceOf[e])) <= 2 * TopK,
             Relevance[d] < 2 * Relevance[e]
      PROVE  e \in Range(search.sources) /\ Position(e) < Position(d)
  <2>1. Leads(search.sources, e, d)
    BY <1>2 DEF RetrievalInv, OverSound, Overtakes
  <2>2. search.sources \in Seq(SearchDocs)
    BY DEF RetrievalInv, RetrievalTypeOK, SearchStates
  <2>3. /\ DOMAIN search.sources = 1..Len(search.sources)
        /\ \E i \in 1..Len(search.sources) : search.sources[i] = d
    BY <2>2, InSequence
  <2>4. Position(d) \in 1..Len(search.sources) /\ search.sources[Position(d)] = d
    BY <2>3 DEF Position
  <2>5. PICK q \in 1..Len(search.sources) : q < Position(d) /\ search.sources[q] = e
    BY <2>1, <2>4 DEF Leads
  <2>6. Position(e) \in 1..Len(search.sources) /\ search.sources[Position(e)] = e
    BY <2>3, <2>5 DEF Position
  <2>7. Position(e) = q
    BY <2>1, <2>5, <2>6 DEF Leads
  <2>8. e \in Range(search.sources)
    BY <2>2, <2>5, InSequence
  <2> QED BY <2>5, <2>7, <2>8
<1>3. EffectiveFirst
  BY <1>2 DEF EffectiveFirst
<1> QED BY <1>1, <1>3 DEF SearchIsHonest

\* The search's state is what the code can make of it, whatever is deleted,
\* superseded, cached or fails meanwhile (chat_agent.py, deep_retriever.py).
THEOREM RetrievalTyped == RetrievalSpec => []RetrievalTypeOK
<1>1. RetrievalInv => RetrievalTypeOK
  BY DEF RetrievalInv
<1> QED BY <1>1, RetrievalStart, RetrievalKeep, PTL DEF RetrievalSpec

\* A search over any number of workspaces names no document that was deleted before
\* it began, marks every source superseded by then, tells of a workspace that could
\* not be searched, and puts an effective document before a superseded one that is
\* less than twice as relevant, in workspaces searched anew.
THEOREM SearchesAreHonest == RetrievalSpec => []SearchIsHonest
<1> QED BY RetrievalStart, RetrievalKeep, HonestSearch, PTL DEF RetrievalSpec

-----------------------------------------------------------------------------
(* Figures.  What is numbered is numbered in order and without gaps.       *)

ItemRecords == [kind : Kind, page : Nat, rows : Seq(Nat \ {0}), captioned : BOOLEAN]

LEMMA ItemsTyped ==
    ASSUME items \in Documented
    PROVE  /\ items \in Seq(ItemRecords) /\ Len(items) \in Nat /\ DOMAIN items = 1..Len(items)
           /\ IsFiniteSet(DOMAIN items) /\ DOMAIN items \subseteq Nat
           /\ \A i \in DOMAIN items :
                 /\ items[i] \in ItemRecords
                 /\ items[i].kind = "table" <=> items[i].rows # <<>>
                 /\ items[i].captioned => items[i].kind = "picture"
<1>1. items \in Seq(ItemRecords)
  BY FiguresAssumption DEF ItemRecords
<1>2. Len(items) \in Nat /\ DOMAIN items = 1..Len(items) /\ \A i \in DOMAIN items : items[i] \in ItemRecords
  BY <1>1
<1>3. IsFiniteSet(DOMAIN items)
  BY <1>2, FS_Interval
<1>4. \A i \in DOMAIN items : /\ items[i].kind = "table" <=> items[i].rows # <<>>
                              /\ items[i].captioned => items[i].kind = "picture"
  BY FiguresAssumption
<1> QED BY <1>1, <1>2, <1>3, <1>4

UpTo(S, i) == {j \in S : j <= i}
RankIn(S, i) == Cardinality(UpTo(S, i))

LEMMA UpToFinite ==
    ASSUME NEW S \in SUBSET Nat, IsFiniteSet(S), NEW i
    PROVE  IsFiniteSet(UpTo(S, i)) /\ RankIn(S, i) \in Nat /\ RankIn(S, i) <= Cardinality(S)
<1>1. UpTo(S, i) \in SUBSET S
  BY DEF UpTo
<1>2. IsFiniteSet(UpTo(S, i)) /\ Cardinality(UpTo(S, i)) <= Cardinality(S)
  BY <1>1, FS_Subset
<1>3. Cardinality(UpTo(S, i)) \in Nat
  BY <1>2, FS_CardinalityType
<1> QED BY <1>2, <1>3 DEF RankIn

\* Who comes later has more before it.
LEMMA RankRises ==
    ASSUME NEW S \in SUBSET Nat, IsFiniteSet(S), NEW i \in S, NEW j \in S, i < j
    PROVE  RankIn(S, i) < RankIn(S, j)
<1>1. UpTo(S, i) \in SUBSET UpTo(S, j) /\ j \in UpTo(S, j) /\ j \notin UpTo(S, i)
  <2>1. i \in Nat /\ j \in Nat
    OBVIOUS
  <2>2. /\ \A h \in S : h <= i => h <= j
        /\ j <= j /\ ~(j <= i)
    BY <2>1
  <2>3. UpTo(S, i) \subseteq UpTo(S, j)
    BY <2>2 DEF UpTo
  <2> QED BY <2>2, <2>3 DEF UpTo
<1>2. IsFiniteSet(UpTo(S, j)) /\ RankIn(S, i) \in Nat /\ RankIn(S, j) \in Nat
  BY UpToFinite
<1>3. /\ Cardinality(UpTo(S, i)) <= Cardinality(UpTo(S, j))
      /\ Cardinality(UpTo(S, j)) = Cardinality(UpTo(S, i)) => UpTo(S, j) = UpTo(S, i)
  BY <1>1, <1>2, FS_Subset
<1>4. RankIn(S, i) # RankIn(S, j)
  BY <1>1, <1>3 DEF RankIn
<1> QED BY <1>2, <1>3, <1>4 DEF RankIn

LEMMA Ranks ==
    ASSUME NEW S \in SUBSET Nat, IsFiniteSet(S)
    PROVE  /\ \A i \in S : RankIn(S, i) \in 1..Cardinality(S)
           /\ \A i, j \in S : RankIn(S, i) = RankIn(S, j) => i = j
           /\ \A k \in 1..Cardinality(S) : \E i \in S : RankIn(S, i) = k
<1> DEFINE n == Cardinality(S)
           f == [i \in S |-> RankIn(S, i)]
<1>1. n \in Nat
  BY FS_CardinalityType
<1>2. IsFiniteSet(1..n) /\ Cardinality(1..n) = n
  BY <1>1, FS_Interval
<1>3. ASSUME NEW i \in S PROVE RankIn(S, i) \in 1..n
  <2>1. i \in UpTo(S, i)
    BY DEF UpTo
  <2>2. IsFiniteSet(UpTo(S, i)) /\ RankIn(S, i) \in Nat /\ RankIn(S, i) <= n
    BY UpToFinite
  <2>3. RankIn(S, i) # 0
    BY <2>1, <2>2, FS_EmptySet DEF RankIn
  <2> QED BY <1>1, <2>2, <2>3
<1>4. ASSUME NEW i \in S, NEW j \in S, RankIn(S, i) = RankIn(S, j) PROVE i = j
  <2>1. RankIn(S, i) \in Nat /\ i \in Nat /\ j \in Nat
    BY <1>1, <1>3
  <2>2. ~(i < j) /\ ~(j < i)
    BY <1>4, <2>1, RankRises
  <2> QED BY <2>1, <2>2
<1>5. f \in Injection(S, 1..n)
  <2>1. f \in [S -> 1..n]
    BY <1>3
  <2>2. \A i, j \in S : f[i] = f[j] => i = j
    BY <1>4
  <2> QED BY <2>1, <2>2 DEF Injection, IsInjective
<1>6. f \in Surjection(S, 1..n)
  BY <1>2, <1>5, FS_Injection
<1>7. \A k \in 1..n : \E i \in S : RankIn(S, i) = k
  BY <1>6 DEF Surjection
<1> QED BY <1>3, <1>4, <1>7

LEMMA ListedIs ==
    ASSUME NEW S \in SUBSET Nat, IsFiniteSet(S)
    PROVE  /\ Cardinality(S) \in Nat /\ Len(Listed(S)) = Cardinality(S)
           /\ Listed(S) \in Seq(S) /\ Listed(S) \in Seq(Nat) /\ DOMAIN Listed(S) = 1..Cardinality(S)
           /\ \A k \in 1..Cardinality(S) : Listed(S)[k] \in S /\ RankIn(S, Listed(S)[k]) = k
           /\ \A i \in S : RankIn(S, i) \in 1..Cardinality(S) /\ Listed(S)[RankIn(S, i)] = i
<1>1. Cardinality(S) \in Nat
  BY FS_CardinalityType
<1>2. Listed(S) = [k \in 1..Cardinality(S) |-> CHOOSE i \in S : RankIn(S, i) = k]
  BY DEF Listed, RankIn, UpTo
<1>3. \A k \in 1..Cardinality(S) : Listed(S)[k] \in S /\ RankIn(S, Listed(S)[k]) = k
  BY <1>2, Ranks
<1>4. DOMAIN Listed(S) = 1..Cardinality(S)
  BY <1>2
<1>5. Listed(S) \in Seq(S) /\ Listed(S) \in Seq(Nat) /\ Len(Listed(S)) = Cardinality(S)
  <2>1. Listed(S) \in [1..Cardinality(S) -> S] /\ Listed(S) \in [1..Cardinality(S) -> Nat]
    BY <1>2, <1>3
  <2> QED BY <1>1, <2>1
<1>6. ASSUME NEW i \in S PROVE RankIn(S, i) \in 1..Cardinality(S) /\ Listed(S)[RankIn(S, i)] = i
  <2>1. RankIn(S, i) \in 1..Cardinality(S)
    BY Ranks
  <2> DEFINE h == Listed(S)[RankIn(S, i)]
  <2>2. h \in S /\ RankIn(S, h) = RankIn(S, i) /\ RankIn(S, i) \in Nat
    BY <1>1, <1>3, <2>1
  <2> HIDE DEF h
  <2>4. h = i
    BY <2>2, Ranks
  <2> QED BY <2>1, <2>4 DEF h
<1> QED BY <1>1, <1>3, <1>4, <1>5, <1>6

\* How often a number is listed.
LEMMA ListedOnce ==
    ASSUME NEW S \in SUBSET Nat, IsFiniteSet(S), NEW i
    PROVE  {n \in DOMAIN Listed(S) : Listed(S)[n] = i} = IF i \in S THEN {RankIn(S, i)} ELSE {}
<1>1. CASE i \in S
  <2>1. RankIn(S, i) \in DOMAIN Listed(S) /\ Listed(S)[RankIn(S, i)] = i
    BY <1>1, ListedIs
  <2>2. \A n \in DOMAIN Listed(S) : Listed(S)[n] = i => n = RankIn(S, i)
    BY ListedIs
  <2> QED BY <1>1, <2>1, <2>2
<1>2. CASE i \notin S
  BY <1>2, ListedIs
<1> QED BY <1>1, <1>2

LEMMA LeastAndLast ==
    ASSUME NEW S \in SUBSET Nat, IsFiniteSet(S), S # {}
    PROVE  /\ \E i \in S : \A h \in S : i <= h
           /\ \E i \in S : \A h \in S : h <= i
<1> DEFINE n == Cardinality(S)
<1>1. n \in Nat /\ n # 0
  BY FS_CardinalityType, FS_EmptySet
<1> HIDE DEF n
<1>2. /\ \A i \in S : RankIn(S, i) \in 1..n
      /\ \A k \in 1..n : \E i \in S : RankIn(S, i) = k
  BY Ranks DEF n
<1>3. PICK first \in S : RankIn(S, first) = 1
  BY <1>1, <1>2
<1>4. PICK last \in S : RankIn(S, last) = n
  BY <1>1, <1>2
<1>5. \A h \in S : ~(h < first)
  <2>1. ASSUME NEW h \in S, h < first PROVE FALSE
    <3>1. RankIn(S, h) < 1 /\ RankIn(S, h) \in 1..n
      BY <1>2, <1>3, <2>1, RankRises
    <3> QED BY <1>1, <3>1
  <2> QED BY <2>1
<1>6. \A h \in S : ~(last < h)
  <2>1. ASSUME NEW h \in S, last < h PROVE FALSE
    <3>1. n < RankIn(S, h) /\ RankIn(S, h) \in 1..n
      BY <1>2, <1>4, <2>1, RankRises
    <3> QED BY <1>1, <3>1
  <2> QED BY <2>1
<1>7. \A h \in S : first <= h /\ h <= last
  BY <1>5, <1>6
<1> QED BY <1>7

\* A table takes one of its rows that a caption goes by and nobody has taken.
LEMMA RowIs ==
    ASSUME items \in Documented, NEW i \in DOMAIN items, NEW used
    PROVE  /\ RowTaken(i, used) \in Nat
           /\ RowTaken(i, used) # 0 =>
                 RowTaken(i, used) \in (Range(items[i].rows) \cap TableKeys) \ used
<1> DEFINE rows == items[i].rows
           left == {r \in DOMAIN rows : rows[r] \in TableKeys \ used}
           least == CHOOSE r \in left : \A h \in left : r <= h
<1>1. rows \in Seq(Nat \ {0})
  BY ItemsTyped DEF ItemRecords
<1>2. DOMAIN rows = 1..Len(rows) /\ Len(rows) \in Nat /\ \A r \in DOMAIN rows : rows[r] \in Nat
  BY <1>1
<1>3. RowTaken(i, used) = IF left = {} THEN 0 ELSE rows[least]
  BY DEF RowTaken
<1>4. CASE left = {}
  BY <1>3, <1>4
<1>5. CASE left # {}
  <2>1. IsFiniteSet(DOMAIN rows) /\ left \in SUBSET (DOMAIN rows) /\ left \in SUBSET Nat
    BY <1>2, FS_Interval
  <2>2. IsFiniteSet(left)
    BY <2>1, FS_Subset
  <2> HIDE DEF left
  <2>3. \E r \in left : \A h \in left : r <= h
    BY <1>5, <2>1, <2>2, LeastAndLast
  <2>4. least \in left
    BY <2>3
  <2> HIDE DEF least
  <2>5. least \in DOMAIN rows /\ rows[least] \in TableKeys \ used
    BY <2>4 DEF left
  <2> QED BY <1>2, <1>3, <1>5, <2>5 DEF Range
<1> QED BY <1>4, <1>5

\* What the first k items take.
TakenByFirst(k, g) == \A i \in 1..k : g[i] = RowTaken(i, {g[j] : j \in 1..i-1})
FirstTake(k) == \E g \in [1..k -> Nat] : TakenByFirst(k, g)

LEMMA FirstTakeNext ==
    ASSUME items \in Documented, NEW k \in Nat, k + 1 \in DOMAIN items, FirstTake(k)
    PROVE  FirstTake(k + 1)
<1>1. PICK g \in [1..k -> Nat] : TakenByFirst(k, g)
  BY DEF FirstTake
<1> DEFINE next == RowTaken(k + 1, {g[j] : j \in 1..k})
           h == [i \in 1..(k + 1) |-> IF i = k + 1 THEN next ELSE g[i]]
<1>2. next \in Nat
  BY RowIs
<1> HIDE DEF next
<1>3. h \in [1..(k + 1) -> Nat]
  BY <1>2
<1>4. ASSUME NEW i \in 1..(k + 1) PROVE h[i] = RowTaken(i, {h[j] : j \in 1..i-1})
  <2>1. \A j \in 1..i-1 : h[j] = g[j]
    OBVIOUS
  <2>2. {h[j] : j \in 1..i-1} = {g[j] : j \in 1..i-1}
    BY <2>1, Zenon
  <2>3. CASE i = k + 1
    <3>1. i - 1 = k
      BY <2>3
    <3>2. h[i] = next
      BY <2>3
    <3> QED BY <2>2, <2>3, <3>1, <3>2 DEF next
  <2>4. CASE i # k + 1
    <3>1. i \in 1..k /\ h[i] = g[i]
      BY <2>4
    <3>2. g[i] = RowTaken(i, {g[j] : j \in 1..i-1})
      BY <1>1, <3>1 DEF TakenByFirst
    <3> QED BY <2>2, <3>1, <3>2
  <2> QED BY <2>3, <2>4
<1> HIDE DEF h
<1>5. TakenByFirst(k + 1, h)
  BY <1>4, Zenon DEF TakenByFirst
<1> QED BY <1>3, <1>5 DEF FirstTake

LEMMA TakenIs ==
    ASSUME items \in Documented
    PROVE  /\ DOMAIN Taken = DOMAIN items
           /\ \A i \in DOMAIN items : Taken[i] = RowTaken(i, {Taken[j] : j \in 1..i-1})
<1> DEFINE n == Len(items)
           S == {k \in Nat : k > n \/ FirstTake(k)}
           IsKey(g) == g = [i \in DOMAIN items |-> RowTaken(i, {g[j] : j \in 1..i-1})]
           key == CHOOSE g : IsKey(g)
<1>1. n \in Nat /\ DOMAIN items = 1..n
  BY ItemsTyped
<1> HIDE DEF n
<1>2. 0 \in S
  <2>1. <<>> \in [1..0 -> Nat] /\ TakenByFirst(0, <<>>)
    BY DEF TakenByFirst
  <2> QED BY <2>1 DEF FirstTake
<1>3. ASSUME NEW k \in Nat, k \in S PROVE k + 1 \in S
  <2>1. CASE k + 1 > n
    BY <2>1
  <2>2. CASE k + 1 <= n
    <3>1. k + 1 \in DOMAIN items /\ FirstTake(k)
      BY <1>1, <1>3, <2>2
    <3>2. FirstTake(k + 1)
      BY <3>1, FirstTakeNext
    <3> QED BY <3>2
  <2> QED BY <1>1, <2>1, <2>2
<1> HIDE DEF S
<1>4. n \in S
  BY <1>1, <1>2, <1>3, SetInduction
<1>5. FirstTake(n)
  BY <1>1, <1>4 DEF S
<1>6. PICK g \in [1..n -> Nat] : TakenByFirst(n, g)
  BY <1>5 DEF FirstTake
<1>7. g = [i \in 1..n |-> g[i]]
  OBVIOUS
<1>8. \A i \in 1..n : g[i] = RowTaken(i, {g[j] : j \in 1..i-1})
  BY <1>6 DEF TakenByFirst
<1>9. [i \in 1..n |-> g[i]] = [i \in 1..n |-> RowTaken(i, {g[j] : j \in 1..i-1})]
  BY <1>8, Zenon
<1>10. IsKey(g)
  BY <1>1, <1>7, <1>9, Zenon
<1>11. Taken = key
  BY DEF Taken
<1> HIDE DEF IsKey
<1>12. IsKey(key)
  BY <1>10
<1> HIDE DEF key
<1>13. IsKey(Taken)
  BY <1>11, <1>12
<1> QED BY <1>13, Zenon DEF IsKey

LEMMA OfFinite ==
    ASSUME items \in Documented, NEW S \in SUBSET (DOMAIN items)
    PROVE  S \in SUBSET Nat /\ IsFiniteSet(S)
  BY ItemsTyped, FS_Subset

\* Whose caption is it that is written after an item.
NoteFits(i, j) == j \in tables \cap captions /\ Head(items[j].rows) \in Range(items[i].rows)

LEMMA CaptionForIs ==
    ASSUME items \in Documented, tables \subseteq Of("table"), NEW i \in DOMAIN items
    PROVE  \/ CaptionFor(i) = <<>>
           \/ \E j \in DOMAIN items : /\ CaptionFor(i) = <<j>> /\ NoteFits(i, j)
                                      /\ Taken[i] # 0 /\ Head(items[j].rows) = Taken[i]
<1> DEFINE named == {j \in tables \cap captions : Head(items[j].rows) = Taken[i]}
           last == CHOOSE j \in named : \A h \in named : h <= j
<1>1. CaptionFor(i) = IF Taken[i] = 0 THEN <<>> ELSE <<last>>
  BY DEF CaptionFor
<1>2. CASE Taken[i] = 0
  BY <1>1, <1>2
<1>3. CASE Taken[i] # 0
  <2>1. Taken[i] \in Range(items[i].rows) /\ Taken[i] \in TableKeys
    <3> DEFINE used == {Taken[j] : j \in 1..i-1}
    <3>1. Taken[i] = RowTaken(i, used)
      BY TakenIs
    <3> HIDE DEF used
    <3> QED BY <1>3, <3>1, RowIs
  <2>2. named # {}
    BY <2>1 DEF TableKeys
  <2>3. named \in SUBSET (DOMAIN items)
    BY DEF Of
  <2>4. named \in SUBSET Nat /\ IsFiniteSet(named)
    BY <2>3, OfFinite
  <2> HIDE DEF named
  <2>5. \E j \in named : \A h \in named : h <= j
    BY <2>2, <2>4, LeastAndLast
  <2>6. last \in named
    BY <2>5
  <2> HIDE DEF last
  <2>7. last \in tables \cap captions /\ Head(items[last].rows) = Taken[i]
    BY <2>6 DEF named
  <2> QED BY <1>1, <1>3, <2>1, <2>3, <2>6, <2>7 DEF NoteFits
<1> QED BY <1>2, <1>3

\* What a table took none after it takes.
LEMMA TakenOnce ==
    ASSUME items \in Documented, NEW i \in DOMAIN items, NEW h \in DOMAIN items,
           Taken[i] = Taken[h], Taken[i] # 0
    PROVE  i = h
<1>1. ASSUME NEW a \in DOMAIN items, NEW b \in DOMAIN items, a < b, Taken[b] # 0
      PROVE  Taken[a] # Taken[b]
  <2> DEFINE used == {Taken[j] : j \in 1..b-1}
  <2>1. Taken[b] = RowTaken(b, used)
    BY TakenIs
  <2>2. a \in 1..b-1
    BY <1>1, ItemsTyped
  <2>3. Taken[a] \in used
    BY <2>2
  <2> HIDE DEF used
  <2>4. Taken[b] \notin used
    BY <1>1, <2>1, RowIs
  <2> QED BY <2>3, <2>4
<1>2. i \in Nat /\ h \in Nat
  BY ItemsTyped
<1>3. ~(i < h) /\ ~(h < i)
  BY <1>1
<1> QED BY <1>2, <1>3

\* The placeholder of a picture gets the entry of that picture.
LEMMA InjectedIs ==
    ASSUME items \in Documented, NEW saved \in SUBSET Of("picture")
    PROVE  LET md == Injected(PicUrls(saved)) IN
              /\ DOMAIN md = DOMAIN items
              /\ \A i \in DOMAIN items :
                    md[i] = [shows |-> IF i \in saved THEN i ELSE 0, notes |-> <<>>]
<1> DEFINE P == Of("picture")
           L == Listed(P)
           urls == PicUrls(saved)
           md == Injected(urls)
<1>1. P \in SUBSET (DOMAIN items)
  BY DEF Of
<1>2. P \in SUBSET Nat /\ IsFiniteSet(P)
  BY <1>1, OfFinite
<1>3. urls = [k \in DOMAIN L |-> IF L[k] \in saved THEN L[k] ELSE 0]
  BY DEF PicUrls
<1>4. md = [i \in DOMAIN items |->
              [shows |-> IF i \in P /\ RankIn(P, i) <= Len(urls) THEN urls[RankIn(P, i)] ELSE 0,
               notes |-> <<>>]]
  BY DEF Injected, RankIn, UpTo
<1>5. saved \subseteq P
  OBVIOUS
<1> HIDE DEF P, md
<1>6. /\ DOMAIN L = 1..Cardinality(P) /\ Cardinality(P) \in Nat
      /\ \A i \in P : RankIn(P, i) \in 1..Cardinality(P) /\ L[RankIn(P, i)] = i
  BY <1>2, ListedIs
<1> HIDE DEF L, urls
<1>7. Len(urls) = Cardinality(P)
  BY <1>3, <1>6
<1>8. ASSUME NEW i \in DOMAIN items
      PROVE  md[i] = [shows |-> IF i \in saved THEN i ELSE 0, notes |-> <<>>]
  <2>1. CASE i \in P
    <3>1. RankIn(P, i) \in DOMAIN L /\ RankIn(P, i) <= Len(urls) /\ L[RankIn(P, i)] = i
      BY <1>6, <1>7, <2>1
    <3>2. urls[RankIn(P, i)] = IF i \in saved THEN i ELSE 0
      BY <1>3, <3>1
    <3> QED BY <1>4, <2>1, <3>1, <3>2
  <2>2. CASE i \notin P
    BY <1>4, <1>5, <2>2
  <2> QED BY <2>1, <2>2
<1>9. DOMAIN md = DOMAIN items
  BY <1>4
<1> QED BY <1>8, <1>9 DEF md, urls

\* Two lists, one after the other: how often a number is in them.
Times(l, i) == Cardinality({n \in DOMAIN l : l[n] = i})

LEMMA ListedTwice ==
    ASSUME NEW A \in SUBSET Nat, IsFiniteSet(A), NEW B \in SUBSET Nat, IsFiniteSet(B),
           NEW i \in B
    PROVE  Times(Listed(A) \o Listed(B), i) = IF i \in A THEN 2 ELSE 1
<1> DEFINE a == Listed(A)
           b == Listed(B)
           l == a \o b
           m == Cardinality(A)
           p == Cardinality(B)
           ra == RankIn(A, i)
           rb == RankIn(B, i)
           at == {n \in DOMAIN l : l[n] = i}
<1>1. /\ m \in Nat /\ Len(a) = m /\ a \in Seq(Nat) /\ DOMAIN a = 1..m
      /\ i \in A => ra \in 1..m
      /\ \A n \in 1..m : a[n] = i <=> i \in A /\ n = ra
  <2>1. m \in Nat /\ Len(a) = m /\ a \in Seq(Nat) /\ DOMAIN a = 1..m
    BY ListedIs
  <2>2. i \in A => ra \in 1..m
    BY ListedIs
  <2>3. {n \in DOMAIN a : a[n] = i} = IF i \in A THEN {ra} ELSE {}
    BY ListedOnce
  <2> HIDE DEF a, m, ra
  <2>4. \A n \in 1..m : a[n] = i <=> i \in A /\ n = ra
    BY <2>1, <2>3
  <2> QED BY <2>1, <2>2, <2>4
<1>2. /\ p \in Nat /\ Len(b) = p /\ b \in Seq(Nat) /\ DOMAIN b = 1..p
      /\ rb \in 1..p
      /\ \A n \in 1..p : b[n] = i <=> n = rb
  <2>1. p \in Nat /\ Len(b) = p /\ b \in Seq(Nat) /\ DOMAIN b = 1..p
    BY ListedIs
  <2>2. rb \in 1..p
    BY ListedIs
  <2>3. {n \in DOMAIN b : b[n] = i} = {rb}
    BY ListedOnce
  <2> HIDE DEF b, p, rb
  <2>4. \A n \in 1..p : b[n] = i <=> n = rb
    BY <2>1, <2>3
  <2> QED BY <2>1, <2>2, <2>4
<1> HIDE DEF a, b, m, p, ra, rb
<1>3. /\ DOMAIN l = 1..(m + p)
      /\ \A n \in 1..(m + p) : l[n] = IF n <= m THEN a[n] ELSE b[n - m]
  <2>1. a \in Seq(Nat) /\ b \in Seq(Nat)
    BY <1>1, <1>2
  <2>2. /\ Len(l) = Len(a) + Len(b) /\ l \in Seq(Nat)
        /\ \A n \in 1..Len(a) + Len(b) : l[n] = IF n <= Len(a) THEN a[n] ELSE b[n - Len(a)]
    BY <2>1, ConcatProperties
  <2> HIDE DEF l
  <2>3. DOMAIN l = 1..Len(l)
    BY <2>2
  <2> QED BY <1>1, <1>2, <2>2, <2>3
<1>4. ASSUME NEW n \in 1..(m + p)
      PROVE  l[n] = i <=> (i \in A /\ n = ra) \/ n = m + rb
  <2> HIDE DEF l
  <2>1. CASE n <= m
    <3>1. n \in 1..m /\ l[n] = a[n] /\ n # m + rb
      BY <1>1, <1>2, <1>3, <2>1
    <3> QED BY <1>1, <3>1
  <2>2. CASE ~(n <= m)
    <3>1. n - m \in 1..p /\ (n - m = rb <=> n = m + rb)
      BY <1>1, <1>2, <2>2
    <3>2. l[n] = b[n - m]
      BY <1>3, <2>2
    <3>3. i \in A => n # ra
      BY <1>1, <2>2
    <3> QED BY <1>2, <3>1, <3>2, <3>3
  <2> QED BY <2>1, <2>2
<1> HIDE DEF l
<1>5. m + rb \in 1..(m + p) /\ (i \in A => ra \in 1..(m + p) /\ ra # m + rb)
  BY <1>1, <1>2
<1>6. at = {n \in 1..(m + p) : (i \in A /\ n = ra) \/ n = m + rb}
  BY <1>3, <1>4
<1> HIDE DEF at
<1>7. Cardinality(at) = IF i \in A THEN 2 ELSE 1
  <2> DEFINE last == m + rb
  <2> HIDE DEF last
  <2>1. IsFiniteSet({last}) /\ Cardinality({last}) = 1
    BY FS_Singleton
  <2>2. CASE i \in A
    <3>1. at = {last} \cup {ra} /\ ra \notin {last}
      BY <1>5, <1>6, <2>2 DEF last
    <3>2. Cardinality(at) = Cardinality({last}) + 1
      BY <2>1, <3>1, FS_AddElement
    <3> QED BY <2>1, <2>2, <3>2
  <2>3. CASE i \notin A
    <3>1. at = {last}
      BY <1>5, <1>6, <2>3 DEF last
    <3> QED BY <2>1, <2>3, <3>1
  <2> QED BY <2>2, <2>3
<1> QED BY <1>7 DEF Times, at, l, a, b

\* The chunks begin with an item that is read.
LEMMA WindowsAre ==
    ASSUME items \in Documented, NEW w \in Windows
    PROVE  /\ \E m \in Nat : DOMAIN w = 1..m
           /\ \A k \in DOMAIN w : Readable[w[k][1]] \in DOMAIN items
<1> DEFINE rest == DOMAIN items \ Of("picture")
           n == Len(Readable)
           Ends(s, k) == IF k = Len(s) THEN n ELSE s[k+1] - 1
           Pieces(s) == [k \in DOMAIN s |-> <<s[k], Ends(s, k)>>]
           cuts == {Listed({1} \cup cut) : cut \in SUBSET (2..n)}
<1>1. rest \in SUBSET (DOMAIN items) /\ rest \in SUBSET Nat /\ IsFiniteSet(rest)
  <2>1. rest \in SUBSET (DOMAIN items)
    OBVIOUS
  <2> QED BY <2>1, OfFinite
<1>2. n \in Nat /\ \A k \in 1..n : Readable[k] \in DOMAIN items
  BY <1>1, ListedIs DEF Readable
<1>3. CASE n = 0
  <2>1. w = <<>>
    BY <1>3 DEF Windows
  <2>2. DOMAIN w = 1..0
    BY <2>1
  <2>3. 0 \in Nat /\ 1..0 = {}
    OBVIOUS
  <2> QED BY <2>2, <2>3
<1>4. CASE n # 0
  <2>1. Windows = {v \in {Pieces(s) : s \in cuts} :
                     \A k \in DOMAIN v : v[k][2] - v[k][1] < MaxItems}
    BY <1>4 DEF Windows
  <2>2. w \in {Pieces(s) : s \in cuts}
    BY <2>1
  <2>3. PICK s \in cuts : w = Pieces(s)
    BY <2>2
  <2>4. PICK cut \in SUBSET (2..n) : s = Listed({1} \cup cut)
    BY <2>3
  <2> DEFINE S == {1} \cup cut
  <2>5. S \in SUBSET (1..n) /\ S \in SUBSET Nat
    BY <1>2, <1>4
  <2>6. IsFiniteSet(S)
    <3>1. IsFiniteSet(1..n)
      BY <1>2, FS_Interval
    <3> HIDE DEF S
    <3> QED BY <2>5, <3>1, FS_Subset
  <2>7. s = Listed(S)
    BY <2>4
  <2> HIDE DEF S, n
  <2>8. /\ Cardinality(S) \in Nat /\ DOMAIN s = 1..Cardinality(S)
        /\ \A k \in DOMAIN s : s[k] \in 1..n
    BY <2>5, <2>6, <2>7, ListedIs
  <2> HIDE DEF Ends
  <2>9. DOMAIN w = DOMAIN s /\ \A k \in DOMAIN s : w[k] = <<s[k], Ends(s, k)>>
    BY <2>3
  <2> HIDE DEF Pieces, cuts
  <2>10. \A k \in DOMAIN w : w[k][1] \in 1..n
    <3>1. ASSUME NEW k \in DOMAIN w PROVE w[k][1] \in 1..n
      <4>1. k \in DOMAIN s /\ w[k] = <<s[k], Ends(s, k)>>
        BY <2>9
      <4>2. w[k][1] = s[k]
        BY <4>1
      <4> QED BY <2>8, <4>1, <4>2
    <3> QED BY <3>1
  <2>11. \A k \in DOMAIN w : Readable[w[k][1]] \in DOMAIN items
    BY <1>2, <2>10
  <2> QED BY <2>8, <2>9, <2>11
<1> QED BY <1>3, <1>4

ChunkRecords ==
    [page : Nat, images : SUBSET Nat, tables : SUBSET Nat, captions : Seq(Nat)]

Begins(chunks, page) == {k \in DOMAIN chunks : chunks[k].page = page}
Owners(chunks, i) == {k \in DOMAIN chunks : i \in chunks[k].images \cup chunks[k].tables}

\* Chunks of these pictures and tables: each of them has one chunk at most.
OwnedChunks(chunks, saved, tabled) ==
    /\ chunks \in [DOMAIN chunks -> ChunkRecords]
    /\ \A k \in DOMAIN chunks : /\ chunks[k].images \subseteq saved
                                /\ chunks[k].tables \subseteq tabled
    /\ \A i \in saved \cup tabled :
          /\ Cardinality(Owners(chunks, i)) <= 1
          /\ Owners(chunks, i) \subseteq Begins(chunks, items[i].page)
          /\ Owners(chunks, i) = {} => Begins(chunks, items[i].page) = {}

LEMMA ChunkedIs ==
    ASSUME items \in Documented, NEW w \in Windows,
           NEW saved \in SUBSET Of("picture"), NEW tabled \in SUBSET Of("table")
    PROVE  OwnedChunks(Chunked(w, saved, tabled), saved, tabled)
<1> DEFINE chunks == Chunked(w, saved, tabled)
           page(k) == items[Readable[w[k][1]]].page
           firstOf(k) == \A j \in 1..k-1 : page(j) # page(k)
           own(k, S) == IF firstOf(k) THEN On(S, page(k)) ELSE {}
<1>1. PICK m \in Nat : DOMAIN w = 1..m
  BY WindowsAre
<1>2. \A k \in 1..m : page(k) \in Nat
  <2>1. ASSUME NEW k \in 1..m PROVE page(k) \in Nat
    <3>1. Readable[w[k][1]] \in DOMAIN items
      BY <1>1, WindowsAre
    <3> QED BY <3>1, ItemsTyped DEF ItemRecords
  <2> QED BY <2>1
<1>3. saved \in SUBSET (DOMAIN items) /\ tabled \in SUBSET (DOMAIN items)
  BY DEF Of
<1>4. DOMAIN chunks = 1..m /\ \A k \in 1..m :
          chunks[k] = [page |-> page(k), images |-> own(k, saved), tables |-> own(k, tabled),
                       captions |-> Listed({i \in own(k, saved) : items[i].captioned})]
  BY <1>1 DEF Chunked
<1>11. chunks = [k \in DOMAIN chunks |-> chunks[k]]
  BY DEF Chunked
<1> HIDE DEF page, chunks
<1>5. ASSUME NEW k \in 1..m PROVE own(k, saved) \subseteq saved /\ own(k, tabled) \subseteq tabled
  BY DEF On
<1>6. ASSUME NEW k \in 1..m PROVE chunks[k] \in ChunkRecords
  <2> DEFINE C == {i \in own(k, saved) : items[i].captioned}
  <2>1. C \in SUBSET (DOMAIN items)
    BY <1>3, <1>5
  <2>2. C \in SUBSET Nat /\ IsFiniteSet(C)
    BY <2>1, OfFinite
  <2>3. Listed(C) \in Seq(Nat)
    BY <2>2, ListedIs
  <2> HIDE DEF C
  <2>4. own(k, saved) \in SUBSET Nat /\ own(k, tabled) \in SUBSET Nat
    BY <1>3, <1>5, OfFinite
  <2> HIDE DEF own
  <2>5. chunks[k] = [page |-> page(k), images |-> own(k, saved), tables |-> own(k, tabled),
                     captions |-> Listed(C)]
    BY <1>4 DEF C
  <2> QED BY <1>2, <2>3, <2>4, <2>5 DEF ChunkRecords
<1>7. chunks \in [DOMAIN chunks -> ChunkRecords]
  BY <1>4, <1>6, <1>11
<1> HIDE DEF own
<1>8. \A k \in 1..m : /\ chunks[k].page = page(k)
                      /\ chunks[k].images = own(k, saved) /\ chunks[k].tables = own(k, tabled)
  <2>1. ASSUME NEW k \in 1..m
        PROVE  /\ chunks[k].page = page(k)
               /\ chunks[k].images = own(k, saved) /\ chunks[k].tables = own(k, tabled)
    <3> DEFINE c == Listed({i \in own(k, saved) : items[i].captioned})
    <3>1. chunks[k] = [page |-> page(k), images |-> own(k, saved), tables |-> own(k, tabled),
                       captions |-> c]
      BY <1>4
    <3> HIDE DEF c
    <3> QED BY <3>1
  <2> QED BY <2>1
<1>9. \A k \in DOMAIN chunks : chunks[k].images \subseteq saved /\ chunks[k].tables \subseteq tabled
  BY <1>4, <1>5, <1>8
<1>10. ASSUME NEW i \in saved \cup tabled
       PROVE  LET owners == Owners(chunks, i)
                  begins == Begins(chunks, items[i].page)
              IN /\ Cardinality(owners) <= 1 /\ owners \subseteq begins
                 /\ owners = {} => begins = {}
  <2> DEFINE owners == Owners(chunks, i)
             begins == Begins(chunks, items[i].page)
  <2>1. begins = {k \in 1..m : page(k) = items[i].page}
    BY <1>4, <1>8 DEF Begins
  <2>2. ASSUME NEW k \in 1..m
        PROVE  i \in own(k, saved) \cup own(k, tabled) <=> firstOf(k) /\ page(k) = items[i].page
    BY DEF On, own
  <2>3. owners = {k \in 1..m : i \in own(k, saved) \cup own(k, tabled)}
    BY <1>4, <1>8 DEF Owners
  <2>4. owners = {k \in 1..m : firstOf(k) /\ page(k) = items[i].page}
    BY <2>2, <2>3
  <2>5. begins \in SUBSET (1..m) /\ begins \in SUBSET Nat /\ owners \subseteq begins
    BY <2>1, <2>4
  <2>6. IsFiniteSet(begins)
    <3>1. IsFiniteSet(1..m)
      BY <1>1, FS_Interval
    <3> HIDE DEF begins
    <3> QED BY <2>5, <3>1, FS_Subset
  <2> HIDE DEF owners, begins
  <2>7. ASSUME begins # {} PROVE owners # {} /\ Cardinality(owners) <= 1
    <3>1. PICK k \in begins : \A h \in begins : k <= h
      BY <2>5, <2>6, <2>7, LeastAndLast
    <3>2. k \in 1..m /\ page(k) = items[i].page
      BY <2>1, <3>1
    <3>3. firstOf(k)
      <4>1. ASSUME NEW j \in 1..k-1, page(j) = page(k) PROVE FALSE
        <5>1. j \in 1..m /\ ~(k <= j)
          BY <1>1, <3>2
        <5> QED BY <2>1, <3>1, <3>2, <4>1, <5>1
      <4> QED BY <4>1
    <3>4. ASSUME NEW h \in owners PROVE h = k
      <4>1. h \in 1..m /\ firstOf(h) /\ page(h) = page(k) /\ k <= h
        BY <2>4, <2>5, <3>1, <3>2
      <4>2. k \notin 1..h-1
        BY <4>1
      <4> QED BY <3>2, <4>1, <4>2
    <3>5. owners = {k}
      BY <2>4, <3>2, <3>3, <3>4
    <3>6. Cardinality(owners) = 1
      BY <3>5, FS_Singleton
    <3> QED BY <3>5, <3>6
  <2>8. CASE begins = {}
    <3>1. owners = {}
      BY <2>5, <2>8
    <3>2. Cardinality(owners) = 0
      BY <3>1, FS_EmptySet
    <3> QED BY <2>8, <3>1, <3>2 DEF owners, begins
  <2> QED BY <2>5, <2>7, <2>8 DEF owners, begins
<1> QED BY <1>7, <1>9, <1>10 DEF OwnedChunks, chunks

-----------------------------------------------------------------------------
(* The invariant.  What is asked for is what has no caption yet; without a  *)
(* fault what was asked for has one when the run goes on; and a run that    *)
(* has not come to the markdown may still add one caption to each item.     *)

FigureStages == {"converted", "queued", "done"} \cup CaptionStages
TaskStates == {"waiting", "asked", "captioned", "failed"}

FiguresShape ==
    /\ items \in Documented /\ figureStage \in FigureStages
    /\ images \subseteq Of("picture") /\ tables \subseteq Of("table")
    /\ captions \subseteq images \cup tables
    /\ figureFaults \in Nat /\ captionRuns \in Nat /\ captionRuns <= MaxCaptionRuns

AskedFor ==
    IF figureStage = "images" THEN images \ captions
    ELSE IF figureStage = "tables" THEN tables \ captions ELSE {}

TasksFit ==
    /\ asking \in [AskedFor -> TaskStates]
    /\ Cardinality(InCall) <= CaptionSlots
    /\ figureFaults = 0 => \A i \in DOMAIN asking : asking[i] # "failed"

NothingYet ==
    figureStage = "converted" =>
        images = {} /\ tables = {} /\ markdown = <<>> /\ figureChunks = <<>> /\ captionRuns = 0

MarkdownFits ==
    figureStage # "converted" =>
        markdown \in [DOMAIN items -> [shows : Nat, notes : Seq(DOMAIN items)]]

RunPending == IF figureStage \in {"images", "tables", "markdown"} THEN 1 ELSE 0

NotesFit ==
    /\ \A i \in DOMAIN markdown :
          /\ Len(markdown[i].notes) + RunPending <= captionRuns
          /\ \A j \in Range(markdown[i].notes) : NoteFits(i, j)
    /\ \A j \in DOMAIN items : Cardinality(Noted(j)) + RunPending <= captionRuns

ChunksFit ==
    /\ figureChunks \in [DOMAIN figureChunks -> ChunkRecords]
    /\ \A k \in DOMAIN figureChunks : /\ figureChunks[k].images \subseteq images
                                      /\ figureChunks[k].tables \subseteq tables

AskedInTurn ==
    figureFaults = 0 =>
        /\ figureStage \in {"tables", "markdown", "chunks"} => images \subseteq captions
        /\ figureStage \in {"markdown", "chunks"} => tables \subseteq captions

FiguresInv ==
    /\ FiguresShape /\ TasksFit /\ NothingYet /\ MarkdownFits /\ PicturesInPlace /\ NotesFit
    /\ ChunksFit /\ FiguresAssigned /\ AskedInTurn /\ CaptionsSearchable

LEMMA NothingInCall == ASSUME asking = <<>> PROVE Cardinality(InCall) = 0
<1>1. InCall = {}
  BY DEF InCall
<1> QED BY <1>1, FS_EmptySet

LEMMA FiguresStart == FiguresInit => FiguresInv
<1> SUFFICES ASSUME FiguresInit PROVE FiguresInv
  OBVIOUS
<1> USE DEF FiguresInit
<1>1. FiguresShape
  BY FiguresAssumption DEF FiguresShape, FigureStages
<1>2. TasksFit
  <2>1. AskedFor = {}
    BY DEF AskedFor
  <2>2. Cardinality(InCall) = 0 /\ CaptionSlots \in Nat
    BY NothingInCall, FiguresAssumption
  <2> QED BY <2>1, <2>2 DEF TasksFit
<1>3. NotesFit
  <2>1. \A j : Noted(j) = {}
    BY DEF Noted
  <2>2. \A j : Cardinality(Noted(j)) = 0
    BY <2>1, FS_EmptySet
  <2> QED BY <2>2 DEF NotesFit, RunPending
<1>4. NothingYet /\ MarkdownFits /\ PicturesInPlace
  BY DEF NothingYet, MarkdownFits, PicturesInPlace
<1>5. ChunksFit /\ FiguresAssigned /\ AskedInTurn /\ CaptionsSearchable
  BY DEF ChunksFit, FiguresAssigned, AskedInTurn, CaptionsSearchable
<1> QED BY <1>1, <1>2, <1>3, <1>4, <1>5 DEF FiguresInv

LEMMA CallsFinite ==
    ASSUME FiguresShape, TasksFit
    PROVE  /\ DOMAIN asking = AskedFor /\ AskedFor \subseteq DOMAIN items
           /\ IsFiniteSet(InCall) /\ Cardinality(InCall) \in Nat
<1>1. DOMAIN asking = AskedFor /\ AskedFor \in SUBSET (DOMAIN items)
  BY DEF FiguresShape, TasksFit, AskedFor, Of
<1>2. InCall \in SUBSET (DOMAIN items)
  BY <1>1 DEF InCall
<1>3. IsFiniteSet(InCall)
  BY <1>2, OfFinite DEF FiguresShape
<1> QED BY <1>1, <1>3, FS_CardinalityType

-----------------------------------------------------------------------------
(* What a step leaves as it was.                                           *)

LEMMA RoomLeft ==
    ASSUME NEW n \in Nat, NEW a \in Nat, NEW b \in Nat, NEW p \in {0, 1}, NEW q \in {0, 1},
           b - q >= a - p, n + p <= a
    PROVE  n + q <= b
  OBVIOUS

LEMMA MarkdownStays ==
    ASSUME FiguresShape, NothingYet, MarkdownFits, PicturesInPlace, NotesFit,
           UNCHANGED <<items, images, tables, markdown>>, captions \subseteq captions',
           figureStage # "converted", figureStage' # "converted",
           captionRuns \in Nat, captionRuns' \in Nat,
           captionRuns' - RunPending' >= captionRuns - RunPending
    PROVE  NothingYet' /\ MarkdownFits' /\ PicturesInPlace' /\ NotesFit'
<1>1. NothingYet' /\ MarkdownFits' /\ PicturesInPlace'
  BY DEF NothingYet, MarkdownFits, PicturesInPlace
<1>2. RunPending \in {0, 1} /\ RunPending' \in {0, 1}
  BY DEF RunPending
<1>3. \A i, j : NoteFits(i, j) => NoteFits(i, j)'
  BY DEF NoteFits
<1>4. ASSUME NEW i \in DOMAIN markdown
      PROVE  /\ Len(markdown[i].notes) + RunPending' <= captionRuns'
             /\ \A j \in Range(markdown[i].notes) : NoteFits(i, j)'
  <2>1. markdown[i].notes \in Seq(DOMAIN items)
    BY DEF MarkdownFits
  <2>2. Len(markdown[i].notes) \in Nat
    BY <2>1
  <2>3. Len(markdown[i].notes) + RunPending <= captionRuns
    BY DEF NotesFit
  <2>4. \A j \in Range(markdown[i].notes) : NoteFits(i, j)
    BY DEF NotesFit
  <2>5. Len(markdown[i].notes) + RunPending' <= captionRuns'
    BY <1>2, <2>2, <2>3, RoomLeft
  <2> QED BY <1>3, <2>4, <2>5
<1>5. ASSUME NEW j \in DOMAIN items PROVE Cardinality(Noted(j)') + RunPending' <= captionRuns'
  <2>1. Noted(j)' = Noted(j)
    BY DEF Noted
  <2>2. Cardinality(Noted(j)) \in Nat
    <3>1. IsFiniteSet(DOMAIN markdown) /\ IsFiniteSet(1..MaxCaptionRuns)
      BY ItemsTyped, FiguresAssumption, FS_Interval DEF MarkdownFits, FiguresShape
    <3>2. IsFiniteSet((DOMAIN markdown) \X (1..MaxCaptionRuns))
      BY <3>1, FS_Product
    <3>3. Noted(j) \in SUBSET ((DOMAIN markdown) \X (1..MaxCaptionRuns))
      BY DEF Noted
    <3> QED BY <3>2, <3>3, FS_Subset, FS_CardinalityType
  <2>3. Cardinality(Noted(j)) + RunPending <= captionRuns
    BY DEF NotesFit
  <2>4. Cardinality(Noted(j)) + RunPending' <= captionRuns'
    BY <1>2, <2>2, <2>3, RoomLeft
  <2> QED BY <2>1, <2>4
<1>6. NotesFit'
  BY <1>4, <1>5 DEF NotesFit
<1> QED BY <1>1, <1>6

\* Each figure of what the chunks may own has one at most.
Assigned(chunks, its, owned) ==
    \A i \in owned :
        /\ Cardinality(Owners(chunks, i)) <= 1
        /\ Owners(chunks, i) \subseteq Begins(chunks, its[i].page)
        /\ Owners(chunks, i) = {} => Begins(chunks, its[i].page) = {}

LEMMA AssignedIs ==
    /\ FiguresAssigned <=> Assigned(figureChunks, items, images \cup tables)
    /\ FiguresAssigned' <=> Assigned(figureChunks', items', images' \cup tables')
<1>1. FiguresAssigned <=> Assigned(figureChunks, items, images \cup tables)
  BY DEF FiguresAssigned, Assigned, Owners, Begins
<1>2. FiguresAssigned' <=> Assigned(figureChunks', items', images' \cup tables')
  BY DEF FiguresAssigned, Assigned, Owners, Begins
<1> QED BY <1>1, <1>2

LEMMA ChunksStay ==
    ASSUME ChunksFit, FiguresAssigned, UNCHANGED <<items, images, tables, figureChunks>>
    PROVE  ChunksFit' /\ FiguresAssigned'
<1>1. ChunksFit'
  BY DEF ChunksFit
<1>2. FiguresAssigned'
  BY AssignedIs
<1> QED BY <1>1, <1>2

LEMMA NotDoneYet ==
    /\ figureStage # "done" => CaptionsSearchable
    /\ figureStage' # "done" => CaptionsSearchable'
    /\ figureFaults # 0 => AskedInTurn /\ CaptionsSearchable
    /\ figureFaults' # 0 => AskedInTurn' /\ CaptionsSearchable'
  BY DEF AskedInTurn, CaptionsSearchable

LEMMA NobodyAsks ==
    ASSUME asking' = <<>>, AskedFor' = {}
    PROVE  TasksFit'
<1>1. InCall' = {}
  BY DEF InCall
<1>2. Cardinality(InCall') = 0 /\ CaptionSlots \in Nat
  BY <1>1, FS_EmptySet, FiguresAssumption
<1> QED BY <1>2 DEF TasksFit

\* The picture and table tasks start out waiting.
LEMMA AllWait ==
    ASSUME NEW S, AskFor(S), AskedFor' = S \ captions
    PROVE  TasksFit'
<1>1. asking' \in [AskedFor' -> TaskStates] /\ \A i \in DOMAIN asking' : asking'[i] = "waiting"
  BY DEF AskFor, TaskStates
<1>2. InCall' = {}
  BY <1>1 DEF InCall
<1>3. Cardinality(InCall') = 0 /\ CaptionSlots \in Nat
  BY <1>2, FS_EmptySet, FiguresAssumption
<1> QED BY <1>1, <1>3 DEF TasksFit

LEMMA RoomKept ==
    ASSUME NEW a \in Nat, NEW q \in {0, 1}
    PROVE  a + 1 \in Nat /\ (a + 1) - q >= a - 0 /\ a - q >= a - 1
  OBVIOUS

-----------------------------------------------------------------------------
(* The steps.                                                              *)

LEMMA TakeKeeps == FiguresInv /\ TakeCaption => FiguresInv'
<1> SUFFICES ASSUME FiguresInv, TakeCaption PROVE FiguresInv'
  OBVIOUS
<1> USE DEF TakeCaption
<1>1. /\ FiguresShape /\ TasksFit /\ NothingYet /\ MarkdownFits /\ PicturesInPlace /\ NotesFit
      /\ ChunksFit /\ FiguresAssigned /\ AskedInTurn
  BY DEF FiguresInv
<1>2. FiguresShape'
  BY <1>1, FiguresAssumption DEF FiguresShape, FigureStages, CaptionStages, Of
<1>3. TasksFit'
  <2>1. CASE images \cup tables = {}
    <3>1. AskedFor = {} /\ AskedFor' = {}
      BY <2>1 DEF AskedFor
    <3>2. InCall' = InCall /\ asking' = asking /\ figureFaults' = figureFaults
      BY <2>1 DEF InCall
    <3> QED BY <1>1, <3>1, <3>2 DEF TasksFit
  <2>2. CASE images \cup tables # {}
    <3>1. AskFor(images) /\ AskedFor' = images \ captions
      BY <2>2 DEF AskedFor
    <3> QED BY <3>1, AllWait
  <2> QED BY <2>1, <2>2
<1>4. NothingYet' /\ MarkdownFits' /\ PicturesInPlace' /\ NotesFit'
  <2>1. RunPending = 0 /\ RunPending' \in {0, 1}
    BY DEF RunPending
  <2>2. captionRuns \in Nat /\ captionRuns' = captionRuns + 1
    BY <1>1 DEF FiguresShape
  <2>3. captionRuns' \in Nat /\ captionRuns' - RunPending' >= captionRuns - RunPending
    BY <2>1, <2>2, RoomKept
  <2>4. figureStage # "converted" /\ figureStage' # "converted"
    OBVIOUS
  <2> QED BY <1>1, <2>2, <2>3, <2>4, MarkdownStays
<1>5. ChunksFit' /\ FiguresAssigned'
  BY <1>1, ChunksStay
<1>6. AskedInTurn'
  BY DEF AskedInTurn
<1>7. CaptionsSearchable'
  <2>1. CASE images \cup tables = {}
    BY <1>5, <2>1 DEF ChunksFit, CaptionsSearchable
  <2>2. CASE images \cup tables # {}
    BY <2>2, NotDoneYet
  <2> QED BY <2>1, <2>2
<1> QED BY <1>2, <1>3, <1>4, <1>5, <1>6, <1>7 DEF FiguresInv

LEMMA TaskKeeps ==
    ASSUME FiguresInv, NEW i \in DOMAIN asking, AskModel(i) \/ ModelAnswers(i)
    PROVE  FiguresInv'
<1>1. /\ FiguresShape /\ TasksFit /\ NothingYet /\ MarkdownFits /\ PicturesInPlace /\ NotesFit
      /\ ChunksFit /\ FiguresAssigned /\ AskedInTurn /\ CaptionsSearchable
  BY DEF FiguresInv
<1>2. UNCHANGED <<items, figureStage, images, tables, markdown, figureChunks, captions, captionRuns>>
  BY DEF AskModel, ModelAnswers
<1>3. figureFaults \in Nat /\ figureFaults' \in Nat /\ (figureFaults' = 0 => figureFaults = 0)
  BY <1>1 DEF FiguresShape, AskModel, ModelAnswers, FigureFault, NoFigureFault
<1>4. FiguresShape'
  BY <1>1, <1>2, <1>3 DEF FiguresShape, Of
<1>5. TasksFit'
  <2>1. AskedFor' = AskedFor /\ i \in AskedFor
    BY <1>1, <1>2, CallsFinite DEF AskedFor
  <2>2. asking \in [AskedFor -> TaskStates]
    BY <1>1 DEF TasksFit
  <2>3. CASE AskModel(i)
    <3>1. asking' = [asking EXCEPT ![i] = "asked"] /\ UNCHANGED figureFaults
      BY <2>3 DEF AskModel
    <3>2. asking' \in [AskedFor' -> TaskStates]
      BY <2>1, <2>2, <3>1 DEF TaskStates
    <3>3. InCall' = InCall \cup {i}
      BY <2>1, <2>2, <3>1 DEF InCall
    <3>4. Cardinality(InCall) \in Nat /\ IsFiniteSet(InCall) /\ Cardinality(InCall) < CaptionSlots
      BY <1>1, <2>3, CallsFinite DEF AskModel
    <3>5. Cardinality(InCall') <= CaptionSlots
      <4>1. Cardinality(InCall') = Cardinality(InCall) \/ Cardinality(InCall') = Cardinality(InCall) + 1
        BY <3>3, <3>4, FS_AddElement
      <4>2. CaptionSlots \in Nat
        BY FiguresAssumption
      <4> QED BY <3>4, <4>1, <4>2
    <3>6. figureFaults' = 0 => \A h \in DOMAIN asking' : asking'[h] # "failed"
      BY <1>1, <2>1, <2>2, <3>1 DEF TasksFit
    <3> QED BY <3>2, <3>5, <3>6 DEF TasksFit
  <2>4. CASE ModelAnswers(i)
    <3>1. PICK to \in {"captioned", "failed"} :
             /\ asking' = [asking EXCEPT ![i] = to]
             /\ to = "failed" => figureFaults' = figureFaults + 1
      BY <2>4 DEF ModelAnswers, FigureFault
    <3>2. asking' \in [AskedFor' -> TaskStates]
      BY <2>1, <2>2, <3>1 DEF TaskStates
    <3>3. InCall' \in SUBSET InCall
      BY <2>1, <2>2, <3>1 DEF InCall
    <3>4. Cardinality(InCall) \in Nat /\ IsFiniteSet(InCall) /\ Cardinality(InCall) <= CaptionSlots
      BY <1>1, CallsFinite DEF TasksFit
    <3>5. Cardinality(InCall') <= CaptionSlots
      <4>1. Cardinality(InCall') <= Cardinality(InCall) /\ IsFiniteSet(InCall')
        BY <3>3, <3>4, FS_Subset
      <4>2. Cardinality(InCall') \in Nat /\ CaptionSlots \in Nat
        BY <4>1, FS_CardinalityType, FiguresAssumption
      <4> QED BY <3>4, <4>1, <4>2
    <3>6. figureFaults' = 0 => \A h \in DOMAIN asking' : asking'[h] # "failed"
      BY <1>1, <1>3, <2>1, <2>2, <3>1 DEF TasksFit
    <3> QED BY <3>2, <3>5, <3>6 DEF TasksFit
  <2> QED BY <2>3, <2>4
<1>6. NothingYet' /\ MarkdownFits' /\ PicturesInPlace' /\ NotesFit'
  <2>1. figureStage # "converted"
    BY <1>1, CallsFinite DEF AskedFor
  <2>2. RunPending' = RunPending /\ captionRuns' = captionRuns /\ captionRuns \in Nat /\ RunPending \in {0, 1}
    BY <1>1, <1>2 DEF RunPending, FiguresShape
  <2>3. captionRuns' - RunPending' >= captionRuns - RunPending
    BY <2>2
  <2> QED BY <1>1, <1>2, <2>1, <2>2, <2>3, MarkdownStays
<1>7. ChunksFit' /\ FiguresAssigned'
  BY <1>1, <1>2, ChunksStay
<1>8. AskedInTurn' /\ CaptionsSearchable'
  <2>1. figureStage # "done"
    BY <1>1, CallsFinite DEF AskedFor
  <2> QED BY <1>1, <1>2, <1>3, <2>1, NotDoneYet DEF AskedInTurn
<1> QED BY <1>4, <1>5, <1>6, <1>7, <1>8 DEF FiguresInv

LEMMA CommitKeeps == FiguresInv /\ CommitCaptions => FiguresInv'
<1> SUFFICES ASSUME FiguresInv, CommitCaptions PROVE FiguresInv'
  OBVIOUS
<1>1. /\ FiguresShape /\ TasksFit /\ NothingYet /\ MarkdownFits /\ PicturesInPlace /\ NotesFit
      /\ ChunksFit /\ FiguresAssigned /\ AskedInTurn
  BY DEF FiguresInv
<1>2. /\ figureStage \in {"images", "tables"} /\ Gathered
      /\ captions' = captions \cup {i \in DOMAIN asking : asking[i] = "captioned"}
      /\ UNCHANGED <<items, images, tables, markdown, figureChunks, figureFaults, captionRuns>>
  BY DEF CommitCaptions
<1>3. figureStage' = IF figureStage = "images" THEN "tables"
                     ELSE IF tables = {} THEN "chunks" ELSE "markdown"
  BY <1>2 DEF CommitCaptions
<1>4. DOMAIN asking = AskedFor
  BY <1>1, CallsFinite
<1>5. FiguresShape'
  <2>1. captions' \subseteq images \cup tables
    BY <1>1, <1>2, <1>4 DEF FiguresShape, AskedFor
  <2> QED BY <1>1, <1>2, <1>3, <2>1 DEF FiguresShape, FigureStages, CaptionStages, Of
<1>6. TasksFit'
  <2>1. CASE figureStage = "images"
    <3>1. figureStage' = "tables" /\ AskFor(tables)
      BY <2>1 DEF CommitCaptions
    <3>2. asking' = [i \in tables \ captions |-> "waiting"] /\ tables' = tables
      BY <1>2, <3>1 DEF AskFor
    <3>3. AskedFor' = tables \ captions
      <4>1. tables \cap captions' = tables \cap captions
        BY <1>1, <1>2, <1>4, <2>1 DEF AskedFor, FiguresShape, Of
      <4> QED BY <3>1, <3>2, <4>1 DEF AskedFor
    <3> QED BY <3>1, <3>3, AllWait
  <2>2. CASE figureStage # "images"
    <3>1. asking' = <<>>
      BY <2>2 DEF CommitCaptions
    <3>2. AskedFor' = {}
      BY <1>3, <2>2 DEF AskedFor
    <3> QED BY <3>1, <3>2, NobodyAsks
  <2> QED BY <2>1, <2>2
<1>7. NothingYet' /\ MarkdownFits' /\ PicturesInPlace' /\ NotesFit'
  <2>1. RunPending = 1 /\ RunPending' \in {0, 1}
    BY <1>2 DEF RunPending
  <2>2. captionRuns' = captionRuns /\ captionRuns \in Nat
    BY <1>1, <1>2 DEF FiguresShape
  <2>3. captionRuns' - RunPending' >= captionRuns - RunPending
    BY <2>1, <2>2, RoomKept
  <2>4. figureStage # "converted" /\ figureStage' # "converted" /\ captions \subseteq captions'
    BY <1>2, <1>3
  <2> QED BY <1>1, <1>2, <2>2, <2>3, <2>4, MarkdownStays
<1>8. ChunksFit' /\ FiguresAssigned'
  BY <1>1, <1>2, ChunksStay
<1>9. AskedInTurn'
  <2> SUFFICES ASSUME figureFaults' = 0
               PROVE  /\ images \subseteq captions'
                      /\ figureStage # "images" => tables \subseteq captions'
    BY <1>2, <1>3 DEF AskedInTurn
  <2>1. \A i \in AskedFor : i \in captions'
    BY <1>1, <1>2, <1>4 DEF TasksFit, Gathered
  <2> QED BY <1>1, <1>2, <2>1 DEF AskedFor, AskedInTurn
<1>10. CaptionsSearchable'
  BY <1>3, NotDoneYet
<1> QED BY <1>5, <1>6, <1>7, <1>8, <1>9, <1>10 DEF FiguresInv

LEMMA NotedFinite ==
    ASSUME FiguresShape, DOMAIN markdown = DOMAIN items, NEW j
    PROVE  IsFiniteSet(Noted(j)) /\ Cardinality(Noted(j)) \in Nat
<1>1. IsFiniteSet(DOMAIN markdown) /\ IsFiniteSet(1..MaxCaptionRuns)
  BY ItemsTyped, FiguresAssumption, FS_Interval DEF FiguresShape
<1>2. IsFiniteSet((DOMAIN markdown) \X (1..MaxCaptionRuns))
  BY <1>1, FS_Product
<1>3. Noted(j) \in SUBSET ((DOMAIN markdown) \X (1..MaxCaptionRuns))
  BY DEF Noted
<1> QED BY <1>2, <1>3, FS_Subset, FS_CardinalityType

\* What the markdown says after a run: one caption more, at most.
LEMMA CaptionedIs ==
    ASSUME FiguresShape, MarkdownFits, figureStage # "converted",
           markdown' = Captioned(markdown), UNCHANGED <<items, images, tables, captions>>,
           NEW i \in DOMAIN items
    PROVE  LET before == markdown[i].notes
               after == markdown'[i].notes
               more == CaptionFor(i)
           IN /\ DOMAIN markdown' = DOMAIN items /\ DOMAIN markdown = DOMAIN items
              /\ markdown'[i] \in [shows : Nat, notes : Seq(DOMAIN items)]
              /\ markdown'[i].shows = markdown[i].shows
              /\ Len(before) \in Nat /\ DOMAIN before = 1..Len(before)
              /\ more = <<>> => after = before
              /\ more # <<>> => \E j \in DOMAIN items :
                    /\ more = <<j>> /\ NoteFits(i, j)
                    /\ Taken[i] # 0 /\ Head(items[j].rows) = Taken[i]
                    /\ Len(after) = Len(before) + 1 /\ after[1] = j
                    /\ DOMAIN after = 1..Len(before) + 1
                    /\ \A k \in 2..Len(before) + 1 : after[k] = before[k - 1]
<1> DEFINE before == markdown[i].notes
           after == markdown'[i].notes
           more == CaptionFor(i)
<1>1. markdown \in [DOMAIN items -> [shows : Nat, notes : Seq(DOMAIN items)]]
  BY DEF MarkdownFits
<1>2. markdown' = [h \in DOMAIN items |-> [markdown[h] EXCEPT !.notes = CaptionFor(h) \o @]]
  BY <1>1 DEF Captioned
<1>3. before \in Seq(DOMAIN items) /\ Len(before) \in Nat /\ DOMAIN before = 1..Len(before)
  BY <1>1
<1>4. /\ DOMAIN markdown' = DOMAIN items /\ DOMAIN markdown = DOMAIN items
      /\ markdown'[i] = [shows |-> markdown[i].shows, notes |-> more \o before]
  BY <1>1, <1>2
<1>5. after = more \o before /\ markdown'[i].shows = markdown[i].shows /\ markdown[i].shows \in Nat
  BY <1>1, <1>4
<1> HIDE DEF before, more
<1>6. CASE more = <<>>
  <2>1. more \o before = before
    BY <1>3, <1>6, ConcatEmptySeq
  <2> QED BY <1>3, <1>4, <1>5, <1>6, <2>1 DEF before, more
<1>7. CASE more # <<>>
  <2>1. PICK j \in DOMAIN items : /\ more = <<j>> /\ NoteFits(i, j)
                                  /\ Taken[i] # 0 /\ Head(items[j].rows) = Taken[i]
    BY <1>7, CaptionForIs DEF FiguresShape, more
  <2>2. more \in Seq(DOMAIN items) /\ Len(more) = 1 /\ more[1] = j
    BY <2>1
  <2>3. /\ more \o before \in Seq(DOMAIN items) /\ Len(more \o before) = Len(more) + Len(before)
        /\ \A k \in 1..Len(more) + Len(before) :
              (more \o before)[k] = IF k <= Len(more) THEN more[k] ELSE before[k - Len(more)]
    BY <1>3, <2>2, ConcatProperties
  <2> HIDE DEF after
  <2>4. after \in Seq(DOMAIN items) /\ Len(after) = Len(before) + 1 /\ DOMAIN after = 1..Len(before) + 1
    BY <1>3, <1>5, <2>2, <2>3
  <2>5. \A k \in 1..Len(before) + 1 : after[k] = IF k <= 1 THEN more[k] ELSE before[k - 1]
    BY <1>3, <1>5, <2>2, <2>3
  <2>6. after[1] = j /\ \A k \in 2..Len(before) + 1 : after[k] = before[k - 1]
    BY <1>3, <2>2, <2>5
  <2>7. markdown'[i] \in [shows : Nat, notes : Seq(DOMAIN items)]
    BY <1>4, <1>5, <2>4
  <2> QED BY <1>3, <1>4, <1>5, <1>7, <2>1, <2>4, <2>6, <2>7 DEF before, more, after
<1> QED BY <1>6, <1>7

\* A caption is added to one item at most.
LEMMA OneMore ==
    ASSUME FiguresShape, MarkdownFits, figureStage # "converted",
           markdown' = Captioned(markdown), UNCHANGED <<items, images, tables, captions>>,
           NEW j \in DOMAIN items
    PROVE  Cardinality(Noted(j)') <= Cardinality(Noted(j)) + 1
<1> DEFINE notes(i) == markdown[i].notes
           after(i) == markdown'[i].notes
           c(i) == IF CaptionFor(i) = <<>> THEN 0 ELSE 1
           old == Noted(j)
           new == Noted(j)'
           fresh == {n \in new : n[2] <= c(n[1])}
           rest == new \ fresh
           f == [n \in rest |-> <<n[1], n[2] - c(n[1])>>]
<1>1. DOMAIN markdown = DOMAIN items /\ DOMAIN markdown' = DOMAIN items /\ items \in Documented
  BY DEF MarkdownFits, FiguresShape, Captioned
<1>2. new = {n \in (DOMAIN items) \X (1..MaxCaptionRuns) :
               n[2] \in DOMAIN after(n[1]) /\ after(n[1])[n[2]] = j}
  BY <1>1 DEF Noted
<1>3. old = {n \in (DOMAIN items) \X (1..MaxCaptionRuns) :
               n[2] \in DOMAIN notes(n[1]) /\ notes(n[1])[n[2]] = j}
  BY <1>1 DEF Noted
<1> HIDE DEF old, new
<1>4. ASSUME NEW n \in rest PROVE f[n] \in old
  <2> DEFINE i == n[1]
             k == n[2]
  <2>1. /\ i \in DOMAIN items /\ k \in 1..MaxCaptionRuns /\ n = <<i, k>> /\ ~(k <= c(i))
        /\ k \in DOMAIN after(i) /\ after(i)[k] = j
    BY <1>2
  <2>2. f[n] = <<i, k - c(i)>>
    OBVIOUS
  <2>3. Len(notes(i)) \in Nat /\ DOMAIN notes(i) = 1..Len(notes(i))
    BY <2>1, CaptionedIs
  <2> HIDE DEF i, k, f
  <2>4. CASE CaptionFor(i) = <<>>
    <3>1. after(i) = notes(i) /\ k - c(i) = k
      BY <2>1, <2>4, CaptionedIs
    <3> QED BY <1>3, <2>1, <2>2, <3>1
  <2>5. CASE CaptionFor(i) # <<>>
    <3>1. c(i) = 1
      BY <2>5
    <3>2. /\ DOMAIN after(i) = 1..Len(notes(i)) + 1
          /\ \A h \in 2..Len(notes(i)) + 1 : after(i)[h] = notes(i)[h - 1]
      BY <2>1, <2>5, CaptionedIs
    <3>3. k \in 2..Len(notes(i)) + 1 /\ k - 1 \in 1..Len(notes(i)) /\ k - 1 \in 1..MaxCaptionRuns
      BY <2>1, <2>3, <3>1, <3>2, FiguresAssumption
    <3>4. notes(i)[k - 1] = j
      BY <2>1, <3>2, <3>3
    <3> QED BY <1>3, <2>1, <2>2, <2>3, <3>1, <3>3, <3>4
  <2> QED BY <2>4, <2>5
<1>5. f \in Injection(rest, old)
  <2>1. f \in [rest -> old]
    BY <1>4
  <2>2. ASSUME NEW m \in rest, NEW n \in rest, f[m] = f[n] PROVE m = n
    <3>1. /\ m = <<m[1], m[2]>> /\ n = <<n[1], n[2]>> /\ m[2] \in Nat /\ n[2] \in Nat
          /\ c(m[1]) \in {0, 1} /\ c(n[1]) \in {0, 1}
      BY <1>2
    <3>2. m[1] = n[1] /\ m[2] - c(m[1]) = n[2] - c(n[1])
      BY <2>2
    <3>3. m[2] = n[2]
      BY <3>1, <3>2
    <3> QED BY <3>1, <3>2, <3>3
  <2> QED BY <2>1, <2>2 DEF Injection, IsInjective
<1>6. IsFiniteSet(old) /\ Cardinality(old) \in Nat
  BY <1>1, NotedFinite DEF old
<1> HIDE DEF f, rest
<1>7. IsFiniteSet(rest) /\ Cardinality(rest) <= Cardinality(old)
  BY <1>5, <1>6, FS_Injection
<1>8. \A m, n \in fresh : m = n
  <2>1. ASSUME NEW n \in fresh
        PROVE  /\ n = <<n[1], 1>> /\ n[1] \in DOMAIN items
               /\ Taken[n[1]] # 0 /\ Head(items[j].rows) = Taken[n[1]]
    <3>1. /\ n[1] \in DOMAIN items /\ n[2] \in 1..MaxCaptionRuns /\ n = <<n[1], n[2]>>
          /\ n[2] <= c(n[1]) /\ after(n[1])[n[2]] = j
      BY <1>2
    <3>2. CaptionFor(n[1]) # <<>> /\ n[2] = 1
      BY <3>1
    <3>3. PICK h \in DOMAIN items :
             /\ Taken[n[1]] # 0 /\ Head(items[h].rows) = Taken[n[1]] /\ after(n[1])[1] = h
      BY <3>1, <3>2, CaptionedIs
    <3> QED BY <3>1, <3>2, <3>3
  <2>2. ASSUME NEW m \in fresh, NEW n \in fresh PROVE m = n
    <3>1. m[1] = n[1]
      BY <1>1, <2>1, TakenOnce
    <3> QED BY <2>1, <3>1
  <2> QED BY <2>2
<1>9. new = rest \cup fresh
  BY DEF rest
<1> HIDE DEF fresh
<1>10. CASE fresh = {}
  <2>1. new = rest
    BY <1>9, <1>10
  <2>2. Cardinality(rest) \in Nat
    BY <1>7, FS_CardinalityType
  <2> QED BY <1>6, <1>7, <2>1, <2>2 DEF old, new
<1>11. CASE fresh # {}
  <2>1. PICK n : fresh = {n}
    BY <1>8, <1>11
  <2>2. new = rest \cup {n}
    BY <1>9, <2>1
  <2>3. Cardinality(new) = Cardinality(rest) \/ Cardinality(new) = Cardinality(rest) + 1
    BY <1>7, <2>2, FS_AddElement
  <2>4. Cardinality(rest) \in Nat
    BY <1>7, FS_CardinalityType
  <2>5. Cardinality(new) <= Cardinality(old) + 1
    BY <1>6, <1>7, <2>3, <2>4
  <2> QED BY <2>5 DEF old, new
<1> QED BY <1>10, <1>11

LEMMA MarkdownKeeps == FiguresInv /\ CaptionMarkdown => FiguresInv'
<1> SUFFICES ASSUME FiguresInv, CaptionMarkdown PROVE FiguresInv'
  OBVIOUS
<1>1. /\ FiguresShape /\ TasksFit /\ NothingYet /\ MarkdownFits /\ PicturesInPlace /\ NotesFit
      /\ ChunksFit /\ FiguresAssigned /\ AskedInTurn
  BY DEF FiguresInv
<1>2. /\ figureStage = "markdown" /\ figureStage' = "chunks" /\ markdown' = Captioned(markdown)
      /\ UNCHANGED <<items, images, tables, figureChunks, captions, asking, figureFaults,
                     captionRuns>>
  BY DEF CaptionMarkdown
<1>3. FiguresShape'
  BY <1>1, <1>2 DEF FiguresShape, FigureStages, CaptionStages, Of
<1>4. TasksFit'
  <2>1. AskedFor' = AskedFor /\ InCall' = InCall
    BY <1>2 DEF AskedFor, InCall
  <2> QED BY <1>1, <1>2, <2>1 DEF TasksFit
<1>5. NothingYet'
  BY <1>2 DEF NothingYet
<1>6. figureStage # "converted"
  BY <1>2
<1>7. DOMAIN markdown = DOMAIN items /\ DOMAIN markdown' = DOMAIN items
  BY <1>1, <1>2, <1>6 DEF MarkdownFits, Captioned
<1>8. MarkdownFits'
  <2>1. \A i \in DOMAIN items : markdown'[i] \in [shows : Nat, notes : Seq(DOMAIN items)]
    BY <1>1, <1>2, <1>6, CaptionedIs
  <2>2. markdown' = [i \in DOMAIN markdown' |-> markdown'[i]]
    BY <1>2 DEF Captioned
  <2>3. markdown' \in [DOMAIN items -> [shows : Nat, notes : Seq(DOMAIN items)]]
    BY <1>7, <2>1, <2>2
  <2> QED BY <1>2, <2>3 DEF MarkdownFits
<1>9. PicturesInPlace'
  <2>1. \A i \in DOMAIN items : markdown'[i].shows = markdown[i].shows
    BY <1>1, <1>2, <1>6, CaptionedIs
  <2> QED BY <1>1, <1>2, <1>7, <2>1 DEF PicturesInPlace
<1>10. NotesFit'
  <2>1. RunPending = 1 /\ RunPending' = 0 /\ captionRuns \in Nat /\ captionRuns' = captionRuns
    BY <1>1, <1>2 DEF RunPending, FiguresShape
  <2>2. \A i, j : NoteFits(i, j)' <=> NoteFits(i, j)
    BY <1>2 DEF NoteFits
  <2>3. ASSUME NEW i \in DOMAIN items
        PROVE  /\ Len(markdown'[i].notes) + RunPending' <= captionRuns'
               /\ \A j \in Range(markdown'[i].notes) : NoteFits(i, j)'
    <3> DEFINE before == markdown[i].notes
               after == markdown'[i].notes
    <3>1. Len(before) \in Nat /\ DOMAIN before = 1..Len(before)
      BY <1>1, <1>2, <1>6, CaptionedIs
    <3>2. Len(before) + RunPending <= captionRuns /\ \A j \in Range(before) : NoteFits(i, j)
      BY <1>1, <1>7 DEF NotesFit
    <3>3. CASE CaptionFor(i) = <<>>
      <4>1. after = before
        BY <1>1, <1>2, <1>6, <3>3, CaptionedIs
      <4> QED BY <2>1, <2>2, <3>1, <3>2, <4>1
    <3>4. CASE CaptionFor(i) # <<>>
      <4>1. PICK j \in DOMAIN items :
               /\ NoteFits(i, j) /\ Len(after) = Len(before) + 1 /\ after[1] = j
               /\ DOMAIN after = 1..Len(before) + 1
               /\ \A k \in 2..Len(before) + 1 : after[k] = before[k - 1]
        BY <1>1, <1>2, <1>6, <3>4, CaptionedIs
      <4> HIDE DEF before, after
      <4>2. Len(after) + RunPending' <= captionRuns'
        BY <2>1, <3>1, <3>2, <4>1
      <4>3. ASSUME NEW k \in DOMAIN after PROVE NoteFits(i, after[k])
        <5>1. CASE k = 1
          BY <4>1, <5>1
        <5>2. CASE k # 1
          <6>1. k \in 2..Len(before) + 1 /\ k - 1 \in DOMAIN before
            BY <3>1, <4>1, <5>2
          <6>2. after[k] \in Range(before)
            BY <4>1, <6>1 DEF Range
          <6> QED BY <3>2, <6>2
        <5> QED BY <5>1, <5>2
      <4>4. \A h \in Range(after) : NoteFits(i, h)'
        BY <2>2, <4>3 DEF Range
      <4> QED BY <4>2, <4>4 DEF after
    <3> QED BY <3>3, <3>4
  <2>4. ASSUME NEW j \in DOMAIN items PROVE Cardinality(Noted(j)') + RunPending' <= captionRuns'
    <3>1. Cardinality(Noted(j)') <= Cardinality(Noted(j)) + 1
      BY <1>1, <1>2, <1>6, OneMore
    <3>2. Cardinality(Noted(j)) + RunPending <= captionRuns
      BY <1>1 DEF NotesFit
    <3>3. Cardinality(Noted(j)) \in Nat
      BY <1>1, <1>7, NotedFinite
    <3>4. Cardinality(Noted(j)') \in Nat
      <4>1. IsFiniteSet(DOMAIN markdown') /\ IsFiniteSet(1..MaxCaptionRuns)
        BY <1>1, <1>7, ItemsTyped, FiguresAssumption, FS_Interval DEF FiguresShape
      <4>2. IsFiniteSet((DOMAIN markdown') \X (1..MaxCaptionRuns))
        BY <4>1, FS_Product
      <4>3. Noted(j)' \in SUBSET ((DOMAIN markdown') \X (1..MaxCaptionRuns))
        BY DEF Noted
      <4> QED BY <4>2, <4>3, FS_Subset, FS_CardinalityType
    <3> QED BY <2>1, <3>1, <3>2, <3>3, <3>4
  <2> QED BY <1>2, <1>7, <2>3, <2>4 DEF NotesFit
<1>11. ChunksFit' /\ FiguresAssigned'
  BY <1>1, <1>2, ChunksStay
<1>12. AskedInTurn' /\ CaptionsSearchable'
  BY <1>1, <1>2, NotDoneYet DEF AskedInTurn
<1> QED BY <1>3, <1>4, <1>5, <1>8, <1>9, <1>10, <1>11, <1>12 DEF FiguresInv

LEMMA StopKeeps ==
    ASSUME FiguresInv, CaptionsFail \/ CaptionWorkerDies
    PROVE  FiguresInv'
<1>1. /\ FiguresShape /\ TasksFit /\ NothingYet /\ MarkdownFits /\ PicturesInPlace /\ NotesFit
      /\ ChunksFit /\ FiguresAssigned /\ AskedInTurn
  BY DEF FiguresInv
<1>2. /\ figureStage \in CaptionStages /\ figureStage' \in {"done", "queued"} /\ asking' = <<>>
      /\ UNCHANGED <<items, images, tables, markdown, figureChunks, captions, captionRuns>>
  BY DEF CaptionsFail, CaptionWorkerDies
<1>3. figureFaults' \in Nat /\ (figureStage' = "done" => figureFaults' # 0)
  BY <1>1 DEF CaptionsFail, CaptionWorkerDies, FigureFault, FiguresShape
<1>4. FiguresShape'
  BY <1>1, <1>2, <1>3 DEF FiguresShape, FigureStages, Of
<1>5. TasksFit'
  <2>1. AskedFor' = {}
    BY <1>2 DEF AskedFor
  <2> QED BY <1>2, <2>1, NobodyAsks
<1>6. NothingYet' /\ MarkdownFits' /\ PicturesInPlace' /\ NotesFit'
  <2>1. RunPending \in {0, 1} /\ RunPending' = 0
    BY <1>2 DEF RunPending
  <2>2. captionRuns' = captionRuns /\ captionRuns \in Nat
    BY <1>1, <1>2 DEF FiguresShape
  <2>3. captionRuns' - RunPending' >= captionRuns - RunPending
    BY <2>1, <2>2
  <2>4. figureStage # "converted" /\ figureStage' # "converted"
    BY <1>2 DEF CaptionStages
  <2> QED BY <1>1, <1>2, <2>2, <2>3, <2>4, MarkdownStays
<1>7. ChunksFit' /\ FiguresAssigned'
  BY <1>1, <1>2, ChunksStay
<1>8. AskedInTurn' /\ CaptionsSearchable'
  BY <1>2, <1>3, NotDoneYet DEF AskedInTurn
<1> QED BY <1>4, <1>5, <1>6, <1>7, <1>8 DEF FiguresInv

LEMMA ChunksKeep == FiguresInv /\ CaptionChunks => FiguresInv'
<1> SUFFICES ASSUME FiguresInv, CaptionChunks PROVE FiguresInv'
  OBVIOUS
<1>1. /\ FiguresShape /\ TasksFit /\ NothingYet /\ MarkdownFits /\ PicturesInPlace /\ NotesFit
      /\ ChunksFit /\ FiguresAssigned /\ AskedInTurn
  BY DEF FiguresInv
<1>2. /\ figureStage = "chunks" /\ figureStage' = "done"
      /\ figureChunks' = [k \in DOMAIN figureChunks |->
                            [figureChunks[k] EXCEPT !.captions = Enrich(figureChunks[k])]]
      /\ UNCHANGED <<items, images, tables, markdown, captions, asking, figureFaults, captionRuns>>
  BY DEF CaptionChunks
<1>3. FiguresShape'
  BY <1>1, <1>2 DEF FiguresShape, FigureStages, Of
<1>4. TasksFit'
  <2>1. AskedFor' = AskedFor /\ InCall' = InCall
    BY <1>2 DEF AskedFor, InCall
  <2> QED BY <1>1, <1>2, <2>1 DEF TasksFit
<1>5. NothingYet' /\ MarkdownFits' /\ PicturesInPlace' /\ NotesFit'
  <2>1. RunPending = 0 /\ RunPending' = 0
    BY <1>2 DEF RunPending
  <2>2. captionRuns' = captionRuns /\ captionRuns \in Nat
    BY <1>1, <1>2 DEF FiguresShape
  <2>3. captionRuns' - RunPending' >= captionRuns - RunPending
    BY <2>1, <2>2
  <2>4. figureStage # "converted" /\ figureStage' # "converted"
    BY <1>2
  <2> QED BY <1>1, <1>2, <2>2, <2>3, <2>4, MarkdownStays
<1>6. ASSUME NEW k \in DOMAIN figureChunks
      PROVE  LET c == figureChunks[k]
                 d == figureChunks'[k]
             IN /\ d \in ChunkRecords /\ d.page = c.page /\ d.images = c.images /\ d.tables = c.tables
                /\ d.captions = Enrich(c)
                /\ \A i \in (c.images \cup c.tables) \cap captions :
                      Cardinality({n \in DOMAIN d.captions : d.captions[n] = i})
                        = IF items[i].captioned THEN 2 ELSE 1
  <2> DEFINE c == figureChunks[k]
             d == figureChunks'[k]
             A == {i \in c.images : items[i].captioned}
             B == (c.images \cup c.tables) \cap captions
  <2>1. c \in ChunkRecords /\ c.images \subseteq images /\ c.tables \subseteq tables
    BY <1>1 DEF ChunksFit
  <2>2. d = [c EXCEPT !.captions = Enrich(c)]
    BY <1>2
  <2>3. A \in SUBSET (DOMAIN items) /\ B \in SUBSET (DOMAIN items) /\ items \in Documented
    BY <1>1, <2>1 DEF FiguresShape, Of
  <2>4. A \in SUBSET Nat /\ IsFiniteSet(A) /\ B \in SUBSET Nat /\ IsFiniteSet(B)
    BY <2>3, OfFinite
  <2>5. Enrich(c) = Listed(A) \o Listed(B)
    BY DEF Enrich
  <2>6. ASSUME NEW i \in B PROVE i \in A <=> items[i].captioned
    <3>1. i \in images \cup tables /\ (i \in images => i \in Of("picture"))
      BY <1>1, <2>1 DEF FiguresShape
    <3>2. items[i].captioned => items[i].kind = "picture"
      BY <2>3, ItemsTyped
    <3>3. i \in c.tables => items[i].kind = "table"
      BY <1>1, <2>1 DEF FiguresShape, Of
    <3> QED BY <3>2, <3>3
  <2> HIDE DEF A, B, c, d
  <2>7. Listed(A) \in Seq(Nat) /\ Listed(B) \in Seq(Nat)
    BY <2>4, ListedIs
  <2>8. Enrich(c) \in Seq(Nat)
    BY <2>5, <2>7, ConcatProperties
  <2>9. /\ d \in ChunkRecords /\ d.page = c.page /\ d.images = c.images /\ d.tables = c.tables
        /\ d.captions = Enrich(c)
    BY <2>1, <2>2, <2>8 DEF ChunkRecords
  <2>10. ASSUME NEW i \in B
         PROVE  Cardinality({n \in DOMAIN Enrich(c) : Enrich(c)[n] = i})
                  = IF items[i].captioned THEN 2 ELSE 1
    <3>1. Times(Listed(A) \o Listed(B), i) = IF i \in A THEN 2 ELSE 1
      BY <2>4, ListedTwice
    <3>2. Times(Enrich(c), i) = IF i \in A THEN 2 ELSE 1
      BY <2>5, <3>1
    <3> QED BY <2>6, <3>2 DEF Times
  <2> QED BY <2>9, <2>10 DEF B, c, d
<1>7. DOMAIN figureChunks' = DOMAIN figureChunks
  BY <1>2
<1>8. ChunksFit'
  <2>1. figureChunks' = [k \in DOMAIN figureChunks' |-> figureChunks'[k]]
    BY <1>2
  <2>2. figureChunks' \in [DOMAIN figureChunks' -> ChunkRecords]
    BY <1>6, <1>7, <2>1
  <2>3. \A k \in DOMAIN figureChunks' : /\ figureChunks'[k].images \subseteq images'
                                        /\ figureChunks'[k].tables \subseteq tables'
    BY <1>1, <1>2, <1>6, <1>7 DEF ChunksFit
  <2> QED BY <2>2, <2>3 DEF ChunksFit
<1>9. FiguresAssigned'
  <2>1. \A i : Owners(figureChunks', i) = Owners(figureChunks, i)
    BY <1>6, <1>7 DEF Owners
  <2>2. \A p : Begins(figureChunks', p) = Begins(figureChunks, p)
    BY <1>6, <1>7 DEF Begins
  <2>3. Assigned(figureChunks, items, images \cup tables)
    BY <1>1, AssignedIs
  <2>4. Assigned(figureChunks', items', images' \cup tables')
    BY <1>2, <2>1, <2>2, <2>3 DEF Assigned
  <2> QED BY <2>4, AssignedIs
<1>10. AskedInTurn'
  BY <1>2 DEF AskedInTurn
<1>11. CaptionsSearchable'
  <2> SUFFICES ASSUME figureFaults' = 0, NEW k \in DOMAIN figureChunks',
                      NEW i \in figureChunks'[k].images \cup figureChunks'[k].tables
               PROVE  /\ i \in captions'
                      /\ Cardinality({n \in DOMAIN figureChunks'[k].captions :
                                        figureChunks'[k].captions[n] = i})
                           = IF items'[i].captioned THEN 2 ELSE 1
    BY DEF CaptionsSearchable
  <2>1. images \cup tables \subseteq captions
    BY <1>1, <1>2 DEF AskedInTurn
  <2>2. i \in figureChunks[k].images \cup figureChunks[k].tables /\ k \in DOMAIN figureChunks
    BY <1>6, <1>7
  <2>3. i \in captions
    BY <1>1, <2>1, <2>2 DEF ChunksFit
  <2>4. i \in (figureChunks[k].images \cup figureChunks[k].tables) \cap captions
    BY <2>2, <2>3
  <2>5. Cardinality({n \in DOMAIN figureChunks'[k].captions : figureChunks'[k].captions[n] = i})
          = IF items[i].captioned THEN 2 ELSE 1
    BY <1>6, <2>2, <2>4
  <2>6. items' = items /\ captions' = captions
    BY <1>2
  <2> QED BY <2>3, <2>5, <2>6
<1> QED BY <1>3, <1>4, <1>5, <1>8, <1>9, <1>10, <1>11 DEF FiguresInv

LEMMA ParseKeeps == FiguresInv /\ ParseFigures => FiguresInv'
<1> SUFFICES ASSUME FiguresInv, ParseFigures PROVE FiguresInv'
  OBVIOUS
<1>1. /\ FiguresShape /\ TasksFit /\ NothingYet
  BY DEF FiguresInv
<1>2. PICK readable \in SUBSET Of("picture"), tabled \in SUBSET Of("table"), w \in Windows :
         /\ images' = Saved(readable) /\ tables' = tabled
         /\ markdown' = Injected(PicUrls(Saved(readable)))
         /\ figureChunks' = Chunked(w, Saved(readable), tabled)
         /\ captions' = {i \in Saved(readable) : items[i].captioned}
         /\ figureFaults' = figureFaults \/ figureFaults' = figureFaults + 1
  BY DEF ParseFigures, FigureFault, NoFigureFault
<1>3. /\ figureStage = "converted" /\ figureStage' = "queued"
      /\ UNCHANGED <<items, asking, captionRuns>>
  BY DEF ParseFigures
<1> DEFINE saved == Saved(readable)
<1>4. saved \in SUBSET Of("picture") /\ items \in Documented
  BY <1>1, <1>2 DEF Saved, FiguresShape
<1> HIDE DEF saved
<1>5. /\ images' = saved /\ tables' = tabled /\ markdown' = Injected(PicUrls(saved))
      /\ figureChunks' = Chunked(w, saved, tabled)
      /\ captions' = {i \in saved : items[i].captioned}
  BY <1>2 DEF saved
<1>6. Of("picture")' = Of("picture") /\ Of("table")' = Of("table")
  BY <1>3 DEF Of
<1>7. FiguresShape'
  <2>1. figureFaults' \in Nat
    BY <1>1, <1>2 DEF FiguresShape
  <2> QED BY <1>1, <1>3, <1>4, <1>5, <1>6, <2>1 DEF FiguresShape, FigureStages
<1>8. captionRuns = 0 /\ captionRuns' = 0
  BY <1>1, <1>3 DEF NothingYet
<1>9. TasksFit'
  <2>1. AskedFor = {} /\ AskedFor' = {} /\ InCall' = InCall
    BY <1>3 DEF AskedFor, InCall
  <2>2. DOMAIN asking = {}
    BY <1>1, <2>1, CallsFinite
  <2> QED BY <1>1, <1>3, <2>1, <2>2 DEF TasksFit
<1>10. /\ DOMAIN markdown' = DOMAIN items
       /\ \A i \in DOMAIN items :
             markdown'[i] = [shows |-> IF i \in saved THEN i ELSE 0, notes |-> <<>>]
  BY <1>4, <1>5, InjectedIs
<1>11. MarkdownFits'
  <2>1. \A i \in DOMAIN items : markdown'[i] \in [shows : Nat, notes : Seq(DOMAIN items)]
    <3>1. \A i \in DOMAIN items : i \in Nat
      BY <1>4, ItemsTyped
    <3>2. <<>> \in Seq(DOMAIN items)
      OBVIOUS
    <3>3. ASSUME NEW i \in DOMAIN items
          PROVE  markdown'[i] \in [shows : Nat, notes : Seq(DOMAIN items)]
      <4> DEFINE at == IF i \in saved THEN i ELSE 0
      <4>1. at \in Nat
        BY <3>1
      <4>2. markdown'[i] = [shows |-> at, notes |-> <<>>]
        BY <1>10
      <4> HIDE DEF at
      <4> QED BY <3>2, <4>1, <4>2
    <3> QED BY <3>3
  <2>2. markdown' = [i \in DOMAIN markdown' |-> markdown'[i]]
    BY <1>5 DEF Injected
  <2>3. markdown' \in [DOMAIN items -> [shows : Nat, notes : Seq(DOMAIN items)]]
    BY <1>10, <2>1, <2>2
  <2> QED BY <1>3, <2>3 DEF MarkdownFits
<1>12. PicturesInPlace' /\ NothingYet'
  BY <1>3, <1>5, <1>10 DEF PicturesInPlace, NothingYet
<1>13. NotesFit'
  <2>1. \A i \in DOMAIN items : markdown'[i].notes = <<>>
    BY <1>10
  <2>2. \A j : Noted(j)' = {}
    BY <1>10, <2>1 DEF Noted
  <2>3. \A j : Cardinality(Noted(j)') = 0
    BY <2>2, FS_EmptySet
  <2>4. RunPending' = 0
    BY <1>3 DEF RunPending
  <2>5. \A i \in DOMAIN items : /\ Len(markdown'[i].notes) + RunPending' <= captionRuns'
                                /\ Range(markdown'[i].notes) = {}
    BY <1>8, <2>1, <2>4 DEF Range
  <2>6. \A j \in DOMAIN items' : Cardinality(Noted(j)') + RunPending' <= captionRuns'
    BY <1>8, <2>3, <2>4
  <2> QED BY <1>10, <2>5, <2>6 DEF NotesFit
<1>14. ChunksFit' /\ FiguresAssigned'
  <2>1. OwnedChunks(Chunked(w, saved, tabled), saved, tabled)
    BY <1>4, ChunkedIs
  <2>2. OwnedChunks(figureChunks', saved, tabled)
    BY <1>5, <2>1
  <2>3. ChunksFit'
    BY <1>5, <2>2 DEF ChunksFit, OwnedChunks
  <2>4. Assigned(figureChunks', items', images' \cup tables')
    BY <1>3, <1>5, <2>2 DEF Assigned, OwnedChunks
  <2> QED BY <2>3, <2>4, AssignedIs
<1>15. AskedInTurn' /\ CaptionsSearchable'
  BY <1>3, NotDoneYet DEF AskedInTurn
<1> QED BY <1>7, <1>9, <1>11, <1>12, <1>13, <1>14, <1>15 DEF FiguresInv

LEMMA FiguresKeep == FiguresInv /\ [FiguresNext]_figureVars => FiguresInv'
<1> SUFFICES ASSUME FiguresInv, [FiguresNext]_figureVars PROVE FiguresInv'
  OBVIOUS
<1>1. CASE ParseFigures
  BY <1>1, ParseKeeps
<1>2. CASE TakeCaption
  BY <1>2, TakeKeeps
<1>3. CASE CommitCaptions
  BY <1>3, CommitKeeps
<1>4. CASE CaptionMarkdown
  BY <1>4, MarkdownKeeps
<1>5. CASE CaptionChunks
  BY <1>5, ChunksKeep
<1>6. CASE CaptionsFail \/ CaptionWorkerDies
  BY <1>6, StopKeeps
<1>7. CASE \E i \in DOMAIN asking : AskModel(i) \/ ModelAnswers(i)
  BY <1>7, TaskKeeps
<1>8. CASE UNCHANGED figureVars
  <2> USE <1>8 DEF figureVars
  <2>1. FiguresShape' /\ TasksFit' /\ NothingYet' /\ MarkdownFits' /\ PicturesInPlace'
    <3>1. AskedFor' = AskedFor /\ InCall' = InCall
      BY DEF AskedFor, InCall
    <3> QED BY <3>1 DEF FiguresInv, FiguresShape, TasksFit, NothingYet, MarkdownFits,
                        PicturesInPlace, Of
  <2>2. NotesFit'
    <3>1. RunPending' = RunPending /\ \A j : Noted(j)' = Noted(j)
      BY DEF RunPending, Noted
    <3> QED BY <3>1 DEF FiguresInv, NotesFit, NoteFits
  <2>3. ChunksFit' /\ FiguresAssigned'
    BY ChunksStay DEF FiguresInv
  <2>4. AskedInTurn' /\ CaptionsSearchable'
    BY DEF FiguresInv, AskedInTurn, CaptionsSearchable
  <2> QED BY <2>1, <2>2, <2>3, <2>4 DEF FiguresInv
<1> QED BY <1>1, <1>2, <1>3, <1>4, <1>5, <1>6, <1>7, <1>8 DEF FiguresNext

LEMMA LessByRun ==
    ASSUME NEW n \in Nat, NEW p \in {0, 1}, NEW a \in Nat, n + p <= a
    PROVE  n <= a
  OBVIOUS

\* The figures, the rows and the tasks of a caption run are what they are declared
\* to be, and no more captions are asked for at a time than there are slots.
THEOREM FiguresTyped == FiguresSpec => []FiguresTypeOK
<1>1. FiguresInv => FiguresTypeOK
  <2> SUFFICES ASSUME FiguresInv PROVE FiguresTypeOK
    OBVIOUS
  <2>1. FiguresShape /\ TasksFit
    BY DEF FiguresInv
  <2>2. images \cup tables \cup captions \subseteq DOMAIN items
    BY <2>1 DEF FiguresShape, Of
  <2> QED BY <2>1, <2>2 DEF FiguresShape, TasksFit, FiguresTypeOK, FigureStages, TaskStates, InCall
<1> QED BY <1>1, FiguresStart, FiguresKeep, PTL DEF FiguresSpec

\* However often the caption message is delivered and whatever fails: a picture is
\* shown in its own place, a figure belongs to the first chunk that begins on its
\* page, a caption stands after its own table where the rows tell the tables apart,
\* once for each run at most, and when nothing failed the chunk of a figure has
\* its caption.
THEOREM FiguresKeepTheirOwn == FiguresSpec => []FiguresAreTheirOwn
<1>1. FiguresInv => FiguresAreTheirOwn
  <2> SUFFICES ASSUME FiguresInv PROVE FiguresAreTheirOwn
    OBVIOUS
  <2>1. /\ FiguresShape /\ NothingYet /\ MarkdownFits /\ PicturesInPlace /\ NotesFit
        /\ FiguresAssigned /\ CaptionsSearchable
    BY DEF FiguresInv
  <2>2. CaptionsInPlace
    <3> SUFFICES ASSUME NEW i \in DOMAIN markdown
                 PROVE  /\ Len(markdown[i].notes) <= captionRuns
                        /\ \A j \in Range(markdown[i].notes) :
                              /\ j \in captions
                              /\ (\A h \in Of("table") \ {j} :
                                    Head(items[j].rows) \notin Range(items[h].rows)) => i = j
                              /\ Cardinality(Noted(j)) <= captionRuns
      BY DEF CaptionsInPlace
    <3>1. figureStage # "converted" /\ DOMAIN markdown = DOMAIN items
      BY <2>1 DEF NothingYet, MarkdownFits
    <3>2. markdown[i].notes \in Seq(DOMAIN items)
      BY <2>1, <3>1 DEF MarkdownFits
    <3>3. RunPending \in {0, 1} /\ captionRuns \in Nat
      BY <2>1 DEF RunPending, FiguresShape
    <3>4. Len(markdown[i].notes) <= captionRuns
      <4>1. Len(markdown[i].notes) \in Nat
        BY <3>2
      <4>2. Len(markdown[i].notes) + RunPending <= captionRuns
        BY <2>1 DEF NotesFit
      <4> QED BY <3>3, <4>1, <4>2, LessByRun
    <3>5. ASSUME NEW j \in Range(markdown[i].notes)
          PROVE  /\ j \in captions
                 /\ (\A h \in Of("table") \ {j} :
                       Head(items[j].rows) \notin Range(items[h].rows)) => i = j
                 /\ Cardinality(Noted(j)) <= captionRuns
      <4>1. NoteFits(i, j)
        BY <2>1 DEF NotesFit
      <4>2. j \in captions /\ j \in DOMAIN items /\ i \in DOMAIN items
        BY <2>1, <3>1, <4>1 DEF NoteFits, FiguresShape, Of
      <4>3. i \in Of("table")
        <5>1. items[i].rows # <<>>
          BY <4>1 DEF NoteFits, Range
        <5>2. items[i].kind = "table" <=> items[i].rows # <<>>
          BY <2>1, <4>2, ItemsTyped DEF FiguresShape
        <5> QED BY <4>2, <5>1, <5>2 DEF Of
      <4>4. Cardinality(Noted(j)) \in Nat /\ Cardinality(Noted(j)) + RunPending <= captionRuns
        BY <2>1, <3>1, <4>2, NotedFinite DEF NotesFit
      <4>5. Cardinality(Noted(j)) <= captionRuns
        BY <3>3, <4>4, LessByRun
      <4> QED BY <4>1, <4>2, <4>3, <4>5 DEF NoteFits
    <3> QED BY <3>4, <3>5
  <2> QED BY <2>1, <2>2 DEF FiguresAreTheirOwn
<1> QED BY <1>1, FiguresStart, FiguresKeep, PTL DEF FiguresSpec
=============================================================================
