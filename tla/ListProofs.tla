------------------------------ MODULE ListProofs ------------------------------
(***************************************************************************)
(* Theorems about module ListTomasulo: its lists lose no station and keep  *)
(* the order of issue, and the processor with lists implements the one     *)
(* with sets.                                                              *)
(***************************************************************************)
EXTENDS ListTomasulo, ListTheorems

-----------------------------------------------------------------------------
(***************************************************************************)
(* The operators of the processor with sets are those used here.           *)
(***************************************************************************)
LEMMA SameNames ==
  /\ P!Byte = Byte /\ P!WordBytes = WordBytes /\ P!WordMod = WordMod /\ P!Word = Word
  /\ P!IntegerNames = IntegerNames /\ P!BranchNames = BranchNames
  /\ P!LoadNames = LoadNames /\ P!StoreNames = StoreNames /\ P!FloatNames = FloatNames
  /\ P!AluNames = AluNames /\ P!Types = Types /\ P!Operands = Operands
  /\ P!NoInstr = NoInstr
BY DEF P!Byte, Byte, P!WordBytes, WordBytes, P!WordMod, WordMod, P!Word, Word,
   P!IntegerNames, IntegerNames, P!BranchNames, BranchNames, P!LoadNames, LoadNames,
   P!StoreNames, StoreNames, P!FloatNames, FloatNames, P!AluNames, AluNames,
   P!Types, Types, P!Operands, Operands, P!NoInstr, NoInstr

LEMMA SameCardinality ==
  ASSUME NEW S PROVE P!Cardinality(S) = Cardinality(S)
BY Zenon DEF P!Cardinality, Cardinality

LEMMA SameData ==
  /\ \A m, a : P!wordAt(m, a) = wordAt(m, a)
  /\ \A w : P!toBytes(w) = toBytes(w)
  /\ \A m, a, b, n : P!stored(m, a, b, n) = stored(m, a, b, n)
  /\ \A w, a : P!decode(w, a) = decode(w, a)
  /\ P!MemSize = MemSize
  /\ \A a : P!Accessible(a) <=> Accessible(a)
  /\ \A a : P!readUWord(a) = readUWord(a)
  /\ \A a : P!readString(a) = readString(a)
<1>1. \A m, a : P!wordAt(m, a) = wordAt(m, a)
  BY DEF P!wordAt, wordAt, P!toWord, toWord
<1>2. \A w : P!toBytes(w) = toBytes(w)
  BY DEF P!toBytes, toBytes
<1>3. \A m, a, b, n : P!stored(m, a, b, n) = stored(m, a, b, n)
  BY DEF P!stored, stored
<1>4. \A n : /\ P!HasRd(n) = HasRd(n) /\ P!HasRs1(n) = HasRs1(n)
             /\ P!HasRs2(n) = HasRs2(n)
  BY SameNames DEF P!HasRd, HasRd, P!HasRs1, HasRs1, P!HasRs2, HasRs2
<1>5. \A w, a : P!decode(w, a) = decode(w, a)
  BY <1>4, SameNames DEF P!decode, decode
<1>6. P!MemSize = MemSize
  BY SameNames DEF P!MemSize, MemSize
<1>7. \A a : P!Accessible(a) <=> Accessible(a)
  BY <1>6, SameNames DEF P!Accessible, Accessible, P!Invalid, Invalid
<1>8. \A a : P!readUWord(a) = readUWord(a)
  BY <1>1 DEF P!readUWord, readUWord
<1>9. ASSUME NEW m, NEW a PROVE P!stringLength(m, a) = stringLength(m, a)
  <2>1. {x \in a .. (P!MemSize - 1) : \A b \in a .. x : m[b] # 0}
          = {x \in a .. (MemSize - 1) : \A b \in a .. x : m[b] # 0}
    BY <1>6
  <2> QED BY <2>1, SameCardinality, Zenon DEF P!stringLength, stringLength
<1>10. \A a : P!readString(a) = readString(a)
  BY <1>9 DEF P!readString, readString, P!stringAt, stringAt
<1> QED BY <1>1, <1>2, <1>3, <1>5, <1>6, <1>7, <1>8, <1>10

LEMMA SameClasses ==
  /\ \A i : P!getType(i) = getType(i)
  /\ \A i : P!getDest(i) = getDest(i)
  /\ \A i, k : P!getArg(i, k) = getArg(i, k)
  /\ \A i : P!getWriteAction(i) = getWriteAction(i)
  /\ \A i, a : P!getTarget(i, a) = getTarget(i, a)
  /\ \A i, a : P!EffectiveAddress(i, a) = EffectiveAddress(i, a)
  /\ \A i, a : P!BranchResult(i, a) = BranchResult(i, a)
  /\ \A i, a, b : P!Compute(i, a, b) = Compute(i, a, b)
  /\ \A i, a, b : P!DivisionFaults(i, a, b) <=> DivisionFaults(i, a, b)
  /\ \A u : P!executeInOrder(u) <=> executeInOrder(u)
<1>1. \A i : P!getType(i) = getType(i)
  BY SameNames DEF P!getType, getType, P!getInstructionType, getInstructionType
<1>2. \A i : P!getDest(i) = getDest(i)
  BY SameNames DEF P!getDest, getDest
<1>3. \A i, k : P!getArg(i, k) = getArg(i, k)
  BY SameNames DEF P!getArg, getArg
<1>4. \A i : P!getWriteAction(i) = getWriteAction(i)
  BY SameNames DEF P!getWriteAction, getWriteAction
<1>5. \A i, a : P!getTarget(i, a) = getTarget(i, a)
  BY SameNames DEF P!getTarget, getTarget
<1>6. \A i, a : P!EffectiveAddress(i, a) = EffectiveAddress(i, a)
  BY SameNames DEF P!EffectiveAddress, EffectiveAddress
<1>7. \A i, a : P!BranchResult(i, a) = BranchResult(i, a)
  BY <1>5, SameNames DEF P!BranchResult, BranchResult
<1>8. \A i, a, b : P!Compute(i, a, b) = Compute(i, a, b)
  BY SameNames DEF P!Compute, Compute
<1>9. \A i, a, b : P!DivisionFaults(i, a, b) <=> DivisionFaults(i, a, b)
  BY SameNames DEF P!DivisionFaults, DivisionFaults
<1>10. \A u : P!executeInOrder(u) <=> executeInOrder(u)
  BY DEF P!executeInOrder, executeInOrder
<1> QED BY <1>1, <1>2, <1>3, <1>4, <1>5, <1>6, <1>7, <1>8, <1>9, <1>10

\* The steps of a station: issue, execute, write, commit, retirement.
LEMMA SameIssue ==
  /\ \A i, s, c : P!setInstruction(s, i, c) <=> setInstruction(s, i, c)
  /\ \A S : P!clearInstruction(S) <=> clearInstruction(S)
<1>1. \A i, k : P!operandSource(i, k) = operandSource(i, k)
  BY SameClasses DEF P!operandSource, operandSource, P!getRenaming, getRenaming
<1>2. \A i, k : P!operandValue(i, k) = operandValue(i, k)
  BY <1>1, SameClasses DEF P!operandValue, operandValue, P!read, read
<1>3. \A i, s : P!renameDest(i, s) <=> renameDest(i, s)
  BY SameClasses DEF P!renameDest, renameDest, P!rename, rename
<1>4. ASSUME NEW i, NEW s, NEW c
      PROVE  P!setInstruction(s, i, c) <=> setInstruction(s, i, c)
  BY <1>1, <1>2, <1>3, SameNames DEF P!setInstruction, setInstruction
<1>5. \A s : P!getReverseRename(s) = getReverseRename(s)
  BY Zenon DEF P!getReverseRename, getReverseRename
<1>6. \A S : P!clearRename(S) <=> clearRename(S)
  BY <1>5 DEF P!clearRename, clearRename
<1>7. ASSUME NEW S PROVE P!clearInstruction(S) <=> clearInstruction(S)
  BY <1>6, SameNames DEF P!clearInstruction, clearInstruction
<1> QED BY <1>4, <1>7

LEMMA SameExecute ==
  /\ \A s : P!ExecuteCycle(s) <=> ExecuteCycle(s)
  /\ \A s : P!ExecuteComplete(s) <=> ExecuteComplete(s)
  /\ \A s : P!ExecuteFault(s) <=> ExecuteFault(s)
<1>1. \A s : P!countDown(s) = countDown(s)
  BY DEF P!countDown, countDown
<1>2. \A s : P!executeFaults(s) <=> executeFaults(s)
  BY SameNames, SameData, SameClasses DEF P!executeFaults, executeFaults
<1>3. \A s : P!executeResult(s) = executeResult(s)
  BY SameNames, SameData, SameClasses DEF P!executeResult, executeResult
<1>4. \A s : P!trapValues(s) = trapValues(s)
  BY SameNames, SameData DEF P!trapValues, trapValues
<1>5. \A s : P!trapOutput(s) <=> trapOutput(s)
  BY <1>4 DEF P!trapOutput, trapOutput
<1>6. \A s : P!ExecuteCycle(s) <=> ExecuteCycle(s)
  BY <1>1 DEF P!ExecuteCycle, ExecuteCycle
<1>7. \A s : P!ExecuteComplete(s) <=> ExecuteComplete(s)
  BY <1>1, <1>2, <1>3, <1>5 DEF P!ExecuteComplete, ExecuteComplete
<1>8. \A s : P!ExecuteFault(s) <=> ExecuteFault(s)
  BY <1>1, <1>2 DEF P!ExecuteFault, ExecuteFault
<1> QED BY <1>6, <1>7, <1>8

LEMMA SameWrite ==
  /\ \A s : P!WriteNothing(s) <=> WriteNothing(s)
  /\ \A s : P!WriteRegister(s) <=> WriteRegister(s)
  /\ \A s : P!WritePC(s) <=> WritePC(s)
  /\ \A s : P!WriteMemory(s) <=> WriteMemory(s)
  /\ \A s : P!writeFaults(s) <=> writeFaults(s)
<1>1. \A s : P!arbitrate(s) = arbitrate(s)
  BY DEF P!arbitrate, arbitrate, P!Older, Older
<1>2. \A s : P!WriteNothing(s) <=> WriteNothing(s)
  BY SameClasses DEF P!WriteNothing, WriteNothing, P!fetchVars, fetchVars
<1>3. \A s : P!WriteRegister(s) <=> WriteRegister(s)
  BY <1>1, SameClasses DEF P!WriteRegister, WriteRegister, P!fetchVars, fetchVars
<1>4. \A s : P!WritePC(s) <=> WritePC(s)
  BY SameClasses DEF P!WritePC, WritePC
<1>5. \A s : P!WriteMemory(s) <=> WriteMemory(s)
  BY SameNames, SameData, SameClasses DEF P!WriteMemory, WriteMemory, P!writeUWord,
     writeUWord, P!fetchVars, fetchVars
<1>6. \A s : P!writeFaults(s) <=> writeFaults(s)
  BY SameData, SameClasses DEF P!writeFaults, writeFaults
<1> QED BY <1>2, <1>3, <1>4, <1>5, <1>6

LEMMA SameCommit == P!Commit <=> Commit
<1>1. \A s, k, w : P!captures(s, k, w) <=> captures(s, k, w)
  BY DEF P!captures, captures
<1>2. \A w : P!sourcesAfter(w) = sourcesAfter(w)
  BY <1>1, SameNames DEF P!sourcesAfter, sourcesAfter
<1>3. \A w : P!completed(w) = completed(w)
  BY <1>2, SameNames DEF P!completed, completed
<1>4. \A r, v : P!write(r, v) <=> write(r, v)
  BY DEF P!write, write
<1>5. ASSUME NEW w PROVE P!CommitWriter(w) <=> CommitWriter(w)
  BY <1>1, <1>2, <1>3, <1>4, SameNames, SameClasses
  DEF P!CommitWriter, CommitWriter, P!fetchVars, fetchVars
<1> QED BY <1>5 DEF P!Commit, Commit, P!stationVars, stationVars, P!busVars, busVars,
           P!fetchVars, fetchVars, P!memoryVars, memoryVars

-----------------------------------------------------------------------------
(***************************************************************************)
(* What the advance takes off the lists, as sets.                          *)
(***************************************************************************)
LEMMA LeadingFacts ==
  ASSUME NEW seq \in Seq(Stations), startClock \in [Stations -> Nat],
         Sorted(seq, startClock), NEW st
  PROVE  /\ Leading(seq, st) \in Seq(Stations)
         /\ Distinct(Leading(seq, st)) /\ Sorted(Leading(seq, st), startClock)
         /\ Elements(Leading(seq, st)) =
              {s \in Elements(seq) : /\ state[s] = st
                                     /\ \A t \in Elements(seq) : Older(t, s) => state[t] = st}
         /\ \A s \in Elements(Leading(seq, st)), t \in Elements(seq) \ Elements(Leading(seq, st)) :
              Older(s, t)
<1> DEFINE A == {n \in DOMAIN seq : \A j \in 1 .. n : state[seq[j]] = st}
           m == Cardinality(A)
<1>1. /\ Len(seq) \in Nat /\ DOMAIN seq = 1 .. Len(seq)
      /\ \A j \in DOMAIN seq : seq[j] \in Stations
  BY LenProperties
<1>2. m \in 0 .. Len(seq) /\ A = 1 .. m
  <2>1. A \in SUBSET (1 .. Len(seq))
    BY <1>1
  <2>2. \A k \in A, j \in 1 .. Len(seq) : j < k => j \in A
    BY <1>1
  <2> HIDE DEF A
  <2> QED BY <1>1, <2>1, <2>2, PrefixCount
<1>3. Leading(seq, st) = SubSeq(seq, 1, m)
  BY DEF Leading
<1>4. \A n \in DOMAIN seq : n \in A <=> /\ state[seq[n]] = st
                                        /\ \A t \in Elements(seq) : Older(t, seq[n]) => state[t] = st
  <2> SUFFICES ASSUME NEW n \in DOMAIN seq
               PROVE  n \in A <=> /\ state[seq[n]] = st
                                  /\ \A t \in Elements(seq) : Older(t, seq[n]) => state[t] = st
    OBVIOUS
  <2>1. \A j \in DOMAIN seq : Older(seq[j], seq[n]) <=> j < n
    <3> SUFFICES ASSUME NEW j \in DOMAIN seq PROVE Older(seq[j], seq[n]) <=> j < n
      OBVIOUS
    <3>1. startClock[seq[j]] \in Nat /\ startClock[seq[n]] \in Nat
      BY <1>1
    <3>2. j < n => startClock[seq[j]] < startClock[seq[n]]
      BY DEF Sorted
    <3>3. n < j => startClock[seq[n]] < startClock[seq[j]]
      BY DEF Sorted
    <3> QED BY <1>1, <3>1, <3>2, <3>3 DEF Older
  <2>2. (\A t \in Elements(seq) : Older(t, seq[n]) => state[t] = st)
          <=> \A j \in DOMAIN seq : j < n => state[seq[j]] = st
    BY <2>1 DEF Elements
  <2>3. n \in A <=> \A j \in 1 .. n : state[seq[j]] = st
    OBVIOUS
  <2>4. \A j : j \in 1 .. n <=> j = n \/ (j \in DOMAIN seq /\ j < n)
    BY <1>1
  <2> HIDE DEF A
  <2> QED BY <2>2, <2>3, <2>4
<1> HIDE DEF A, m
<1>5. Elements(SubSeq(seq, 1, m)) =
        {s \in Elements(seq) : /\ state[s] = st
                               /\ \A t \in Elements(seq) : Older(t, s) => state[t] = st}
  <2>1. Elements(SubSeq(seq, 1, m)) = {seq[j] : j \in 1 .. m}
    BY <1>2, PrefixFacts
  <2>2. A \subseteq DOMAIN seq
    BY DEF A
  <2>3. {seq[j] : j \in A} = {s \in Elements(seq) :
            /\ state[s] = st
            /\ \A t \in Elements(seq) : Older(t, s) => state[t] = st}
    BY <1>4, <2>2 DEF Elements
  <2> QED BY <1>2, <2>1, <2>3
<1>6. Distinct(seq)
  BY SortedDistinct
<1> DEFINE p == SubSeq(seq, 1, m)
<1>7. p \in Seq(Stations) /\ Distinct(p)
  BY <1>2, <1>6, PrefixFacts
<1>8. p = SubSeq(seq, 1, m)
  OBVIOUS
<1> HIDE DEF p
<1>9. /\ Sorted(p, startClock)
      /\ \A s \in Elements(p), t \in Elements(seq) \ Elements(p) : Older(s, t)
  BY <1>2, <1>8, PrefixSorted DEF Older
<1> QED BY <1>3, <1>5, <1>7, <1>8, <1>9

LEMMA MovableFacts ==
  ASSUME NEW u, NEW seq \in Seq(Stations), Distinct(seq), startClock \in [Stations -> Nat],
         executeInOrder(u) => Sorted(seq, startClock), NEW st
  PROVE  /\ Movable(u, seq, st) \in Seq(Stations) /\ Distinct(Movable(u, seq, st))
         /\ Sorted(seq, startClock) => Sorted(Movable(u, seq, st), startClock)
         /\ Elements(Movable(u, seq, st)) =
              {s \in Elements(seq) :
                 /\ state[s] = st
                 /\ executeInOrder(u) =>
                      \A t \in Elements(seq) : Older(t, s) => state[t] = st}
         /\ executeInOrder(u) =>
              \A s \in Elements(Movable(u, seq, st)), t \in Elements(seq) \ Elements(Movable(u, seq, st)) :
                Older(s, t)
<1>1. CASE executeInOrder(u)
  <2>1. Movable(u, seq, st) = Leading(seq, st)
    BY <1>1 DEF Movable
  <2> QED BY <1>1, <2>1, LeadingFacts
<1>2. CASE ~executeInOrder(u)
  <2> DEFINE S == {s \in Stations : state[s] = st}
  <2>1. Movable(u, seq, st) = Kept(seq, S)
    BY <1>2 DEF Movable, InState
  <2>2. Elements(seq) \subseteq Stations
    BY LenProperties DEF Elements
  <2>3. Elements(seq) \cap S = {s \in Elements(seq) : state[s] = st}
    BY <2>2
  <2> HIDE DEF S
  <2>4. /\ Kept(seq, S) \in Seq(Stations) /\ Distinct(Kept(seq, S))
        /\ Elements(Kept(seq, S)) = Elements(seq) \cap S
        /\ Sorted(seq, startClock) => Sorted(Kept(seq, S), startClock)
    BY KeptFacts, KeptDistinct, KeptSorted
  <2> QED BY <1>2, <2>1, <2>3, <2>4
<1> QED BY <1>1, <1>2

\* The lists as sets, all in the terms of the processor with sets.
LEMMA ListMembers ==
  ASSUME ListInv
  PROVE  /\ listOf \in [Stations -> {"idle", "issued", "executing", "writing"}]
         /\ \A s \in Stations : unitOf[s] \in Types
         /\ \A u \in Types :
              /\ idleStations[u] \in Seq(Stations) /\ issuedStations[u] \in Seq(Stations)
              /\ executingStations[u] \in Seq(Stations) /\ writingStations[u] \in Seq(Stations)
         /\ \A u, l : P!InList(u, l) = {s \in Stations : unitOf[s] = u /\ listOf[s] = l}
<1>1. listOf \in [Stations -> {"idle", "issued", "executing", "writing"}]
  BY DEF listOf
<1>2. \A s \in Stations : unitOf[s] \in Types
  BY UnitAssumption
<1> QED BY <1>1, <1>2 DEF ListInv, ListTypeOK, P!InList

LEMMA RetiredFacts ==
  ASSUME ListInv, NEW u \in Types
  PROVE  /\ retired(u) \in Seq(Stations) /\ Distinct(retired(u))
         /\ Elements(retired(u)) = {s \in P!Retired : unitOf[s] = u}
<1>1. /\ writingStations[u] \in Seq(Stations) /\ Distinct(writingStations[u])
      /\ Elements(writingStations[u]) = {s \in Stations : unitOf[s] = u /\ listOf[s] = "writing"}
      /\ startClock \in [Stations -> Nat]
  BY ListMembers DEF ListInv, ListsPartStations, ListTypeOK
<1> DEFINE S == {s \in Stations : state[s] = "WriteComplete"}
<1>2. retired(u) = Kept(writingStations[u], S)
  BY DEF retired, InState
<1> DEFINE seq == writingStations[u]
<1> HIDE DEF S, seq
<1>3. retired(u) \in Seq(Stations) /\ Distinct(retired(u))
  <2>1. seq \in Seq(Stations) /\ Distinct(seq) /\ retired(u) = Kept(seq, S)
    BY <1>1, <1>2 DEF seq
  <2> QED BY <2>1, KeptFacts, KeptDistinct
<1>4. Elements(retired(u)) = Elements(writingStations[u]) \cap S
  BY <1>1, <1>2, KeptFacts
<1>5. P!Retired = {s \in Stations : listOf[s] = "writing" /\ state[s] = "WriteComplete"}
  BY DEF P!Retired
<1> QED BY <1>1, <1>3, <1>4, <1>5 DEF S

LEMMA ExecutedFacts ==
  ASSUME ListInv, NEW u \in Types
  PROVE  /\ executed(u) \in Seq(Stations) /\ Distinct(executed(u))
         /\ Elements(executed(u)) = P!Completed(u)
         /\ executeInOrder(u) =>
              /\ Sorted(executed(u), startClock)
              /\ \A s \in P!Completed(u), t \in P!InList(u, "executing") \ P!Completed(u) : Older(s, t)
<1>1. /\ executingStations[u] \in Seq(Stations) /\ Distinct(executingStations[u])
      /\ Elements(executingStations[u]) = P!InList(u, "executing")
      /\ startClock \in [Stations -> Nat]
      /\ executeInOrder(u) => Sorted(executingStations[u], startClock)
  BY ListMembers DEF ListInv, ListsPartStations, ListTypeOK, ListsInOrder
<1>2. executed(u) = Movable(u, executingStations[u], "ExecutionComplete")
  BY DEF executed
<1>3. P!Completed(u) =
        {s \in P!InList(u, "executing") :
           /\ state[s] = "ExecutionComplete"
           /\ executeInOrder(u) => \A t \in P!InList(u, "executing") :
                Older(t, s) => state[t] = "ExecutionComplete"}
  BY SameClasses DEF P!Completed, P!Older, Older
<1> QED BY <1>1, <1>2, <1>3, MovableFacts

LEMMA UsedFacts ==
  ASSUME ListInv, NEW u \in Types
  PROVE  used(u) \in Int /\ P!freeUnits(u) = numExecuteUnits[u] - used(u)
<1> DEFINE E == Elements(executingStations[u])  W == Elements(writingStations[u])
           R == Elements(retired(u))
<1>1. /\ executingStations[u] \in Seq(Stations) /\ Distinct(executingStations[u])
      /\ writingStations[u] \in Seq(Stations) /\ Distinct(writingStations[u])
      /\ retired(u) \in Seq(Stations) /\ Distinct(retired(u))
      /\ executed(u) \in Seq(Stations)
  BY ListMembers, RetiredFacts, ExecutedFacts DEF ListInv, ListsPartStations
<1>2. /\ IsFiniteSet(E) /\ Cardinality(E) = Len(executingStations[u])
      /\ IsFiniteSet(W) /\ Cardinality(W) = Len(writingStations[u])
      /\ IsFiniteSet(R) /\ Cardinality(R) = Len(retired(u))
  BY <1>1, DistinctLen
<1>3. /\ E = P!InList(u, "executing") /\ W = P!InList(u, "writing")
      /\ R = {s \in P!Retired : unitOf[s] = u}
  BY RetiredFacts DEF ListInv, ListsPartStations
<1>4. /\ R \subseteq W /\ E \cap W = {}
      /\ (P!InList(u, "executing") \cup P!InList(u, "writing")) \ P!Retired = E \cup (W \ R)
  BY <1>3, ListMembers DEF P!Retired
<1>5. /\ Len(executingStations[u]) \in Nat /\ Len(writingStations[u]) \in Nat
      /\ Len(retired(u)) \in Nat /\ Len(executed(u)) \in Nat
  BY <1>1, LenProperties
<1> HIDE DEF E, W, R
<1>6. IsFiniteSet(W \ R) /\ Cardinality(W \ R) = Cardinality(W) - Cardinality(R)
  <2>1. W \cap R = R
    BY <1>4
  <2>2. /\ IsFiniteSet(W \ R)
        /\ Cardinality(W \ R) = Cardinality(W) - Cardinality(W \cap R)
    BY <1>2, FS_Difference
  <2> QED BY <2>1, <2>2
<1>7. Cardinality(E \cup (W \ R)) = Cardinality(E) + Cardinality(W \ R)
  <2>1. E \cap (W \ R) = {}
    BY <1>4
  <2>2. Cardinality({}) = 0
    BY FS_EmptySet
  <2>3. Cardinality(E) \in Nat /\ Cardinality(W \ R) \in Nat
    BY <1>2, <1>6, FS_CardinalityType
  <2>4. Cardinality(E \cup (W \ R))
          = Cardinality(E) + Cardinality(W \ R) - Cardinality(E \cap (W \ R))
    BY <1>2, <1>6, FS_Union
  <2> DEFINE D == W \ R
  <2>5. /\ Cardinality(E) \in Nat /\ Cardinality(D) \in Nat
        /\ Cardinality(E \cup D) = Cardinality(E) + Cardinality(D) - 0
    BY <2>1, <2>2, <2>3, <2>4
  <2> HIDE DEF D
  <2>6. Cardinality(E \cup D) = Cardinality(E) + Cardinality(D)
    BY <2>5
  <2> QED BY <2>6 DEF D
<1>8. used(u) = Len(executingStations[u]) + Len(writingStations[u]) - Len(retired(u))
  <2> DEFINE e == Len(executingStations[u])  w == Len(writingStations[u])
             o == Len(retired(u))            x == Len(executed(u))
  <2>1. used(u) = (e - x) + ((w - o) + x)
    BY Zenon DEF used
  <2>2. e \in Nat /\ w \in Nat /\ o \in Nat /\ x \in Nat
    BY <1>5
  <2> HIDE DEF e, w, o, x
  <2>3. used(u) = e + w - o
    BY <2>1, <2>2
  <2> QED BY <2>3 DEF e, w, o
<1>9. used(u) = Cardinality(E \cup (W \ R))
  <2>1. Cardinality(E) + (Cardinality(W) - Cardinality(R))
          = Len(executingStations[u]) + Len(writingStations[u]) - Len(retired(u))
    BY <1>2, <1>5
  <2> QED BY <1>6, <1>7, <1>8, <2>1
<1>10. used(u) \in Int
  BY <1>5, <1>8
<1>11. P!freeUnits(u) = numExecuteUnits[u] - Cardinality(E \cup (W \ R))
  BY <1>4, SameCardinality, Zenon DEF P!freeUnits
<1> QED BY <1>9, <1>10, <1>11

LEMMA StartedFacts ==
  ASSUME ListInv, NEW u \in Types
  PROVE  /\ started(u) \in Seq(Stations) /\ Distinct(started(u))
         /\ Elements(started(u)) = P!Started(u)
         /\ Sorted(started(u), startClock)
         /\ executeInOrder(u) =>
              \A s \in P!Started(u), t \in P!InList(u, "issued") \ P!Started(u) : Older(s, t)
<1> DEFINE ready == Movable(u, issuedStations[u], "ReadyToExecute")
           free  == numExecuteUnits[u] - used(u)
<1>1. /\ issuedStations[u] \in Seq(Stations) /\ Distinct(issuedStations[u])
      /\ Elements(issuedStations[u]) = P!InList(u, "issued")
      /\ startClock \in [Stations -> Nat]
      /\ Sorted(issuedStations[u], startClock)
  BY ListMembers DEF ListInv, ListsPartStations, ListTypeOK, ListsInOrder
<1>2. P!Startable(u) =
        {s \in P!InList(u, "issued") :
           /\ state[s] = "ReadyToExecute"
           /\ executeInOrder(u) => \A t \in P!InList(u, "issued") :
                Older(t, s) => state[t] = "ReadyToExecute"}
  BY SameClasses DEF P!Startable, P!Older, Older
<1>3. /\ ready \in Seq(Stations) /\ Sorted(ready, startClock)
      /\ Elements(ready) = P!Startable(u)
      /\ executeInOrder(u) =>
           \A s \in P!Startable(u), t \in P!InList(u, "issued") \ P!Startable(u) : Older(s, t)
  <2> DEFINE seq == issuedStations[u]
  <2> HIDE DEF seq
  <2>1. /\ seq \in Seq(Stations) /\ Distinct(seq) /\ Sorted(seq, startClock)
        /\ Elements(seq) = P!InList(u, "issued")
        /\ ready = Movable(u, seq, "ReadyToExecute")
    BY <1>1 DEF seq
  <2> HIDE DEF ready
  <2>2. /\ ready \in Seq(Stations) /\ Sorted(ready, startClock)
        /\ Elements(ready) =
             {s \in Elements(seq) :
                /\ state[s] = "ReadyToExecute"
                /\ executeInOrder(u) =>
                     \A t \in Elements(seq) : Older(t, s) => state[t] = "ReadyToExecute"}
        /\ executeInOrder(u) =>
             \A s \in Elements(ready), t \in Elements(seq) \ Elements(ready) : Older(s, t)
    BY <1>1, <2>1, MovableFacts
  <2>3. Elements(ready) = P!Startable(u)
    BY <1>2, <2>1, <2>2, Zenon
  <2> QED BY <2>1, <2>2, <2>3
<1>4. free \in Int /\ free = P!freeUnits(u)
  BY UsedFacts, ExecuteUnitsAssumption
<1>5. started(u) = SubSeq(ready, 1, IF free < Len(ready) THEN free ELSE Len(ready))
  BY DEF started
<1> HIDE DEF ready, free
<1>6. P!Started(u) = {s \in Elements(ready) :
         Cardinality(Before(Elements(ready), startClock, s)) < free}
  BY <1>3, <1>4, SameCardinality, Zenon DEF P!Started, P!Older, Before
<1>7. /\ started(u) \in Seq(Stations) /\ Distinct(started(u)) /\ Sorted(started(u), startClock)
      /\ Elements(started(u)) = P!Started(u)
      /\ \A s \in P!Started(u), t \in P!Startable(u) \ P!Started(u) : Older(s, t)
  <2>1. /\ started(u) \in Seq(Stations) /\ Distinct(started(u)) /\ Sorted(started(u), startClock)
        /\ \A s : s \in Elements(started(u))
                    <=> s \in Elements(ready) /\ Cardinality(Before(Elements(ready), startClock, s)) < free
        /\ \A s \in Elements(started(u)), t \in Elements(ready) \ Elements(started(u)) :
              startClock[s] < startClock[t]
    BY <1>1, <1>3, <1>4, <1>5, FirstFacts
  <2>2. Elements(started(u)) = P!Started(u)
    BY <1>6, <2>1
  <2> QED BY <1>3, <2>1, <2>2 DEF Older
<1>8. P!Started(u) \subseteq P!Startable(u)
  BY DEF P!Started
<1> QED BY <1>3, <1>7, <1>8

-----------------------------------------------------------------------------
(***************************************************************************)
(* The advance.                                                            *)
(***************************************************************************)
\* Where a station is after a step that leaves the lists with these members.
LEMMA ListsRebuilt ==
  ASSUME NEW f \in [Stations -> {"idle", "issued", "executing", "writing"}],
         \A u \in Types :
           /\ Elements(issuedStations'[u])    = {s \in Stations : unitOf[s] = u /\ f[s] = "issued"}
           /\ Elements(executingStations'[u]) = {s \in Stations : unitOf[s] = u /\ f[s] = "executing"}
           /\ Elements(writingStations'[u])   = {s \in Stations : unitOf[s] = u /\ f[s] = "writing"}
  PROVE  listOf' = f
<1>1. \A s \in Stations : unitOf[s] \in Types
  BY UnitAssumption
<1>2. listOf' = [s \in Stations |->
        CASE s \in Elements(issuedStations'[unitOf[s]])    -> "issued"
          [] s \in Elements(executingStations'[unitOf[s]]) -> "executing"
          [] s \in Elements(writingStations'[unitOf[s]])   -> "writing"
          [] OTHER                                         -> "idle"]
  BY DEF listOf, Elements
<1>3. \A s \in Stations :
        /\ s \in Elements(issuedStations'[unitOf[s]])    <=> f[s] = "issued"
        /\ s \in Elements(executingStations'[unitOf[s]]) <=> f[s] = "executing"
        /\ s \in Elements(writingStations'[unitOf[s]])   <=> f[s] = "writing"
  BY <1>1
<1> QED BY <1>2, <1>3

\* The stations the advance moves.
Completing == UNION {P!Completed(u) : u \in Types}
Starting   == UNION {P!Started(u) : u \in Types}

LEMMA MovedStations ==
  ASSUME ListInv
  PROVE  /\ P!Retired \subseteq {s \in Stations : listOf[s] = "writing"}
         /\ Completing \subseteq {s \in Stations : listOf[s] = "executing"}
         /\ Starting \subseteq {s \in Stations : listOf[s] = "issued"}
         /\ \A u \in Types : /\ P!Completed(u) = {s \in Completing : unitOf[s] = u}
                             /\ P!Started(u) = {s \in Starting : unitOf[s] = u}
         /\ UNION {Elements(retired(u)) : u \in Types} = P!Retired
         /\ UNION {Elements(executed(u)) : u \in Types} = Completing
         /\ UNION {Elements(started(u)) : u \in Types} = Starting
<1>1. \A u \in Types : Elements(retired(u)) = {s \in P!Retired : unitOf[s] = u}
  BY RetiredFacts
<1>2. \A u \in Types : /\ Elements(executed(u)) = P!Completed(u)
                       /\ Elements(started(u)) = P!Started(u)
  BY ExecutedFacts, StartedFacts
<1>3. \A u : /\ P!Completed(u) \subseteq P!InList(u, "executing")
             /\ P!Started(u) \subseteq P!InList(u, "issued")
  BY DEF P!Completed, P!Started, P!Startable
<1>4. \A u \in Types : /\ P!Completed(u) = {s \in Completing : unitOf[s] = u}
                       /\ P!Started(u) = {s \in Starting : unitOf[s] = u}
  BY <1>3, ListMembers DEF Completing, Starting
<1>5. UNION {Elements(retired(u)) : u \in Types} = P!Retired
  BY <1>1, ListMembers DEF P!Retired
<1>6. /\ UNION {Elements(executed(u)) : u \in Types} = Completing
      /\ UNION {Elements(started(u)) : u \in Types} = Starting
  BY <1>2 DEF Completing, Starting
<1>7. /\ Completing \subseteq {s \in Stations : listOf[s] = "executing"}
      /\ Starting \subseteq {s \in Stations : listOf[s] = "issued"}
  BY <1>3, ListMembers DEF Completing, Starting
<1> QED BY <1>4, <1>5, <1>6, <1>7 DEF P!Retired

LEMMA AdvancedLists ==
  ASSUME ListInv, advanceLists
  PROVE  /\ clearInstruction(P!Retired)
         /\ idleStations' = [u \in Types |-> idleStations[u] \o retired(u)]
         /\ writingStations' =
              [u \in Types |-> Without(writingStations[u], P!Retired) \o executed(u)]
         /\ executingStations' =
              [u \in Types |-> Without(executingStations[u], Completing) \o started(u)]
         /\ issuedStations' = [u \in Types |-> Without(issuedStations[u], Starting)]
         /\ state' = [s \in Stations |->
                        CASE s \in P!Retired  -> "Idle"
                          [] s \in Completing -> "Writing"
                          [] s \in Starting   -> "Executing"
                          [] OTHER            -> state[s]]
BY MovedStations DEF advanceLists, retireLists

\* Where the advance leaves a station.
Advanced == [s \in Stations |->
               CASE s \in P!Retired  -> "idle"
                 [] s \in Completing -> "writing"
                 [] s \in Starting   -> "executing"
                 [] OTHER            -> listOf[s]]

LEMMA WithoutFacts ==
  ASSUME NEW seq \in Seq(Stations), NEW S, startClock \in [Stations -> Nat]
  PROVE  /\ Without(seq, S) \in Seq(Stations)
         /\ Elements(Without(seq, S)) = Elements(seq) \ S
         /\ Distinct(seq) => Distinct(Without(seq, S))
         /\ Sorted(seq, startClock) => Sorted(Without(seq, S), startClock)
<1>1. Elements(seq) \subseteq Stations
  BY LenProperties DEF Elements
<1> QED BY <1>1, KeptFacts, KeptDistinct, KeptSorted DEF Without

LEMMA AdvanceMembers ==
  ASSUME ListInv, advanceLists, NEW u \in Types
  PROVE  /\ idleStations'[u] \in Seq(Stations) /\ Distinct(idleStations'[u])
         /\ Elements(idleStations'[u]) = {s \in Stations : unitOf[s] = u /\ Advanced[s] = "idle"}
         /\ issuedStations'[u] \in Seq(Stations) /\ Distinct(issuedStations'[u])
         /\ Elements(issuedStations'[u]) = {s \in Stations : unitOf[s] = u /\ Advanced[s] = "issued"}
         /\ executingStations'[u] \in Seq(Stations) /\ Distinct(executingStations'[u])
         /\ Elements(executingStations'[u]) = {s \in Stations : unitOf[s] = u /\ Advanced[s] = "executing"}
         /\ writingStations'[u] \in Seq(Stations) /\ Distinct(writingStations'[u])
         /\ Elements(writingStations'[u]) = {s \in Stations : unitOf[s] = u /\ Advanced[s] = "writing"}
<1>0. startClock \in [Stations -> Nat]
  BY DEF ListInv, ListTypeOK
<1>1. /\ idleStations[u] \in Seq(Stations) /\ Distinct(idleStations[u])
      /\ issuedStations[u] \in Seq(Stations) /\ Distinct(issuedStations[u])
      /\ executingStations[u] \in Seq(Stations) /\ Distinct(executingStations[u])
      /\ writingStations[u] \in Seq(Stations) /\ Distinct(writingStations[u])
      /\ Elements(idleStations[u])      = {s \in Stations : unitOf[s] = u /\ listOf[s] = "idle"}
      /\ Elements(issuedStations[u])    = {s \in Stations : unitOf[s] = u /\ listOf[s] = "issued"}
      /\ Elements(executingStations[u]) = {s \in Stations : unitOf[s] = u /\ listOf[s] = "executing"}
      /\ Elements(writingStations[u])   = {s \in Stations : unitOf[s] = u /\ listOf[s] = "writing"}
  BY ListMembers DEF ListInv, ListsPartStations
<1>2. /\ retired(u) \in Seq(Stations) /\ Distinct(retired(u))
      /\ Elements(retired(u)) = {s \in P!Retired : unitOf[s] = u}
      /\ executed(u) \in Seq(Stations) /\ Distinct(executed(u))
      /\ Elements(executed(u)) = {s \in Completing : unitOf[s] = u}
      /\ started(u) \in Seq(Stations) /\ Distinct(started(u))
      /\ Elements(started(u)) = {s \in Starting : unitOf[s] = u}
  BY RetiredFacts, ExecutedFacts, StartedFacts, MovedStations
<1>3. /\ P!Retired \subseteq {s \in Stations : listOf[s] = "writing"}
      /\ Completing \subseteq {s \in Stations : listOf[s] = "executing"}
      /\ Starting \subseteq {s \in Stations : listOf[s] = "issued"}
  BY MovedStations
<1>4. ASSUME NEW s \in Stations
      PROVE  /\ Advanced[s] = "idle" <=> (listOf[s] = "idle" \/ s \in P!Retired)
             /\ Advanced[s] = "issued" <=> (listOf[s] = "issued" /\ s \notin Starting)
             /\ Advanced[s] = "executing"
                  <=> ((listOf[s] = "executing" /\ s \notin Completing) \/ s \in Starting)
             /\ Advanced[s] = "writing"
                  <=> ((listOf[s] = "writing" /\ s \notin P!Retired) \/ s \in Completing)
  BY <1>3 DEF Advanced
<1>5. /\ idleStations'[u] \in Seq(Stations) /\ Distinct(idleStations'[u])
      /\ Elements(idleStations'[u]) = {s \in Stations : unitOf[s] = u /\ Advanced[s] = "idle"}
  <2>1. idleStations'[u] = idleStations[u] \o retired(u)
    BY AdvancedLists
  <2>2. Elements(idleStations[u]) \cap Elements(retired(u)) = {}
    BY <1>1, <1>2, <1>3
  <2>3. /\ idleStations'[u] \in Seq(Stations) /\ Distinct(idleStations'[u])
        /\ Elements(idleStations'[u]) = Elements(idleStations[u]) \cup Elements(retired(u))
    BY <1>1, <1>2, <2>1, <2>2, ConcatFacts
  <2> QED BY <1>1, <1>2, <1>3, <1>4, <2>3
<1>6. /\ issuedStations'[u] \in Seq(Stations) /\ Distinct(issuedStations'[u])
      /\ Elements(issuedStations'[u]) = {s \in Stations : unitOf[s] = u /\ Advanced[s] = "issued"}
  <2>1. issuedStations'[u] = Without(issuedStations[u], Starting)
    BY AdvancedLists
  <2>2. /\ issuedStations'[u] \in Seq(Stations) /\ Distinct(issuedStations'[u])
        /\ Elements(issuedStations'[u]) = Elements(issuedStations[u]) \ Starting
    BY <1>0, <1>1, <2>1, WithoutFacts
  <2> QED BY <1>1, <1>4, <2>2
<1>7. /\ executingStations'[u] \in Seq(Stations) /\ Distinct(executingStations'[u])
      /\ Elements(executingStations'[u]) = {s \in Stations : unitOf[s] = u /\ Advanced[s] = "executing"}
  <2> DEFINE left == Without(executingStations[u], Completing)
  <2>1. executingStations'[u] = left \o started(u)
    BY AdvancedLists
  <2>2. left \in Seq(Stations) /\ Distinct(left) /\ Elements(left) = Elements(executingStations[u]) \ Completing
    BY <1>0, <1>1, WithoutFacts
  <2> HIDE DEF left
  <2>3. Elements(left) \cap Elements(started(u)) = {}
    BY <1>1, <1>2, <1>3, <2>2
  <2>4. /\ executingStations'[u] \in Seq(Stations) /\ Distinct(executingStations'[u])
        /\ Elements(executingStations'[u]) = Elements(left) \cup Elements(started(u))
    BY <1>2, <2>1, <2>2, <2>3, ConcatFacts
  <2> QED BY <1>1, <1>2, <1>3, <1>4, <2>2, <2>4
<1>8. /\ writingStations'[u] \in Seq(Stations) /\ Distinct(writingStations'[u])
      /\ Elements(writingStations'[u]) = {s \in Stations : unitOf[s] = u /\ Advanced[s] = "writing"}
  <2> DEFINE left == Without(writingStations[u], P!Retired)
  <2>1. writingStations'[u] = left \o executed(u)
    BY AdvancedLists
  <2>2. left \in Seq(Stations) /\ Distinct(left) /\ Elements(left) = Elements(writingStations[u]) \ P!Retired
    BY <1>0, <1>1, WithoutFacts
  <2> HIDE DEF left
  <2>3. Elements(left) \cap Elements(executed(u)) = {}
    BY <1>1, <1>2, <1>3, <2>2
  <2>4. /\ writingStations'[u] \in Seq(Stations) /\ Distinct(writingStations'[u])
        /\ Elements(writingStations'[u]) = Elements(left) \cup Elements(executed(u))
    BY <1>2, <2>1, <2>2, <2>3, ConcatFacts
  <2> QED BY <1>1, <1>2, <1>3, <1>4, <2>2, <2>4
<1> QED BY <1>5, <1>6, <1>7, <1>8

LEMMA AdvancedListOf ==
  ASSUME ListInv, advanceLists
  PROVE  listOf' = Advanced
<1> DEFINE f == Advanced
<1>1. f \in [Stations -> {"idle", "issued", "executing", "writing"}]
  BY ListMembers DEF Advanced
<1>2. \A u \in Types :
        /\ Elements(issuedStations'[u])    = {s \in Stations : unitOf[s] = u /\ f[s] = "issued"}
        /\ Elements(executingStations'[u]) = {s \in Stations : unitOf[s] = u /\ f[s] = "executing"}
        /\ Elements(writingStations'[u])   = {s \in Stations : unitOf[s] = u /\ f[s] = "writing"}
  BY AdvanceMembers
<1> HIDE DEF f
<1>3. listOf' = f
  BY <1>1, <1>2, ListsRebuilt
<1> QED BY <1>3 DEF f

\* The advance of the lists is that of the sets.
LEMMA AdvanceRefines ==
  ASSUME ListInv, advanceLists
  PROVE  P!AdvanceStations
<1>1. P!clearInstruction(P!Retired)
  BY AdvancedLists, SameIssue
<1>2. listOf' = [s \in Stations |->
                   CASE s \in P!Retired  -> "idle"
                     [] s \in Completing -> "writing"
                     [] s \in Starting   -> "executing"
                     [] OTHER            -> listOf[s]]
  BY AdvancedListOf DEF Advanced
<1>3. state' = [s \in Stations |->
                  CASE s \in P!Retired  -> "Idle"
                    [] s \in Completing -> "Writing"
                    [] s \in Starting   -> "Executing"
                    [] OTHER            -> state[s]]
  BY AdvancedLists
<1>4. /\ Completing = UNION {P!Completed(u) : u \in P!Types}
      /\ Starting = UNION {P!Started(u) : u \in P!Types}
  BY SameNames DEF Completing, Starting
<1> QED BY <1>1, <1>2, <1>3, <1>4 DEF P!AdvanceStations

\* What moves on keeps its clock.
LEMMA AdvancedClocks ==
  ASSUME ListInv, advanceLists
  PROVE  /\ startClock' \in [Stations -> Nat]
         /\ \A s \in Stations : Advanced[s] # "idle" =>
              /\ listOf[s] # "idle"
              /\ startClock'[s] = startClock[s]
<1>1. startClock \in [Stations -> Nat]
  BY DEF ListInv, ListTypeOK
<1>2. startClock' = [s \in Stations |-> IF s \in P!Retired THEN 0 ELSE startClock[s]]
  BY AdvancedLists DEF clearInstruction
<1>3. /\ P!Retired \subseteq {s \in Stations : listOf[s] = "writing"}
      /\ Completing \subseteq {s \in Stations : listOf[s] = "executing"}
      /\ Starting \subseteq {s \in Stations : listOf[s] = "issued"}
  BY MovedStations
<1>4. \A s \in Stations : Advanced[s] # "idle" => s \notin P!Retired /\ listOf[s] # "idle"
  BY <1>3 DEF Advanced
<1> QED BY <1>1, <1>2, <1>4

LEMMA AdvanceOrder ==
  ASSUME ListInv, advanceLists, NEW u \in Types
  PROVE  /\ Sorted(issuedStations'[u], startClock)
         /\ executeInOrder(u) =>
              /\ Sorted(executingStations'[u], startClock)
              /\ Sorted(writingStations'[u], startClock)
              /\ \A s \in Elements(writingStations'[u]), t \in Elements(executingStations'[u]) : Older(s, t)
              /\ \A s \in Elements(writingStations'[u]), t \in Elements(issuedStations'[u]) : Older(s, t)
              /\ \A s \in Elements(executingStations'[u]), t \in Elements(issuedStations'[u]) : Older(s, t)
<1> DEFINE W == Elements(writingStations[u])  E == Elements(executingStations[u])
           I == Elements(issuedStations[u])
<1>0. /\ startClock \in [Stations -> Nat]
      /\ issuedStations[u] \in Seq(Stations) /\ executingStations[u] \in Seq(Stations)
      /\ writingStations[u] \in Seq(Stations)
      /\ Sorted(issuedStations[u], startClock)
  BY ListMembers DEF ListInv, ListTypeOK, ListsInOrder
<1>1. /\ issuedStations'[u] = Without(issuedStations[u], Starting)
      /\ executingStations'[u] = Without(executingStations[u], Completing) \o started(u)
      /\ writingStations'[u] = Without(writingStations[u], P!Retired) \o executed(u)
  BY AdvancedLists
<1>2. Sorted(issuedStations'[u], startClock)
  BY <1>0, <1>1, WithoutFacts
<1>3. ASSUME executeInOrder(u)
      PROVE  /\ Sorted(executingStations'[u], startClock)
             /\ Sorted(writingStations'[u], startClock)
             /\ \A s \in Elements(writingStations'[u]), t \in Elements(executingStations'[u]) : Older(s, t)
             /\ \A s \in Elements(writingStations'[u]), t \in Elements(issuedStations'[u]) : Older(s, t)
             /\ \A s \in Elements(executingStations'[u]), t \in Elements(issuedStations'[u]) : Older(s, t)
  <2>1. /\ Sorted(executingStations[u], startClock) /\ Sorted(writingStations[u], startClock)
        /\ \A s \in W, t \in E : Older(s, t)
        /\ \A s \in W, t \in I : Older(s, t)
        /\ \A s \in E, t \in I : Older(s, t)
    BY <1>3 DEF ListInv, ListsInOrder
  <2>2. /\ executed(u) \in Seq(Stations) /\ Sorted(executed(u), startClock)
        /\ Elements(executed(u)) = P!Completed(u)
        /\ \A s \in P!Completed(u), t \in E \ P!Completed(u) : Older(s, t)
        /\ P!Completed(u) \subseteq E
        /\ P!Completed(u) = {s \in Completing : unitOf[s] = u}
    <3>1. E = P!InList(u, "executing")
      BY DEF ListInv, ListsPartStations
    <3> QED BY <1>3, <3>1, ExecutedFacts, MovedStations DEF P!Completed
  <2>3. /\ started(u) \in Seq(Stations) /\ Sorted(started(u), startClock)
        /\ Elements(started(u)) = P!Started(u)
        /\ \A s \in P!Started(u), t \in I \ P!Started(u) : Older(s, t)
        /\ P!Started(u) \subseteq I
        /\ P!Started(u) = {s \in Starting : unitOf[s] = u}
    <3>1. I = P!InList(u, "issued")
      BY DEF ListInv, ListsPartStations
    <3> QED BY <1>3, <3>1, StartedFacts, MovedStations DEF P!Started, P!Startable
  <2>4. /\ \A s \in E : s \in Completing <=> s \in P!Completed(u)
        /\ \A s \in I : s \in Starting <=> s \in P!Started(u)
    BY <2>2, <2>3, ListMembers DEF ListInv, ListsPartStations
  <2> DEFINE lw == Without(writingStations[u], P!Retired)
             le == Without(executingStations[u], Completing)
  <2>5. /\ lw \in Seq(Stations) /\ Sorted(lw, startClock) /\ Elements(lw) \subseteq W
        /\ le \in Seq(Stations) /\ Sorted(le, startClock) /\ Elements(le) = E \ P!Completed(u)
        /\ Elements(issuedStations'[u]) = I \ P!Started(u)
    <3>1. lw \in Seq(Stations) /\ Sorted(lw, startClock) /\ Elements(lw) \subseteq W
      BY <1>0, <2>1, WithoutFacts
    <3>2. /\ le \in Seq(Stations) /\ Sorted(le, startClock)
          /\ Elements(le) = E \ Completing
      BY <1>0, <2>1, WithoutFacts
    <3>3. Elements(issuedStations'[u]) = I \ Starting
      BY <1>0, <1>1, WithoutFacts
    <3> HIDE DEF lw, le, W, E, I
    <3>4. E \ Completing = E \ P!Completed(u) /\ I \ Starting = I \ P!Started(u)
      BY <2>4
    <3> QED BY <3>1, <3>2, <3>3, <3>4
  <2> HIDE DEF lw, le, W, E, I
  <2>6. /\ Sorted(writingStations'[u], startClock)
        /\ Elements(writingStations'[u]) = Elements(lw) \cup P!Completed(u)
    <3>1. writingStations'[u] = lw \o executed(u)
      BY <1>1 DEF lw
    <3>2. \A x \in Elements(lw), y \in Elements(executed(u)) : startClock[x] < startClock[y]
      BY <2>1, <2>2, <2>5 DEF Older
    <3> QED BY <2>2, <2>5, <3>1, <3>2, ConcatFacts
  <2>7. /\ Sorted(executingStations'[u], startClock)
        /\ Elements(executingStations'[u]) = (E \ P!Completed(u)) \cup P!Started(u)
    <3>1. executingStations'[u] = le \o started(u)
      BY <1>1 DEF le
    <3>2. \A x \in Elements(le), y \in Elements(started(u)) : startClock[x] < startClock[y]
      BY <2>1, <2>3, <2>5 DEF Older
    <3> QED BY <2>3, <2>5, <3>1, <3>2, ConcatFacts
  <2>8. \A s \in Elements(writingStations'[u]), t \in Elements(executingStations'[u]) : Older(s, t)
    BY <2>1, <2>2, <2>3, <2>5, <2>6, <2>7
  <2>9. \A s \in Elements(writingStations'[u]), t \in Elements(issuedStations'[u]) : Older(s, t)
    BY <2>1, <2>2, <2>5, <2>6
  <2>10. \A s \in Elements(executingStations'[u]), t \in Elements(issuedStations'[u]) : Older(s, t)
    BY <2>1, <2>3, <2>5, <2>7
  <2> QED BY <2>6, <2>7, <2>8, <2>9, <2>10
<1> QED BY <1>2, <1>3

\* The advance keeps the invariant.
LEMMA AdvanceKeeps ==
  ASSUME ListInv, LAdvance
  PROVE  ListInv'
<1>1. advanceLists /\ clockCounter' = clockCounter + 1 /\ phase' = "issue"
  BY DEF LAdvance
<1>2. UNCHANGED <<halted, calls, unitOrder>>
  BY DEF LAdvance, Same
<1>3. listOf' = Advanced
  BY <1>1, AdvancedListOf
<1>4. /\ startClock' \in [Stations -> Nat]
      /\ \A s \in Stations : Advanced[s] # "idle" =>
           listOf[s] # "idle" /\ startClock'[s] = startClock[s]
  BY <1>1, AdvancedClocks
<1>5. ListTypeOK'
  <2>1. /\ idleStations' \in [Types -> Seq(Stations)]
        /\ issuedStations' \in [Types -> Seq(Stations)]
        /\ executingStations' \in [Types -> Seq(Stations)]
        /\ writingStations' \in [Types -> Seq(Stations)]
    <3>1. \A u \in Types :
            /\ idleStations'[u] \in Seq(Stations) /\ issuedStations'[u] \in Seq(Stations)
            /\ executingStations'[u] \in Seq(Stations) /\ writingStations'[u] \in Seq(Stations)
      BY <1>1, AdvanceMembers
    <3>2. /\ idleStations' = [u \in Types |-> idleStations'[u]]
          /\ issuedStations' = [u \in Types |-> issuedStations'[u]]
          /\ executingStations' = [u \in Types |-> executingStations'[u]]
          /\ writingStations' = [u \in Types |-> writingStations'[u]]
      BY <1>1, AdvancedLists
    <3> QED BY <3>1, <3>2
  <2> QED BY <1>1, <1>2, <1>4, <2>1 DEF ListInv, ListTypeOK, Distinct
<1>6. ListsPartStations'
  <2>1. \A u, l : P!InList(u, l)' = {s \in Stations : unitOf[s] = u /\ Advanced[s] = l}
    BY <1>3 DEF P!InList
  <2>2. \A u \in Types :
          /\ Distinct(idleStations'[u])      /\ Elements(idleStations'[u])      = P!InList(u, "idle")'
          /\ Distinct(issuedStations'[u])    /\ Elements(issuedStations'[u])    = P!InList(u, "issued")'
          /\ Distinct(executingStations'[u]) /\ Elements(executingStations'[u]) = P!InList(u, "executing")'
          /\ Distinct(writingStations'[u])   /\ Elements(writingStations'[u])   = P!InList(u, "writing")'
    BY <1>1, <2>1, AdvanceMembers
  <2> QED BY <2>2 DEF ListsPartStations
<1>7. ListsInOrder'
  <2>1. \A u \in Types, s \in Stations :
          s \in Elements(issuedStations'[u]) \cup Elements(executingStations'[u])
                  \cup Elements(writingStations'[u])
            => startClock'[s] = startClock[s]
    BY <1>1, <1>4, AdvanceMembers
  <2>2. \A u \in Types :
          /\ Elements(issuedStations'[u]) \subseteq Stations
          /\ Elements(executingStations'[u]) \subseteq Stations
          /\ Elements(writingStations'[u]) \subseteq Stations
    BY <1>1, AdvanceMembers
  <2>3. ASSUME NEW u \in Types
        PROVE  /\ Sorted(issuedStations'[u], startClock')
               /\ executeInOrder(u) =>
                    /\ Sorted(executingStations'[u], startClock')
                    /\ Sorted(writingStations'[u], startClock')
                    /\ \A s \in Elements(writingStations'[u]), t \in Elements(executingStations'[u]) :
                         startClock'[s] < startClock'[t]
                    /\ \A s \in Elements(writingStations'[u]), t \in Elements(issuedStations'[u]) :
                         startClock'[s] < startClock'[t]
                    /\ \A s \in Elements(executingStations'[u]), t \in Elements(issuedStations'[u]) :
                         startClock'[s] < startClock'[t]
    <3>1. Sorted(issuedStations'[u], startClock')
      BY <1>1, <2>1, <2>2, AdvanceOrder, SortedSame
    <3>2. ASSUME executeInOrder(u)
          PROVE  Sorted(executingStations'[u], startClock') /\ Sorted(writingStations'[u], startClock')
      BY <1>1, <2>1, <2>2, <3>2, AdvanceOrder, SortedSame
    <3> QED BY <1>1, <2>1, <2>2, <3>1, <3>2, AdvanceOrder DEF Older
  <2> QED BY <2>3 DEF ListsInOrder, Older
<1>8. IssuedBefore'
  <2>1. \A s \in Stations : listOf[s] # "idle" => startClock[s] <= clockCounter
    BY DEF ListInv, IssuedBefore
  <2>2. clockCounter \in Nat /\ startClock \in [Stations -> Nat]
    BY DEF ListInv, ListTypeOK
  <2>3. \A s \in Stations : Advanced[s] # "idle" => startClock'[s] < clockCounter'
    BY <1>1, <1>4, <2>1, <2>2
  <2> QED BY <1>1, <1>3, <1>4, <2>2, <2>3 DEF IssuedBefore
<1> QED BY <1>5, <1>6, <1>7, <1>8 DEF ListInv

-----------------------------------------------------------------------------
(***************************************************************************)
(* The order of the calls.                                                 *)
(***************************************************************************)
LEMMA FiveTypes == IsFiniteSet(Types) /\ Cardinality(Types) = 5
<1> DEFINE S1 == {"Integer"}  S2 == S1 \cup {"Trap"}  S3 == S2 \cup {"Branch"}
           S4 == S3 \cup {"Memory"}   S5 == S4 \cup {"FloatingPoint"}
<1>1. IsFiniteSet(S1) /\ Cardinality(S1) = 1
  BY FS_Singleton
<1>2. IsFiniteSet(S2) /\ Cardinality(S2) = 2
  BY <1>1, FS_AddElement
<1>3. IsFiniteSet(S3) /\ Cardinality(S3) = 3
  BY <1>2, FS_AddElement
<1>4. IsFiniteSet(S4) /\ Cardinality(S4) = 4
  BY <1>3, FS_AddElement
<1>5. IsFiniteSet(S5) /\ Cardinality(S5) = 5
  BY <1>4, FS_AddElement
<1>6. S5 = Types
  BY DEF Types
<1> QED BY <1>5, <1>6

\* Every unit comes once in the order of the map.
LEMMA OrderFacts ==
  ASSUME NEW o \in UnitOrders
  PROVE  /\ \A j \in 1 .. 5 : o[j] \in Types
         /\ \A j, k \in 1 .. 5 : o[j] = o[k] => j = k
         /\ \A u \in Types : \E j \in 1 .. 5 : o[j] = u
<1>1. o \in Seq(Types) /\ Elements(o) = Types /\ Len(o) = 5
  BY UnitOrdersAssumption, FiveTypes
<1>2. o \in [1 .. 5 -> Types] /\ DOMAIN o = 1 .. 5
  BY <1>1, LenProperties
<1>3. \A u \in Types : \E j \in 1 .. 5 : o[j] = u
  BY <1>1, <1>2 DEF Elements
<1> DEFINE I == 1 .. 5
<1>4. o \in Surjection(I, Types)
  BY <1>2, <1>3 DEF Surjection
<1>5. IsFiniteSet(I) /\ Cardinality(I) = Cardinality(Types)
  <2>1. 1 \in Int /\ 5 \in Int
    OBVIOUS
  <2>2. IsFiniteSet(I) /\ Cardinality(I) = IF 1 > 5 THEN 0 ELSE 5 - 1 + 1
    BY <2>1, FS_Interval, Zenon
  <2> QED BY <2>2, FiveTypes
<1>6. o \in Injection(I, Types)
  <2> HIDE DEF I
  <2> QED BY <1>4, <1>5, FS_SurjSameCardinalityImpliesInj
<1>7. \A j, k \in 1 .. 5 : o[j] = o[k] => j = k
  BY <1>2, <1>6 DEF Injection, IsInjective
<1> QED BY <1>2, <1>3, <1>7

LEMMA CallOrderFacts ==
  ASSUME unitOrder \in UnitOrders, NEW ls \in [Types -> Seq(Stations)],
         \A u \in Types : Distinct(ls[u]),
         \A u, v \in Types : u # v => Elements(ls[u]) \cap Elements(ls[v]) = {}
  PROVE  /\ CallOrder(ls) \in Seq(Stations)
         /\ Distinct(CallOrder(ls))
         /\ Elements(CallOrder(ls)) = UNION {Elements(ls[u]) : u \in Types}
<1> DEFINE l1 == ls[unitOrder[1]]  l2 == ls[unitOrder[2]]  l3 == ls[unitOrder[3]]
           l4 == ls[unitOrder[4]]  l5 == ls[unitOrder[5]]
<1>0. /\ 1 \in 1 .. 5 /\ 2 \in 1 .. 5 /\ 3 \in 1 .. 5 /\ 4 \in 1 .. 5 /\ 5 \in 1 .. 5
      /\ \A j \in 1 .. 5 : j = 1 \/ j = 2 \/ j = 3 \/ j = 4 \/ j = 5
  OBVIOUS
<1>1. /\ \A j \in 1 .. 5 : unitOrder[j] \in Types
      /\ \A j, k \in 1 .. 5 : unitOrder[j] = unitOrder[k] => j = k
      /\ \A u \in Types : \E j \in 1 .. 5 : unitOrder[j] = u
  BY OrderFacts
<1>2. /\ l1 \in Seq(Stations) /\ l2 \in Seq(Stations) /\ l3 \in Seq(Stations)
      /\ l4 \in Seq(Stations) /\ l5 \in Seq(Stations)
      /\ Distinct(l1) /\ Distinct(l2) /\ Distinct(l3) /\ Distinct(l4) /\ Distinct(l5)
  BY <1>0, <1>1
<1>3. \A j, k \in 1 .. 5 : j # k => Elements(ls[unitOrder[j]]) \cap Elements(ls[unitOrder[k]]) = {}
  BY <1>1
<1>4. /\ Elements(l1) \cap Elements(l2) = {} /\ Elements(l1) \cap Elements(l3) = {}
      /\ Elements(l1) \cap Elements(l4) = {} /\ Elements(l1) \cap Elements(l5) = {}
      /\ Elements(l2) \cap Elements(l3) = {} /\ Elements(l2) \cap Elements(l4) = {}
      /\ Elements(l2) \cap Elements(l5) = {} /\ Elements(l3) \cap Elements(l4) = {}
      /\ Elements(l3) \cap Elements(l5) = {} /\ Elements(l4) \cap Elements(l5) = {}
  BY <1>0, <1>3
<1>5. UNION {Elements(ls[u]) : u \in Types}
        = Elements(l1) \cup Elements(l2) \cup Elements(l3) \cup Elements(l4) \cup Elements(l5)
  <2>1. Types = {unitOrder[1], unitOrder[2], unitOrder[3], unitOrder[4], unitOrder[5]}
    BY <1>0, <1>1
  <2> QED BY <2>1
<1> DEFINE c2 == l1 \o l2  c3 == c2 \o l3  c4 == c3 \o l4  c5 == c4 \o l5
<1>6. CallOrder(ls) = c5
  BY DEF CallOrder
<1> HIDE DEF l1, l2, l3, l4, l5
<1>7. c2 \in Seq(Stations) /\ Distinct(c2) /\ Elements(c2) = Elements(l1) \cup Elements(l2)
  BY <1>2, <1>4, ConcatFacts
<1> HIDE DEF c2
<1>8. /\ c3 \in Seq(Stations) /\ Distinct(c3)
      /\ Elements(c3) = Elements(l1) \cup Elements(l2) \cup Elements(l3)
  <2>1. Elements(c2) \cap Elements(l3) = {}
    BY <1>4, <1>7
  <2> QED BY <1>2, <1>7, <2>1, ConcatFacts
<1> HIDE DEF c3
<1>9. /\ c4 \in Seq(Stations) /\ Distinct(c4)
      /\ Elements(c4) = Elements(l1) \cup Elements(l2) \cup Elements(l3) \cup Elements(l4)
  <2>1. Elements(c3) \cap Elements(l4) = {}
    BY <1>4, <1>8
  <2> QED BY <1>2, <1>8, <2>1, ConcatFacts
<1> HIDE DEF c4
<1>10. /\ c5 \in Seq(Stations) /\ Distinct(c5)
       /\ Elements(c5) = Elements(l1) \cup Elements(l2) \cup Elements(l3) \cup Elements(l4) \cup Elements(l5)
  <2>1. Elements(c4) \cap Elements(l5) = {}
    BY <1>4, <1>9
  <2> QED BY <1>2, <1>9, <2>1, ConcatFacts
<1> QED BY <1>5, <1>6, <1>10

\* The calls of a phase are the stations on the list of that phase.
LEMMA CallsOfPhase ==
  ASSUME ListInv
  PROVE  /\ CallOrder(executingStations) \in Seq(Stations)
         /\ Distinct(CallOrder(executingStations))
         /\ Elements(CallOrder(executingStations)) = {s \in Stations : listOf[s] = "executing"}
         /\ CallOrder(writingStations) \in Seq(Stations)
         /\ Distinct(CallOrder(writingStations))
         /\ Elements(CallOrder(writingStations)) = {s \in Stations : listOf[s] = "writing"}
<1>1. /\ unitOrder \in UnitOrders
      /\ executingStations \in [Types -> Seq(Stations)]
      /\ writingStations \in [Types -> Seq(Stations)]
  BY DEF ListInv, ListTypeOK
<1>2. \A u \in Types :
        /\ Distinct(executingStations[u]) /\ Distinct(writingStations[u])
        /\ Elements(executingStations[u]) = {s \in Stations : unitOf[s] = u /\ listOf[s] = "executing"}
        /\ Elements(writingStations[u]) = {s \in Stations : unitOf[s] = u /\ listOf[s] = "writing"}
  BY ListMembers DEF ListInv, ListsPartStations
<1>3. /\ UNION {Elements(executingStations[u]) : u \in Types} = {s \in Stations : listOf[s] = "executing"}
      /\ UNION {Elements(writingStations[u]) : u \in Types} = {s \in Stations : listOf[s] = "writing"}
  BY <1>2, ListMembers
<1>4. \A u, v \in Types : u # v =>
        /\ Elements(executingStations[u]) \cap Elements(executingStations[v]) = {}
        /\ Elements(writingStations[u]) \cap Elements(writingStations[v]) = {}
  BY <1>2
<1> QED BY <1>1, <1>2, <1>3, <1>4, CallOrderFacts

-----------------------------------------------------------------------------
(***************************************************************************)
(* Issue.                                                                  *)
(***************************************************************************)
LEMMA IssueMembers ==
  ASSUME ListInv, phase = "issue", NEW i, issueFront(i, clockCounter),
         idleStations[getType(i)] # <<>>
  PROVE  LET u == getType(i)  s == Head(idleStations[u]) IN
         /\ s \in P!InList(u, "idle")
         /\ startClock' = [startClock EXCEPT ![s] = clockCounter]
         /\ listOf' = [listOf EXCEPT ![s] = "issued"]
         /\ idleStations' \in [Types -> Seq(Stations)]
         /\ issuedStations' \in [Types -> Seq(Stations)]
         /\ \A v \in Types :
              /\ Distinct(idleStations'[v]) /\ Distinct(issuedStations'[v])
              /\ Elements(idleStations'[v]) = P!InList(v, "idle") \ {s}
              /\ Elements(issuedStations'[v]) = IF v = u THEN P!InList(v, "issued") \cup {s}
                                                ELSE P!InList(v, "issued")
              /\ Sorted(issuedStations'[v], startClock')
<1> DEFINE u == getType(i)  s == Head(idleStations[u])
<1>0. u \in Types
  BY DEF getType, getInstructionType, Types
<1>1. /\ startClock \in [Stations -> Nat] /\ clockCounter \in Nat
      /\ idleStations \in [Types -> Seq(Stations)] /\ issuedStations \in [Types -> Seq(Stations)]
  BY DEF ListInv, ListTypeOK
<1>2. \A v \in Types :
        /\ Distinct(idleStations[v]) /\ Elements(idleStations[v]) = P!InList(v, "idle")
        /\ Distinct(issuedStations[v]) /\ Elements(issuedStations[v]) = P!InList(v, "issued")
        /\ Sorted(issuedStations[v], startClock)
        /\ Elements(executingStations[v]) = P!InList(v, "executing")
        /\ Elements(writingStations[v]) = P!InList(v, "writing")
  BY DEF ListInv, ListsPartStations, ListsInOrder
<1>3. /\ idleStations' = [idleStations EXCEPT ![u] = Tail(@)]
      /\ issuedStations' = [issuedStations EXCEPT ![u] = Append(@, s)]
      /\ executingStations' = executingStations /\ writingStations' = writingStations
      /\ startClock' = [startClock EXCEPT ![s] = clockCounter]
  BY DEF issueFront, setInstruction
<1>4. idleStations[u] # <<>>
  OBVIOUS
<1> HIDE DEF u, s
<1>5. /\ s \in Stations /\ s \in Elements(idleStations[u])
      /\ Tail(idleStations[u]) \in Seq(Stations)
      /\ Elements(idleStations[u]) = Elements(Tail(idleStations[u])) \cup {s}
      /\ Distinct(Tail(idleStations[u])) /\ s \notin Elements(Tail(idleStations[u]))
  <2>1. idleStations[u] \in Seq(Stations) /\ s = Head(idleStations[u]) /\ Distinct(idleStations[u])
    BY <1>0, <1>1, <1>2 DEF s
  <2> QED BY <1>4, <2>1, TailFacts
<1>6. unitOf[s] = u /\ listOf[s] = "idle" /\ s \in P!InList(u, "idle")
  BY <1>0, <1>2, <1>5, ListMembers
<1>7. s \notin Elements(issuedStations[u])
  BY <1>0, <1>2, <1>6, ListMembers
<1>8. /\ Append(issuedStations[u], s) \in Seq(Stations)
      /\ Elements(Append(issuedStations[u], s)) = Elements(issuedStations[u]) \cup {s}
      /\ Distinct(Append(issuedStations[u], s))
  <2>1. issuedStations[u] \in Seq(Stations) /\ Distinct(issuedStations[u])
    BY <1>0, <1>1, <1>2
  <2> QED BY <1>5, <1>7, <2>1, AppendFacts
<1>9. ASSUME NEW v \in Types
      PROVE  /\ idleStations'[v] = IF v = u THEN Tail(idleStations[u]) ELSE idleStations[v]
             /\ issuedStations'[v] = IF v = u THEN Append(issuedStations[u], s) ELSE issuedStations[v]
  BY <1>0, <1>1, <1>3
<1>10. ASSUME NEW v \in Types
       PROVE  /\ idleStations'[v] \in Seq(Stations) /\ issuedStations'[v] \in Seq(Stations)
              /\ Distinct(idleStations'[v]) /\ Distinct(issuedStations'[v])
              /\ Elements(idleStations'[v]) = P!InList(v, "idle") \ {s}
              /\ Elements(issuedStations'[v]) = IF v = u THEN P!InList(v, "issued") \cup {s}
                                                ELSE P!InList(v, "issued")
  <2>1. CASE v = u
    <3>1. P!InList(u, "idle") = Elements(Tail(idleStations[u])) \cup {s}
      BY <1>0, <1>2, <1>5
    <3>2. Elements(Tail(idleStations[u])) = P!InList(u, "idle") \ {s}
      BY <1>5, <3>1
    <3> QED BY <1>0, <1>2, <1>5, <1>8, <1>9, <2>1, <3>2
  <2>2. CASE v # u
    <3>1. s \notin P!InList(v, "idle")
      BY <1>6, <2>2, ListMembers
    <3> QED BY <1>1, <1>2, <1>9, <2>2, <3>1
  <2> QED BY <2>1, <2>2
<1>11. \A x \in Stations : listOf[x] # "idle" => startClock[x] < clockCounter
  BY DEF ListInv, IssuedBefore
<1>12. ASSUME NEW v \in Types PROVE Sorted(issuedStations'[v], startClock')
  <2>1. \A x \in Elements(issuedStations[v]) : x # s /\ startClock'[x] = startClock[x]
    BY <1>1, <1>2, <1>3, <1>6, ListMembers
  <2>2. Sorted(issuedStations[v], startClock')
    BY <1>2, <2>1, SortedSame
  <2>3. startClock'[s] = clockCounter
    BY <1>1, <1>3, <1>5
  <2>4. \A x \in Elements(issuedStations[v]) : startClock'[x] < startClock'[s]
    <3>1. \A x \in Elements(issuedStations[v]) : x \in Stations /\ listOf[x] = "issued"
      BY <1>2, ListMembers
    <3>2. \A x \in Elements(issuedStations[v]) : startClock[x] < clockCounter
      BY <1>11, <3>1
    <3> QED BY <2>1, <2>3, <3>2
  <2>5. CASE v = u
    <3>1. issuedStations[u] \in Seq(Stations)
      BY <1>0, <1>1
    <3> QED BY <1>5, <1>9, <2>2, <2>4, <2>5, <3>1, AppendFacts
  <2>6. CASE v # u
    BY <1>9, <2>2, <2>6
  <2> QED BY <2>5, <2>6
<1>13. listOf' = [listOf EXCEPT ![s] = "issued"]
  <2> DEFINE f == [listOf EXCEPT ![s] = "issued"]
  <2>1. f \in [Stations -> {"idle", "issued", "executing", "writing"}]
    BY ListMembers
  <2>2. \A x \in Stations : f[x] = IF x = s THEN "issued" ELSE listOf[x]
    BY ListMembers
  <2> HIDE DEF f
  <2>3. \A v \in Types :
          /\ Elements(issuedStations'[v])    = {x \in Stations : unitOf[x] = v /\ f[x] = "issued"}
          /\ Elements(executingStations'[v]) = {x \in Stations : unitOf[x] = v /\ f[x] = "executing"}
          /\ Elements(writingStations'[v])   = {x \in Stations : unitOf[x] = v /\ f[x] = "writing"}
    <3> SUFFICES ASSUME NEW v \in Types
                 PROVE  /\ Elements(issuedStations'[v])    = {x \in Stations : unitOf[x] = v /\ f[x] = "issued"}
                        /\ Elements(executingStations'[v]) = {x \in Stations : unitOf[x] = v /\ f[x] = "executing"}
                        /\ Elements(writingStations'[v])   = {x \in Stations : unitOf[x] = v /\ f[x] = "writing"}
      OBVIOUS
    <3>1. Elements(issuedStations'[v]) = {x \in Stations : unitOf[x] = v /\ f[x] = "issued"}
      <4>1. P!InList(v, "issued") = {x \in Stations : unitOf[x] = v /\ listOf[x] = "issued"}
        BY ListMembers
      <4>2. Elements(issuedStations'[v]) = IF v = u THEN P!InList(v, "issued") \cup {s}
                                           ELSE P!InList(v, "issued")
        BY <1>10
      <4> QED BY <1>5, <1>6, <2>2, <4>1, <4>2
    <3>2. Elements(executingStations'[v]) = {x \in Stations : unitOf[x] = v /\ f[x] = "executing"}
      BY <1>2, <1>3, <1>6, <2>2, ListMembers
    <3>3. Elements(writingStations'[v]) = {x \in Stations : unitOf[x] = v /\ f[x] = "writing"}
      BY <1>2, <1>3, <1>6, <2>2, ListMembers
    <3> QED BY <3>1, <3>2, <3>3
  <2>4. listOf' = f
    BY <2>1, <2>3, ListsRebuilt
  <2> QED BY <2>4 DEF f
<1>14. idleStations' \in [Types -> Seq(Stations)] /\ issuedStations' \in [Types -> Seq(Stations)]
  <2>1. /\ idleStations' = [v \in Types |-> idleStations'[v]]
        /\ issuedStations' = [v \in Types |-> issuedStations'[v]]
    BY <1>1, <1>3
  <2> QED BY <1>10, <2>1
<1> QED BY <1>3, <1>6, <1>10, <1>12, <1>13, <1>14 DEF u, s

LEMMA IssueKeeps ==
  ASSUME ListInv, LIssue
  PROVE  ListInv'
<1> DEFINE i == P!fetched  u == getType(i)  s == Head(idleStations[u])
<1>1. /\ phase = "issue" /\ idleStations[u] # <<>> /\ issueFront(i, clockCounter)
      /\ phase' = "execute" /\ calls' = CallOrder(executingStations)
      /\ UNCHANGED <<clockCounter, halted, unitOrder>>
  BY DEF LIssue, P!canIssue, toExecute, Same
<1>2. UNCHANGED <<executingStations, writingStations>>
  BY <1>1 DEF issueFront
<1> HIDE DEF i
<1>3. /\ s \in P!InList(u, "idle")
      /\ startClock' = [startClock EXCEPT ![s] = clockCounter]
      /\ listOf' = [listOf EXCEPT ![s] = "issued"]
      /\ idleStations' \in [Types -> Seq(Stations)]
      /\ issuedStations' \in [Types -> Seq(Stations)]
      /\ \A v \in Types :
           /\ Distinct(idleStations'[v]) /\ Distinct(issuedStations'[v])
           /\ Elements(idleStations'[v]) = P!InList(v, "idle") \ {s}
           /\ Elements(issuedStations'[v]) = IF v = u THEN P!InList(v, "issued") \cup {s}
                                             ELSE P!InList(v, "issued")
           /\ Sorted(issuedStations'[v], startClock')
  BY <1>1, IssueMembers
<1> HIDE DEF u, s
<1>4. s \in Stations /\ unitOf[s] = u /\ listOf[s] = "idle"
  BY <1>3, ListMembers
<1>5. /\ startClock \in [Stations -> Nat] /\ clockCounter \in Nat
      /\ \A x \in Stations : listOf[x] # "idle" => startClock[x] < clockCounter
  BY <1>1 DEF ListInv, ListTypeOK, IssuedBefore
<1>6. \A x \in Stations : /\ listOf'[x] = IF x = s THEN "issued" ELSE listOf[x]
                          /\ startClock'[x] = IF x = s THEN clockCounter ELSE startClock[x]
  BY <1>3, <1>5, ListMembers
<1>7. ListTypeOK'
  <2>1. startClock' \in [Stations -> Nat]
    BY <1>3, <1>5
  <2>2. calls' \in Seq(Stations) /\ Distinct(calls')
    BY <1>1, CallsOfPhase
  <2>3. Distinct(calls)'
    BY <2>2 DEF Distinct
  <2> QED BY <1>1, <1>2, <1>3, <2>1, <2>2, <2>3 DEF ListInv, ListTypeOK
<1>8. \A v, l : P!InList(v, l)' = {x \in Stations : unitOf[x] = v /\ listOf'[x] = l}
  BY DEF P!InList
<1>9. ListsPartStations'
  <2> SUFFICES ASSUME NEW v \in Types
               PROVE  /\ Elements(idleStations'[v])      = P!InList(v, "idle")'
                      /\ Elements(issuedStations'[v])    = P!InList(v, "issued")'
                      /\ Elements(executingStations'[v]) = P!InList(v, "executing")'
                      /\ Elements(writingStations'[v])   = P!InList(v, "writing")'
    BY <1>2, <1>3 DEF ListInv, ListsPartStations
  <2>1. Elements(idleStations'[v]) = P!InList(v, "idle")'
    <3>1. Elements(idleStations'[v]) = P!InList(v, "idle") \ {s}
      BY <1>3
    <3>2. P!InList(v, "idle") = {x \in Stations : unitOf[x] = v /\ listOf[x] = "idle"}
      BY ListMembers
    <3> QED BY <1>4, <1>6, <1>8, <3>1, <3>2
  <2>2. Elements(issuedStations'[v]) = P!InList(v, "issued")'
    <3>1. Elements(issuedStations'[v]) = IF v = u THEN P!InList(v, "issued") \cup {s}
                                         ELSE P!InList(v, "issued")
      BY <1>3
    <3>2. P!InList(v, "issued") = {x \in Stations : unitOf[x] = v /\ listOf[x] = "issued"}
      BY ListMembers
    <3> QED BY <1>4, <1>6, <1>8, <3>1, <3>2
  <2>3. Elements(executingStations'[v]) = P!InList(v, "executing")'
    <3>1. Elements(executingStations'[v]) = P!InList(v, "executing")
      BY <1>2 DEF ListInv, ListsPartStations
    <3>2. P!InList(v, "executing") = {x \in Stations : unitOf[x] = v /\ listOf[x] = "executing"}
      BY ListMembers
    <3> QED BY <1>4, <1>6, <1>8, <3>1, <3>2
  <2>4. Elements(writingStations'[v]) = P!InList(v, "writing")'
    <3>1. Elements(writingStations'[v]) = P!InList(v, "writing")
      BY <1>2 DEF ListInv, ListsPartStations
    <3>2. P!InList(v, "writing") = {x \in Stations : unitOf[x] = v /\ listOf[x] = "writing"}
      BY ListMembers
    <3> QED BY <1>4, <1>6, <1>8, <3>1, <3>2
  <2> QED BY <2>1, <2>2, <2>3, <2>4
<1>10. ListsInOrder'
  <2> SUFFICES ASSUME NEW v \in Types
               PROVE  /\ Sorted(issuedStations'[v], startClock')
                      /\ executeInOrder(v) =>
                           /\ Sorted(executingStations'[v], startClock')
                           /\ Sorted(writingStations'[v], startClock')
                           /\ \A x \in Elements(writingStations'[v]), y \in Elements(executingStations'[v]) :
                                startClock'[x] < startClock'[y]
                           /\ \A x \in Elements(writingStations'[v]), y \in Elements(issuedStations'[v]) :
                                startClock'[x] < startClock'[y]
                           /\ \A x \in Elements(executingStations'[v]), y \in Elements(issuedStations'[v]) :
                                startClock'[x] < startClock'[y]
    BY DEF ListsInOrder, Older
  <2>1. /\ Elements(executingStations[v]) = P!InList(v, "executing")
        /\ Elements(writingStations[v]) = P!InList(v, "writing")
        /\ Elements(issuedStations[v]) = P!InList(v, "issued")
    BY DEF ListInv, ListsPartStations
  <2>2. /\ \A x \in Elements(executingStations[v]) : startClock'[x] = startClock[x] /\ startClock[x] < clockCounter
        /\ \A x \in Elements(writingStations[v]) : startClock'[x] = startClock[x] /\ startClock[x] < clockCounter
        /\ \A x \in Elements(issuedStations[v]) : startClock'[x] = startClock[x]
    <3>1. \A l \in {"executing", "writing", "issued"} : \A x \in P!InList(v, l) :
            startClock'[x] = startClock[x] /\ startClock[x] < clockCounter
      BY <1>4, <1>5, <1>6, ListMembers
    <3> QED BY <2>1, <3>1
  <2>3. Elements(issuedStations'[v]) \subseteq Elements(issuedStations[v]) \cup {s}
    BY <1>3, <2>1
  <2>4. startClock'[s] = clockCounter
    BY <1>4, <1>6
  <2>5. ASSUME executeInOrder(v)
        PROVE  /\ Sorted(executingStations[v], startClock) /\ Sorted(writingStations[v], startClock)
               /\ \A x \in Elements(writingStations[v]), y \in Elements(executingStations[v]) :
                    startClock[x] < startClock[y]
               /\ \A x \in Elements(writingStations[v]), y \in Elements(issuedStations[v]) :
                    startClock[x] < startClock[y]
               /\ \A x \in Elements(executingStations[v]), y \in Elements(issuedStations[v]) :
                    startClock[x] < startClock[y]
    BY <2>5 DEF ListInv, ListsInOrder, Older
  <2>6. ASSUME executeInOrder(v)
        PROVE  Sorted(executingStations[v], startClock') /\ Sorted(writingStations[v], startClock')
    BY <2>2, <2>5, <2>6, SortedSame
  <2> QED BY <1>2, <1>3, <2>2, <2>3, <2>4, <2>5, <2>6
<1>11. IssuedBefore'
  <2>1. \A x \in Stations : listOf'[x] # "idle" => startClock'[x] <= clockCounter
    BY <1>5, <1>6
  <2> QED BY <1>1, <2>1 DEF IssuedBefore
<1> QED BY <1>7, <1>9, <1>10, <1>11 DEF ListInv

\* A step that touches neither the lists nor the clocks.
LEMMA FrameKeeps ==
  ASSUME ListInv, UNCHANGED <<listVars, startClock, clockCounter, unitOrder>>,
         halted' \in BOOLEAN, calls' \in Seq(Stations), Distinct(calls'),
         phase' # "issue" \/ phase' = phase
  PROVE  ListInv' /\ listOf' = listOf
<1>1. listOf' = listOf
  BY DEF listOf, listVars
<1>2. Distinct(calls)'
  BY DEF Distinct
<1>3. ListTypeOK'
  BY <1>2 DEF ListInv, ListTypeOK, listVars
<1>4. \A u, l : P!InList(u, l)' = P!InList(u, l)
  BY <1>1 DEF P!InList
<1>5. ListsPartStations'
  BY <1>4 DEF ListInv, ListsPartStations, listVars
<1>6. ListsInOrder'
  BY DEF ListInv, ListsInOrder, listVars, Older
<1>7. IssuedBefore'
  BY <1>1 DEF ListInv, IssuedBefore
<1> QED BY <1>1, <1>3, <1>5, <1>6, <1>7 DEF ListInv

-----------------------------------------------------------------------------
(***************************************************************************)
(* The invariant.                                                          *)
(***************************************************************************)
LEMMA Created ==
  ASSUME NEW u \in Types
  PROVE  /\ allStations[u] \in Seq(Stations) /\ Distinct(allStations[u])
         /\ Elements(allStations[u]) = {s \in Stations : unitOf[s] = u}
<1>1. /\ allStations[u] \in Seq(Stations)
      /\ Len(allStations[u]) = Cardinality(Elements(allStations[u]))
      /\ Elements(allStations[u]) = {s \in Stations : unitOf[s] = u}
  BY AllStationsAssumption
<1> QED BY <1>1, LenDistinct

LEMMA EmptyList ==
  <<>> \in Seq(Stations) /\ Elements(<<>>) = {} /\ Distinct(<<>>) /\ \A c : Sorted(<<>>, c)
BY DEF Elements, Distinct, Sorted

LEMMA InitKeeps ==
  ASSUME LInit
  PROVE  ListInv /\ listOf = [s \in Stations |-> "idle"]
<1>1. /\ idleStations = allStations
      /\ issuedStations = [u \in Types |-> <<>>]
      /\ executingStations = [u \in Types |-> <<>>]
      /\ writingStations = [u \in Types |-> <<>>]
      /\ startClock = [s \in Stations |-> 0]
      /\ clockCounter = 0 /\ halted = FALSE /\ unitOrder \in UnitOrders /\ calls = <<>>
  BY DEF LInit, ListsInit, StationInit
<1>2. \A s \in Stations : unitOf[s] \in Types
  BY UnitAssumption
<1>3. listOf = [s \in Stations |-> "idle"]
  <2>1. \A u \in Types : /\ Elements(issuedStations[u]) = {} /\ Elements(executingStations[u]) = {}
                         /\ Elements(writingStations[u]) = {}
    BY <1>1, EmptyList
  <2> QED BY <1>2, <2>1 DEF listOf
<1>4. ListTypeOK
  BY <1>1, EmptyList, AllStationsAssumption DEF ListTypeOK
<1>5. ListsPartStations
  <2>1. \A u, l : P!InList(u, l) = {s \in Stations : unitOf[s] = u /\ listOf[s] = l}
    BY DEF P!InList
  <2> SUFFICES ASSUME NEW u \in Types
               PROVE  /\ Distinct(idleStations[u])      /\ Elements(idleStations[u])      = P!InList(u, "idle")
                      /\ Distinct(issuedStations[u])    /\ Elements(issuedStations[u])    = P!InList(u, "issued")
                      /\ Distinct(executingStations[u]) /\ Elements(executingStations[u]) = P!InList(u, "executing")
                      /\ Distinct(writingStations[u])   /\ Elements(writingStations[u])   = P!InList(u, "writing")
    BY DEF ListsPartStations
  <2>2. P!InList(u, "idle") = {s \in Stations : unitOf[s] = u}
    BY <1>3, <2>1
  <2>3. P!InList(u, "issued") = {} /\ P!InList(u, "executing") = {} /\ P!InList(u, "writing") = {}
    BY <1>3, <2>1
  <2>4. issuedStations[u] = <<>> /\ executingStations[u] = <<>> /\ writingStations[u] = <<>>
    BY <1>1
  <2> QED BY <1>1, <2>2, <2>3, <2>4, EmptyList, Created
<1>6. ListsInOrder
  <2>1. \A u \in Types :
          issuedStations[u] = <<>> /\ executingStations[u] = <<>> /\ writingStations[u] = <<>>
    BY <1>1
  <2> QED BY <2>1, EmptyList DEF ListsInOrder
<1>7. IssuedBefore
  BY <1>3 DEF IssuedBefore
<1> QED BY <1>3, <1>4, <1>5, <1>6, <1>7 DEF ListInv

\* A call returns and the next one comes.
LEMMA CallReturns ==
  ASSUME ListInv, calls # <<>>, return
  PROVE  /\ Head(calls) \in Elements(calls) /\ Head(calls) \in Stations
         /\ calls' \in Seq(Stations) /\ Distinct(calls')
         /\ Elements(calls') = Elements(calls) \ {Head(calls)}
<1>1. calls \in Seq(Stations) /\ Distinct(calls) /\ calls' = Tail(calls)
  BY DEF ListInv, ListTypeOK, return
<1>2. /\ Head(calls) \in Stations /\ Head(calls) \in Elements(calls)
      /\ Tail(calls) \in Seq(Stations)
      /\ Elements(calls) = Elements(Tail(calls)) \cup {Head(calls)}
      /\ Distinct(Tail(calls)) /\ Head(calls) \notin Elements(Tail(calls))
  BY <1>1, TailFacts
<1>3. Elements(Tail(calls)) = Elements(calls) \ {Head(calls)}
  BY <1>2
<1> QED BY <1>1, <1>2, <1>3

LEMMA StepKeeps ==
  ASSUME ListInv, [LNext]_lvars
  PROVE  ListInv'
<1>1. CASE LAdvance
  BY <1>1, AdvanceKeeps
<1>2. CASE LIssue
  BY <1>2, IssueKeeps
<1>0. /\ calls \in Seq(Stations) /\ Distinct(calls) /\ halted \in BOOLEAN
  BY DEF ListInv, ListTypeOK
<1>3. CASE LFinish
  BY <1>0, <1>3, FrameKeeps DEF LFinish, Same, machineVars, stationVars
<1>4. CASE LIssueNone
  <2>1. halted' \in BOOLEAN
    BY <1>0, <1>4 DEF LIssueNone, P!isHalt
  <2>2. calls' \in Seq(Stations) /\ Distinct(calls')
    BY <1>4, CallsOfPhase DEF LIssueNone, toExecute
  <2> QED BY <1>4, <2>1, <2>2, FrameKeeps DEF LIssueNone, toExecute, Same, machineVars, stationVars
<1>5. CASE LIssueFault
  BY <1>0, <1>5, FrameKeeps DEF LIssueFault, abort, Same, machineVars, stationVars
<1>6. CASE LExecute
  <2>1. UNCHANGED startClock
    BY <1>6 DEF LExecute, ExecuteCycle, ExecuteComplete
  <2> QED BY <1>0, <1>6, <2>1, CallReturns, FrameKeeps DEF LExecute, return, Same
<1>7. CASE LExecuteAbort
  BY <1>0, <1>7, FrameKeeps DEF LExecuteAbort, ExecuteFault, abort, Same
<1>8. CASE LToWrite
  <2>1. calls' \in Seq(Stations) /\ Distinct(calls')
    BY <1>8, CallsOfPhase DEF LToWrite
  <2> QED BY <1>0, <1>8, <2>1, FrameKeeps DEF LToWrite, Same, machineVars, stationVars
<1>9. CASE LWrite
  <2>1. UNCHANGED startClock
    BY <1>9 DEF LWrite, WriteNothing, WriteRegister, WritePC, WriteMemory
  <2> QED BY <1>0, <1>9, <2>1, CallReturns, FrameKeeps DEF LWrite, return, Same
<1>10. CASE LWriteAbort
  BY <1>0, <1>10, FrameKeeps DEF LWriteAbort, abort, Same, machineVars, stationVars
<1>11. CASE LEndCycle
  <2>1. UNCHANGED startClock
    BY <1>11 DEF LEndCycle, Commit, CommitWriter, stationVars
  <2> QED BY <1>0, <1>11, <2>1, FrameKeeps DEF LEndCycle, Same
<1>12. CASE UNCHANGED lvars
  BY <1>0, <1>12, FrameKeeps DEF lvars, loopVars, machineVars, stationVars
<1>13. CASE LStopped
  BY <1>12, <1>13 DEF LStopped
<1> QED BY <1>1, <1>2, <1>3, <1>4, <1>5, <1>6, <1>7, <1>8, <1>9, <1>10, <1>11, <1>12, <1>13
        DEF LNext, LStep

\* The lists of the units always part the stations among them and follow the
\* order of issue (ListInv).
THEOREM ListInvariance == ListSpec => []ListInv
<1>1. LInit => ListInv
  BY InitKeeps
<1>2. ListInv /\ [LNext]_lvars => ListInv'
  BY StepKeeps
<1> QED BY <1>1, <1>2, PTL DEF ListSpec

\* No station of a unit is lost or in two lists: what advanceInstructions and
\* issue take off a list they put on exactly one other.
THEOREM StationsKept == ListSpec => []EveryStationKept
<1>1. ListInv => EveryStationKept
  <2> SUFFICES ASSUME ListInv, NEW u \in Types
               PROVE  /\ Elements(lists(u)) = Elements(allStations[u])
                      /\ Len(lists(u)) = Len(allStations[u])
    BY DEF EveryStationKept
  <2> DEFINE l1 == idleStations[u]  l2 == issuedStations[u]
             l3 == executingStations[u]  l4 == writingStations[u]
             c2 == l1 \o l2  c3 == c2 \o l3  c4 == c3 \o l4
  <2>1. /\ l1 \in Seq(Stations) /\ l2 \in Seq(Stations) /\ l3 \in Seq(Stations) /\ l4 \in Seq(Stations)
        /\ Distinct(l1) /\ Distinct(l2) /\ Distinct(l3) /\ Distinct(l4)
        /\ Elements(l1) = {s \in Stations : unitOf[s] = u /\ listOf[s] = "idle"}
        /\ Elements(l2) = {s \in Stations : unitOf[s] = u /\ listOf[s] = "issued"}
        /\ Elements(l3) = {s \in Stations : unitOf[s] = u /\ listOf[s] = "executing"}
        /\ Elements(l4) = {s \in Stations : unitOf[s] = u /\ listOf[s] = "writing"}
    BY ListMembers DEF ListInv, ListsPartStations
  <2>2. lists(u) = c4
    BY DEF lists
  <2>3. \A s \in Stations : listOf[s] \in {"idle", "issued", "executing", "writing"}
    BY ListMembers
  <2> HIDE DEF l1, l2, l3, l4
  <2>4. /\ c2 \in Seq(Stations) /\ Distinct(c2) /\ Elements(c2) = Elements(l1) \cup Elements(l2)
    <3>1. Elements(l1) \cap Elements(l2) = {}
      BY <2>1
    <3> QED BY <2>1, <3>1, ConcatFacts
  <2> HIDE DEF c2
  <2>5. /\ c3 \in Seq(Stations) /\ Distinct(c3)
        /\ Elements(c3) = Elements(l1) \cup Elements(l2) \cup Elements(l3)
    <3>1. Elements(c2) \cap Elements(l3) = {}
      BY <2>1, <2>4
    <3> QED BY <2>1, <2>4, <3>1, ConcatFacts
  <2> HIDE DEF c3
  <2>6. /\ c4 \in Seq(Stations) /\ Distinct(c4)
        /\ Elements(c4) = Elements(l1) \cup Elements(l2) \cup Elements(l3) \cup Elements(l4)
    <3>1. Elements(c3) \cap Elements(l4) = {}
      BY <2>1, <2>5
    <3> QED BY <2>1, <2>5, <3>1, ConcatFacts
  <2> HIDE DEF c4
  <2>7. Elements(c4) = {s \in Stations : unitOf[s] = u}
    BY <2>1, <2>3, <2>6
  <2>8. Len(c4) = Len(allStations[u])
    <3> DEFINE a == allStations[u]
    <3>1. a \in Seq(Stations) /\ Distinct(a) /\ Elements(a) = Elements(c4)
      BY <2>7, Created
    <3> HIDE DEF a
    <3>2. Cardinality(Elements(c4)) = Len(c4) /\ Cardinality(Elements(a)) = Len(a)
      BY <2>6, <3>1, DistinctLen
    <3> QED BY <3>1, <3>2 DEF a
  <2> QED BY <2>2, <2>7, <2>8, Created
<1> QED BY <1>1, ListInvariance, PTL

\* The lists are in the order of issue wherever advanceInstructions relies on
\* it, though nothing ever compares or sorts them.
THEOREM OrderKept == ListSpec => []SortedByIssue
<1>1. ListInv => SortedByIssue
  <2> SUFFICES ASSUME ListInv, NEW u \in Types
               PROVE  Sorted(IF executeInOrder(u)
                             THEN writingStations[u] \o executingStations[u] \o issuedStations[u]
                             ELSE issuedStations[u], startClock)
    BY DEF SortedByIssue
  <2>1. Sorted(issuedStations[u], startClock)
    BY DEF ListInv, ListsInOrder
  <2>2. ASSUME executeInOrder(u)
        PROVE  Sorted(writingStations[u] \o executingStations[u] \o issuedStations[u], startClock)
    <3> DEFINE w == writingStations[u]  e == executingStations[u]  i == issuedStations[u]
               we == w \o e
    <3>1. w \in Seq(Stations) /\ e \in Seq(Stations) /\ i \in Seq(Stations)
      BY ListMembers
    <3>2. /\ Sorted(w, startClock) /\ Sorted(e, startClock) /\ Sorted(i, startClock)
          /\ \A s \in Elements(w), t \in Elements(e) : startClock[s] < startClock[t]
          /\ \A s \in Elements(w), t \in Elements(i) : startClock[s] < startClock[t]
          /\ \A s \in Elements(e), t \in Elements(i) : startClock[s] < startClock[t]
      BY <2>2 DEF ListInv, ListsInOrder, Older
    <3> HIDE DEF w, e, i
    <3>3. /\ we \in Seq(Stations) /\ Elements(we) = Elements(w) \cup Elements(e)
          /\ Sorted(we, startClock)
      BY <3>1, <3>2, ConcatFacts
    <3> HIDE DEF we
    <3>4. Sorted(we \o i, startClock)
      <4>1. \A s \in Elements(we), t \in Elements(i) : startClock[s] < startClock[t]
        BY <3>2, <3>3
      <4> QED BY <3>1, <3>2, <3>3, <4>1, ConcatFacts
    <3> QED BY <3>4 DEF we, w, e, i
  <2> QED BY <2>1, <2>2
<1> QED BY <1>1, ListInvariance, PTL

-----------------------------------------------------------------------------
(***************************************************************************)
(* The refinement: each step of the processor with lists is one of the     *)
(* processor with sets.                                                    *)
(***************************************************************************)
LEMMA SameVars ==
  /\ UNCHANGED P!memoryVars <=> UNCHANGED memoryVars
  /\ UNCHANGED P!stationVars <=> UNCHANGED stationVars
  /\ UNCHANGED P!busVars <=> UNCHANGED busVars
  /\ UNCHANGED P!fetchVars <=> UNCHANGED fetchVars
  /\ UNCHANGED P!unitVars <=> listOf' = listOf
BY DEF P!memoryVars, memoryVars, P!stationVars, stationVars, P!busVars, busVars,
   P!fetchVars, fetchVars, P!unitVars

LEMMA SameTodo ==
  /\ UNCHANGED calls => UNCHANGED Elements(calls)
  /\ UNCHANGED listVars => listOf' = listOf
BY DEF listOf, listVars, Elements

LEMMA NoElements ==
  ASSUME NEW seq \in Seq(Stations)
  PROVE  seq = <<>> <=> Elements(seq) = {}
<1>1. Len(seq) \in Nat /\ DOMAIN seq = 1 .. Len(seq) /\ (seq = <<>> <=> Len(seq) = 0)
  BY LenProperties, EmptySeq
<1>2. CASE seq = <<>>
  BY <1>2, EmptyList
<1>3. CASE seq # <<>>
  <2>1. 1 \in DOMAIN seq
    BY <1>1, <1>3
  <2>2. seq[1] \in Elements(seq)
    BY <2>1 DEF Elements
  <2> QED BY <1>3, <2>2
<1> QED BY <1>2, <1>3

LEMMA IdleAgrees ==
  ASSUME ListInv
  PROVE  /\ P!Working <=> working
         /\ \A u \in Types : idleStations[u] = <<>> <=> P!stationsFull(u)
<1>1. \A u \in Types :
        /\ Elements(idleStations[u])      = {s \in Stations : unitOf[s] = u /\ listOf[s] = "idle"}
        /\ Elements(issuedStations[u])    = {s \in Stations : unitOf[s] = u /\ listOf[s] = "issued"}
        /\ Elements(executingStations[u]) = {s \in Stations : unitOf[s] = u /\ listOf[s] = "executing"}
        /\ Elements(writingStations[u])   = {s \in Stations : unitOf[s] = u /\ listOf[s] = "writing"}
  BY ListMembers DEF ListInv, ListsPartStations
<1>2. \A u \in Types :
        /\ idleStations[u] = <<>> <=> Elements(idleStations[u]) = {}
        /\ issuedStations[u] = <<>> <=> Elements(issuedStations[u]) = {}
        /\ executingStations[u] = <<>> <=> Elements(executingStations[u]) = {}
        /\ writingStations[u] = <<>> <=> Elements(writingStations[u]) = {}
  BY ListMembers, NoElements
<1>3. unitsIdle <=> P!functionalUnitsIdle
  <2>1. unitsIdle <=> \A u \in Types : /\ Elements(issuedStations[u]) = {}
                                       /\ Elements(executingStations[u]) = {}
                                       /\ Elements(writingStations[u]) = {}
    BY <1>2 DEF unitsIdle
  <2>2. \A s \in Stations : /\ unitOf[s] \in Types
                            /\ listOf[s] \in {"idle", "issued", "executing", "writing"}
    BY ListMembers
  <2>3. ASSUME unitsIdle PROVE P!functionalUnitsIdle
    BY <1>1, <2>1, <2>2, <2>3 DEF P!functionalUnitsIdle
  <2>4. ASSUME P!functionalUnitsIdle PROVE unitsIdle
    BY <1>1, <2>1, <2>4 DEF P!functionalUnitsIdle
  <2> QED BY <2>3, <2>4
<1>4. P!Working <=> working
  BY <1>3 DEF P!Working, working
<1>5. ASSUME NEW u \in Types PROVE idleStations[u] = <<>> <=> P!stationsFull(u)
  <2>1. Elements(idleStations[u]) = P!InList(u, "idle")
    BY DEF ListInv, ListsPartStations
  <2> QED BY <1>2, <2>1 DEF P!stationsFull
<1> QED BY <1>4, <1>5

LEMMA InitRefines ==
  ASSUME LInit
  PROVE  P!Init
<1>1. P!RegisterInit /\ P!RenameInit /\ P!StationInit
  BY SameNames DEF LInit, P!RegisterInit, RegisterInit, P!RenameInit, RenameInit,
     P!StationInit, StationInit
<1>2. P!UnitInit
  BY InitKeeps DEF P!UnitInit
<1>3. Elements(calls) = {}
  BY EmptyList DEF LInit
<1> QED BY <1>1, <1>2, <1>3 DEF LInit, P!Init

LEMMA IssueNoneRefines ==
  ASSUME ListInv, LIssueNone
  PROVE  P!IssueStalled \/ P!IssueHalt \/ P!IssueFull
<1>1. listOf' = listOf
  BY SameTodo DEF LIssueNone, Same
<1>2. P!ToExecute
  <2>1. Elements(calls') = {s \in Stations : listOf[s] = "executing"}
    BY CallsOfPhase DEF LIssueNone, toExecute
  <2>2. Elements(calls)' = {s \in Stations : listOf[s] = "executing"}
    BY <2>1 DEF Elements
  <2> QED BY <1>1, <2>2 DEF LIssueNone, toExecute, P!ToExecute
<1>3. UNCHANGED <<P!memoryVars, renameRegisters, P!stationVars, P!busVars, P!fetchVars,
                  output, P!unitVars>>
  BY <1>1 DEF LIssueNone, Same, machineVars, P!memoryVars, memoryVars, P!stationVars,
     stationVars, P!busVars, busVars, P!fetchVars, fetchVars, P!unitVars
<1>4. CASE halted \/ stallIssue
  BY <1>2, <1>3, <1>4 DEF LIssueNone, P!IssueStalled
<1>5. CASE ~(halted \/ stallIssue)
  <2> DEFINE i == P!fetched
  <2>1. /\ P!canIssue /\ P!Accessible(pc)
        /\ P!isHalt(i) \/ idleStations[getType(i)] = <<>>
        /\ halted' = P!isHalt(i)
    BY <1>5, SameData DEF LIssueNone, P!canIssue
  <2>2. P!isHalt(i) \in BOOLEAN
    BY DEF P!isHalt
  <2>3. halted = FALSE
    BY <1>5 DEF ListInv, ListTypeOK
  <2> HIDE DEF i
  <2>4. getType(i) \in Types /\ P!getType(i) = getType(i)
    BY SameClasses DEF getType, getInstructionType, Types
  <2>5. CASE P!isHalt(i)
    <3>1. halted' = TRUE
      BY <2>1, <2>2, <2>5
    <3> QED BY <1>2, <1>3, <2>1, <2>5, <3>1 DEF P!IssueHalt, i
  <2>6. CASE ~P!isHalt(i)
    <3>1. halted' = halted
      BY <2>1, <2>2, <2>3, <2>6
    <3>2. P!stationsFull(P!getType(i))
      BY <2>1, <2>4, <2>6, IdleAgrees
    <3> QED BY <1>2, <1>3, <2>1, <2>6, <3>1, <3>2 DEF P!IssueFull, i
  <2> QED BY <2>5, <2>6
<1> QED BY <1>4, <1>5

LEMMA IssueRefines ==
  ASSUME ListInv, LIssue
  PROVE  \E s \in Stations : P!Issue(s)
<1> DEFINE i == P!fetched  u == getType(i)  s == Head(idleStations[u])
<1>1. /\ P!canIssue /\ phase = "issue" /\ P!Accessible(pc) /\ ~P!isHalt(i)
      /\ idleStations[u] # <<>> /\ issueFront(i, clockCounter) /\ P!afterIssue(i) /\ toExecute
      /\ UNCHANGED <<memoryVars, source, output, halted>>
  BY SameData DEF LIssue, Same, P!canIssue
<1>2. executingStations' = executingStations /\ setInstruction(s, i, clockCounter)
  BY <1>1 DEF issueFront
<1> HIDE DEF i
<1>3. s \in P!InList(u, "idle") /\ listOf' = [listOf EXCEPT ![s] = "issued"]
  BY <1>1, IssueMembers
<1>4. P!getType(i) = u
  BY SameClasses
<1> HIDE DEF u, s
<1>5. P!IssueTo(s, i, clockCounter)
  BY <1>2, <1>3, <1>4, SameIssue DEF P!IssueTo
<1>6. s \in Stations /\ listOf[s] = "idle"
  BY <1>3, ListMembers
<1>7. P!ToExecute
  <2>1. Elements(calls') = {x \in Stations : listOf[x] = "executing"}
    BY <1>1, CallsOfPhase DEF toExecute
  <2>2. Elements(calls)' = {x \in Stations : listOf[x] = "executing"}
    BY <2>1 DEF Elements
  <2>3. \A x \in Stations : listOf'[x] = IF x = s THEN "issued" ELSE listOf[x]
    BY <1>3, ListMembers
  <2>4. {x \in Stations : listOf[x] = "executing"} = {x \in Stations : listOf'[x] = "executing"}
    BY <1>6, <2>3
  <2> QED BY <1>1, <2>2, <2>4 DEF toExecute, P!ToExecute
<1>8. P!Issue(s)
  BY <1>1, <1>5, <1>7, SameVars DEF P!Issue, i, P!memoryVars, memoryVars
<1> QED BY <1>6, <1>8

LEMMA CallRefines ==
  ASSUME ListInv, LExecute \/ LExecuteAbort \/ LWrite \/ LWriteAbort
  PROVE  \E s \in Stations : P!Execute(s) \/ P!ExecuteAbort(s) \/ P!Write(s) \/ P!WriteAbort(s)
<1> DEFINE s == Head(calls)
<1>1. listOf' = listOf
  BY SameTodo DEF LExecute, LExecuteAbort, LWrite, LWriteAbort, return, abort
<1>2. calls # <<>>
  BY DEF LExecute, LExecuteAbort, LWrite, LWriteAbort
<1>3. s \in Stations /\ s \in Elements(calls)
  <2>1. calls \in Seq(Stations)
    BY DEF ListInv, ListTypeOK
  <2> QED BY <1>2, <2>1, TailFacts
<1>4. ASSUME return PROVE Elements(calls)' = Elements(calls) \ {s}
  <2>1. Elements(calls') = Elements(calls) \ {s}
    BY <1>2, <1>4, CallReturns
  <2> QED BY <2>1 DEF Elements
<1>5. ASSUME abort PROVE P!Abort
  BY <1>5, SameTodo DEF abort, P!Abort
<1> HIDE DEF s
<1>6. CASE LExecute
  <2>1. P!ExecuteCycle(s) \/ P!ExecuteComplete(s)
    BY <1>6, SameExecute DEF LExecute, s
  <2> QED BY <1>1, <1>3, <1>4, <1>6, <2>1, SameVars
          DEF LExecute, return, Same, P!Execute
<1>7. CASE LExecuteAbort
  <2>1. P!ExecuteFault(s)
    BY <1>7, SameExecute DEF LExecuteAbort, s
  <2> QED BY <1>1, <1>3, <1>5, <1>7, <2>1, SameVars
          DEF LExecuteAbort, Same, P!ExecuteAbort
<1>8. CASE LWrite
  <2>1. P!WriteNothing(s) \/ P!WriteRegister(s) \/ P!WritePC(s) \/ P!WriteMemory(s)
    BY <1>8, SameWrite DEF LWrite, s
  <2> QED BY <1>1, <1>3, <1>4, <1>8, <2>1, SameVars
          DEF LWrite, return, Same, P!Write
<1>9. CASE LWriteAbort
  <2>1. P!writeFaults(s)
    BY <1>9, SameWrite DEF LWriteAbort, s
  <2> QED BY <1>1, <1>3, <1>5, <1>9, <2>1, SameVars
          DEF LWriteAbort, Same, machineVars, P!WriteAbort
<1> QED BY <1>6, <1>7, <1>8, <1>9

LEMMA StepRefines ==
  ASSUME ListInv, [LNext]_lvars
  PROVE  [P!Next]_(P!vars)
<1>1. CASE LAdvance
  <2>1. P!Working /\ P!AdvanceStations
    BY <1>1, IdleAgrees, AdvanceRefines DEF LAdvance
  <2>2. P!Advance
    BY <1>1, <2>1, SameVars, SameTodo DEF LAdvance, Same, P!Advance
  <2> QED BY <2>2 DEF P!Next, P!Step
<1>2. CASE LFinish
  <2>1. ~P!Working /\ listOf' = listOf
    BY <1>2, IdleAgrees, SameTodo DEF LFinish, Same
  <2>2. P!Finish
    BY <1>2, <2>1, SameVars, SameTodo DEF LFinish, Same, machineVars, P!Finish
  <2> QED BY <2>2 DEF P!Next, P!Step
<1>3. CASE LIssueNone
  BY <1>3, IssueNoneRefines DEF P!Next, P!Step
<1>4. CASE LIssueFault
  <2>1. listOf' = listOf /\ P!Abort /\ ~P!Accessible(pc)
    BY <1>4, SameTodo, SameData DEF LIssueFault, abort, P!Abort
  <2>2. P!IssueFault
    BY <1>4, <2>1, SameVars DEF LIssueFault, Same, machineVars, P!IssueFault
  <2> QED BY <2>2 DEF P!Next, P!Step
<1>5. CASE LIssue
  BY <1>5, IssueRefines DEF P!Next, P!Step
<1>6. CASE LExecute \/ LExecuteAbort \/ LWrite \/ LWriteAbort
  BY <1>6, CallRefines DEF P!Next, P!Step
<1>7. CASE LToWrite
  <2>1. listOf' = listOf
    BY <1>7, SameTodo DEF LToWrite, Same
  <2>2. Elements(calls) = {}
    BY <1>7, EmptyList DEF LToWrite
  <2>3. Elements(calls') = {s \in Stations : listOf[s] = "writing"}
    BY <1>7, CallsOfPhase DEF LToWrite
  <2>4. Elements(calls)' = {s \in Stations : listOf[s] = "writing"}
    BY <2>3 DEF Elements
  <2>5. P!ToWrite
    BY <1>7, <2>1, <2>2, <2>4, SameVars DEF LToWrite, Same, machineVars, P!ToWrite
  <2> QED BY <2>5 DEF P!Next, P!Step
<1>8. CASE LEndCycle
  <2>1. listOf' = listOf /\ Elements(calls)' = Elements(calls)
    BY <1>8, SameTodo DEF LEndCycle, Same
  <2>2. Elements(calls) = {} /\ P!Commit
    BY <1>8, EmptyList, SameCommit DEF LEndCycle
  <2>3. P!EndCycle
    BY <1>8, <2>1, <2>2, SameVars DEF LEndCycle, Same, P!EndCycle
  <2> QED BY <2>3 DEF P!Next, P!Step
<1>9. CASE UNCHANGED lvars
  <2>1. UNCHANGED P!vars
    BY <1>9, SameVars, SameTodo DEF lvars, machineVars, loopVars, P!vars, P!loopVars
  <2> QED BY <2>1
<1>10. CASE LStopped
  BY <1>9, <1>10 DEF LStopped
<1> QED BY <1>1, <1>2, <1>3, <1>4, <1>5, <1>6, <1>7, <1>8, <1>9, <1>10 DEF LNext, LStep

\* The lists and the order in which the map and the lists give the calls
\* implement the sets and the arbitrary order of module Tomasulo, so whatever
\* is proved there for every order of the calls holds for the program's.
THEOREM ListsImplementSets == ListSpec => ProcessorSpec
<1>1. LInit => P!Init
  BY InitRefines
<1>2. ListInv /\ [LNext]_lvars => [P!Next]_(P!vars)
  BY StepRefines
<1> QED BY <1>1, <1>2, ListInvariance, PTL DEF ListSpec, ProcessorSpec, P!Spec
=============================================================================
