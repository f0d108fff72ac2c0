----------------------- MODULE ChildProcessesProofs -----------------------
(***************************************************************************)
(* Proofs about ChildProcesses, for any number of commands, descendants    *)
(* and streams.                                                            *)
(***************************************************************************)
EXTENDS ChildProcesses, WellFoundedInduction, TLAPS

\* The constants.
LEMMA ConstantFacts ==
  /\ Transfers \in Nat \ {0} /\ OutputSlots \in Nat \ {0}
  /\ Direct \cap Descendants = {} /\ Adopted \notin Procs
  /\ Direct \subseteq Procs /\ Descendants \subseteq Procs
  /\ 1 \in Direct /\ Streams \subseteq Direct
BY ChildAssumption DEF Direct, Procs

\* nextDirect finds one of the exits that are recorded.
LEMMA MinIsMember ==
  ASSUME NEW S \in SUBSET Nat, S # {}
  PROVE  Min(S) \in S
<1> DEFINE R == {ss \in Nat \X Nat : ss[1] < ss[2]}
<1>1. IsWellFoundedOn(R, Nat)
  BY NatLessThanWellFounded DEF OpToRel
<1>2. PICK x \in S : \A y \in S : ~(<<y, x>> \in R)
  <2> HIDE DEF R
  <2> QED BY <1>1, WFMin
<1>3. ASSUME NEW y \in S
      PROVE  x <= y
  <2>1. x \in Nat /\ y \in Nat
    OBVIOUS
  <2>2. ~(y < x)
    BY <1>2, <2>1
  <2> QED BY <2>1, <2>2
<1> QED BY <1>3 DEF Min

\* The flags, apart from the rest of the types.
LEMMA FlagsTyped ==
  ASSUME ChildInv
  PROVE  FlagsOK
BY DEF ChildInv, TypeOK

-----------------------------------------------------------------------------
(* The steps                                                               *)

USE DEF kernel, starting, reaping, completion, supervision, io, history

\* A helper hands over.
LEMMA HelperPreparesKeeps ==
  ASSUME ChildInv, NEW t \in Direct, HelperPrepares(t)
  PROVE  ChildInv'
<1>1. FlagsOK'
  BY FlagsTyped DEF FlagsOK, HelperPrepares
<1>2. TermOK'
  BY DEF ChildInv, TypeOK, TermOK, HelperPrepares
<1>3. StreamsOK'
  BY DEF ChildInv, TypeOK, StreamsOK, HelperPrepares
<1>4. TypeOK'
  BY <1>1, <1>2, <1>3, ConstantFacts DEF ChildInv, TypeOK, Handoffs, HelperPrepares
<1>5. LaunchInv'
  BY DEF ChildInv, TypeOK, LaunchInv, Launched, HelperPrepares
<1>6. TreeInv'
  BY DEF ChildInv, TypeOK, TreeInv, Exists, NothingLeft, HelperPrepares
<1>7. BarrierInv'
  BY DEF ChildInv, TypeOK, BarrierInv, HelperPrepares
<1>8. ReaperInv'
  BY DEF ChildInv, TypeOK, ReaperInv, Exists, NothingLeft, HelperPrepares
<1>9. SupInv'
  BY DEF ChildInv, TypeOK, SupInv, Launched, HelperPrepares
<1>10. TermInv'
  BY DEF ChildInv, TypeOK, TermInv, Launched, HelperPrepares
<1>11. OutputInv'
  BY DEF ChildInv, TypeOK, OutputInv, Launched, StreamEnded, Alive, HelperPrepares
<1> QED BY <1>1, <1>2, <1>3, <1>4, <1>5, <1>6, <1>7, <1>8, <1>9, <1>10, <1>11 DEF ChildInv

\* A helper ends without a handoff.
LEMMA HelperFailsKeeps ==
  ASSUME ChildInv, NEW t \in Direct, HelperFails(t)
  PROVE  ChildInv'
<1>1. FlagsOK'
  BY FlagsTyped DEF FlagsOK, HelperFails
<1>2. TermOK'
  BY DEF ChildInv, TypeOK, TermOK, HelperFails
<1>3. StreamsOK'
  BY DEF ChildInv, TypeOK, StreamsOK, HelperFails
<1>4. TypeOK'
  BY <1>1, <1>2, <1>3, ConstantFacts DEF ChildInv, TypeOK, Handoffs, HelperFails
<1>5. LaunchInv'
  BY DEF ChildInv, TypeOK, LaunchInv, Launched, HelperFails
<1>6. TreeInv'
  BY DEF ChildInv, TypeOK, TreeInv, Exists, NothingLeft, HelperFails
<1>7. BarrierInv'
  BY DEF ChildInv, TypeOK, BarrierInv, HelperFails
<1>8. ReaperInv'
  BY DEF ChildInv, TypeOK, ReaperInv, Exists, NothingLeft, HelperFails
<1>9. SupInv'
  BY DEF ChildInv, TypeOK, SupInv, Launched, HelperFails
<1>10. TermInv'
  BY DEF ChildInv, TypeOK, TermInv, Launched, HelperFails
<1>11. OutputInv'
  BY DEF ChildInv, TypeOK, OutputInv, Launched, StreamEnded, Alive, HelperFails
<1> QED BY <1>1, <1>2, <1>3, <1>4, <1>5, <1>6, <1>7, <1>8, <1>9, <1>10, <1>11 DEF ChildInv

\* A helper passes the barrier, which is released to all.
LEMMA HelperReleasedKeeps ==
  ASSUME ChildInv, NEW t \in Direct, HelperReleased(t)
  PROVE  ChildInv'
<1>1. FlagsOK'
  BY FlagsTyped DEF FlagsOK, HelperReleased
<1>2. TermOK'
  BY DEF ChildInv, TypeOK, TermOK, HelperReleased
<1>3. StreamsOK'
  BY DEF ChildInv, TypeOK, StreamsOK, HelperReleased
<1>4. TypeOK'
  BY <1>1, <1>2, <1>3, ConstantFacts DEF ChildInv, TypeOK, Handoffs, HelperReleased
<1>5. LaunchInv'
  BY DEF ChildInv, TypeOK, LaunchInv, Launched, HelperReleased
<1>6. TreeInv'
  BY DEF ChildInv, TypeOK, TreeInv, Exists, NothingLeft, HelperReleased
<1>7. BarrierInv'
  BY DEF ChildInv, TypeOK, BarrierInv, HelperReleased
<1>8. ReaperInv'
  BY DEF ChildInv, TypeOK, ReaperInv, Exists, NothingLeft, HelperReleased
<1>9. SupInv'
  BY DEF ChildInv, TypeOK, SupInv, Launched, HelperReleased
<1>10. TermInv'
  BY DEF ChildInv, TypeOK, TermInv, Launched, HelperReleased
<1>11. OutputInv'
  BY DEF ChildInv, TypeOK, OutputInv, Launched, StreamEnded, Alive, HelperReleased
<1> QED BY <1>1, <1>2, <1>3, <1>4, <1>5, <1>6, <1>7, <1>8, <1>9, <1>10, <1>11 DEF ChildInv

\* A command is executed.
LEMMA HelperExecutesKeeps ==
  ASSUME ChildInv, NEW t \in Direct, HelperExecutes(t)
  PROVE  ChildInv'
<1>1. FlagsOK'
  BY FlagsTyped DEF FlagsOK, HelperExecutes
<1>2. TermOK'
  BY DEF ChildInv, TypeOK, TermOK, HelperExecutes
<1>3. StreamsOK'
  BY DEF ChildInv, TypeOK, StreamsOK, HelperExecutes
<1>4. TypeOK'
  BY <1>1, <1>2, <1>3, ConstantFacts DEF ChildInv, TypeOK, Handoffs, HelperExecutes
<1>5. LaunchInv'
  BY DEF ChildInv, TypeOK, LaunchInv, Launched, HelperExecutes
<1>6. TreeInv'
  BY DEF ChildInv, TypeOK, TreeInv, Exists, NothingLeft, HelperExecutes
<1>7. BarrierInv'
  BY DEF ChildInv, TypeOK, BarrierInv, HelperExecutes
<1>8. ReaperInv'
  BY DEF ChildInv, TypeOK, ReaperInv, Exists, NothingLeft, HelperExecutes
<1>9. SupInv'
  BY DEF ChildInv, TypeOK, SupInv, Launched, HelperExecutes
<1>10. TermInv'
  BY DEF ChildInv, TypeOK, TermInv, Launched, HelperExecutes
<1>11. OutputInv'
  BY DEF ChildInv, TypeOK, OutputInv, Launched, StreamEnded, Alive, HelperExecutes
<1> QED BY <1>1, <1>2, <1>3, <1>4, <1>5, <1>6, <1>7, <1>8, <1>9, <1>10, <1>11 DEF ChildInv

\* A command cannot be executed.
LEMMA HelperExecFailsKeeps ==
  ASSUME ChildInv, NEW t \in Direct, HelperExecFails(t)
  PROVE  ChildInv'
<1>1. FlagsOK'
  BY FlagsTyped DEF FlagsOK, HelperExecFails
<1>2. TermOK'
  BY DEF ChildInv, TypeOK, TermOK, HelperExecFails
<1>3. StreamsOK'
  BY DEF ChildInv, TypeOK, StreamsOK, HelperExecFails
<1>4. TypeOK'
  BY <1>1, <1>2, <1>3, ConstantFacts DEF ChildInv, TypeOK, Handoffs, HelperExecFails
<1>5. LaunchInv'
  BY DEF ChildInv, TypeOK, LaunchInv, Launched, HelperExecFails
<1>6. TreeInv'
  BY DEF ChildInv, TypeOK, TreeInv, Exists, NothingLeft, HelperExecFails
<1>7. BarrierInv'
  BY DEF ChildInv, TypeOK, BarrierInv, HelperExecFails
<1>8. ReaperInv'
  BY DEF ChildInv, TypeOK, ReaperInv, Exists, NothingLeft, HelperExecFails
<1>9. SupInv'
  BY DEF ChildInv, TypeOK, SupInv, Launched, HelperExecFails
<1>10. TermInv'
  BY DEF ChildInv, TypeOK, TermInv, Launched, HelperExecFails
<1>11. OutputInv'
  BY DEF ChildInv, TypeOK, OutputInv, Launched, StreamEnded, Alive, HelperExecFails
<1> QED BY <1>1, <1>2, <1>3, <1>4, <1>5, <1>6, <1>7, <1>8, <1>9, <1>10, <1>11 DEF ChildInv

\* A running process forks: its child closes no cycle.
LEMMA ForkKeeps ==
  ASSUME ChildInv, NEW p \in Procs, NEW d \in Descendants, Fork(p, d)
  PROVE  ChildInv'
<1>1. FlagsOK'
  BY FlagsTyped DEF FlagsOK, Fork
<1>2. TermOK'
  BY DEF ChildInv, TypeOK, TermOK, Fork
<1>3. StreamsOK'
  BY DEF ChildInv, TypeOK, StreamsOK, Fork
<1>4. TypeOK'
  <2>1. (IF p \in Direct THEN p ELSE root[p]) \in Direct
    BY DEF ChildInv, TypeOK, Procs
  <2>2. root' \in [Descendants -> Direct]
    BY <2>1 DEF ChildInv, TypeOK, Fork
  <2>3. parent' \in [Descendants -> Procs \cup {Adopted}]
    BY DEF ChildInv, TypeOK, Fork
  <2>4. proc' \in [Procs -> {"none", "preparing", "prepared", "released", "running",
                             "zombie", "reaped"}]
    BY DEF ChildInv, TypeOK, Fork
  <2>5. UNCHANGED <<handoff, barrier, launch, next, reaper, recorded, results, prepared, sup,
                    writer>>
    BY DEF Fork
  <2> QED BY <1>1, <1>2, <1>3, <2>2, <2>3, <2>4, <2>5 DEF ChildInv, TypeOK
<1>5. LaunchInv'
  <2>1. /\ p \in Procs /\ proc[p] = "running" /\ d \notin Direct
        /\ UNCHANGED <<launch, next, reaper>>
    BY ConstantFacts DEF Fork
  <2>2. \A t \in Direct : proc'[t] = proc[t]
    BY <2>1, ConstantFacts DEF ChildInv, TypeOK, Fork
  <2>3. Launched' = Launched
    BY <2>2 DEF Launched
  <2>4. launch # "idle" /\ Launched # {}
    BY <2>1 DEF ChildInv, LaunchInv
  <2>5. launch # "launching"
    <3>1. SUFFICES ASSUME launch = "launching"
                   PROVE  FALSE
      OBVIOUS
    <3>2. p \in Direct
      BY <2>1, <3>1 DEF ChildInv, LaunchInv, Procs
    <3>3. barrier = "released"
      BY <2>1, <3>2 DEF ChildInv, BarrierInv
    <3> QED BY <3>1, <3>3 DEF ChildInv, BarrierInv
  <2> QED BY <2>1, <2>3, <2>4, <2>5 DEF ChildInv, LaunchInv
<1>6. TreeInv'
  <2>0. /\ p # d /\ p \in Procs /\ d \in Procs /\ Adopted \notin Procs
        /\ proc[p] = "running" /\ proc[d] = "none"
        /\ \A q \in Procs : proc'[q] = IF q = d THEN "running" ELSE proc[q]
        /\ \A e \in Descendants : parent'[e] = IF e = d THEN p ELSE parent[e]
    BY ConstantFacts DEF ChildInv, TypeOK, Fork
  <2>1. \A e \in Descendants : e \in Procs /\ (Exists(e) => parent[e] # d)
    BY <2>0, ConstantFacts DEF ChildInv, TreeInv
  <2>2. ASSUME NEW e \in Descendants, Exists(e)', parent'[e] # Adopted
        PROVE  proc'[parent'[e]] = "running"
    BY <2>0, <2>1, <2>2 DEF ChildInv, TypeOK, TreeInv, Exists
  <2>3. ASSUME NEW S \in SUBSET Descendants, S # {}, \A e \in S : Exists(e)'
        PROVE  \E e \in S : parent'[e] \notin S
    <3>1. \A e \in S \ {d} : Exists(e) /\ parent'[e] = parent[e] /\ parent[e] # d
      BY <2>0, <2>1, <2>3 DEF Exists
    <3>2. CASE S \ {d} = {}
      <4>1. S = {d}
        BY <2>3, <3>2
      <4> QED BY <2>0, <4>1
    <3>3. CASE S \ {d} # {}
      <4>1. PICK e \in S \ {d} : parent[e] \notin S \ {d}
        BY <3>1, <3>3 DEF ChildInv, TreeInv
      <4> QED BY <3>1, <4>1
    <3> QED BY <3>2, <3>3
  <2> QED BY <2>2, <2>3 DEF TreeInv
<1>7. BarrierInv'
  BY ConstantFacts DEF ChildInv, TypeOK, BarrierInv, LaunchInv, SupInv, FlagsOK, TermOK,
     StreamsOK, Launched, Procs, Fork
<1>8. ReaperInv'
  BY DEF ChildInv, TypeOK, ReaperInv, Exists, NothingLeft, Fork
<1>9. SupInv'
  BY DEF ChildInv, TypeOK, SupInv, Launched, Fork
<1>10. TermInv'
  BY ConstantFacts DEF ChildInv, TypeOK, TermInv, LaunchInv, SupInv, FlagsOK, TermOK,
     StreamsOK, Launched, Procs, Fork
<1>11. OutputInv'
  BY ConstantFacts DEF ChildInv, TypeOK, OutputInv, LaunchInv, SupInv, FlagsOK, TermOK,
     StreamsOK, Launched, StreamEnded, Alive, Procs, Fork
<1> QED BY <1>1, <1>2, <1>3, <1>4, <1>5, <1>6, <1>7, <1>8, <1>9, <1>10, <1>11 DEF ChildInv

\* A process ends: init adopts its children.
LEMMA ExitKeeps ==
  ASSUME ChildInv, NEW p \in Procs, Exit(p)
  PROVE  ChildInv'
<1>1. FlagsOK'
  <2>1. UNCHANGED <<killed, ctxDone, confirmed, changed, contained, cancelled, failed, published,
                    waitErr, accepting, outputWake, ioClosed, signalled>>
    BY DEF Exit
  <2> QED BY <2>1, FlagsTyped DEF FlagsOK
<1>2. TermOK'
  BY DEF ChildInv, TypeOK, TermOK, Exit, Alive
<1>3. StreamsOK'
  BY DEF ChildInv, TypeOK, StreamsOK, Exit, Alive
<1>4. TypeOK'
  BY <1>1, <1>2, <1>3 DEF ChildInv, TypeOK, Exit, Alive
<1>5. LaunchInv'
  BY ConstantFacts DEF ChildInv, TypeOK, LaunchInv, SupInv, FlagsOK, TermOK, StreamsOK,
     Launched, Procs, Exit, Alive
<1>6. TreeInv'
  <2>0. /\ Adopted \notin Procs /\ proc[p] # "none" /\ proc[p] # "reaped"
        /\ \A q \in Procs : proc'[q] = IF q = p THEN "zombie" ELSE proc[q]
        /\ Descendants \subseteq Procs
        /\ \A e \in Descendants : parent'[e] = IF parent[e] = p THEN Adopted ELSE parent[e]
    BY ConstantFacts DEF ChildInv, TypeOK, Exit, Alive
  <2>1. \A q \in Procs : Exists(q)' => Exists(q)
    BY <2>0 DEF Exists
  <2>2. ASSUME NEW e \in Descendants, Exists(e)', parent'[e] # Adopted
        PROVE  proc'[parent'[e]] = "running"
    BY <2>0, <2>1, <2>2 DEF ChildInv, TypeOK, TreeInv
  <2>3. ASSUME NEW S \in SUBSET Descendants, S # {}, \A e \in S : Exists(e)'
        PROVE  \E e \in S : parent'[e] \notin S
    <3>1. PICK e \in S : parent[e] \notin S
      BY <2>0, <2>1, <2>3 DEF ChildInv, TreeInv
    <3> QED BY <2>0, <3>1
  <2> QED BY <2>2, <2>3 DEF TreeInv
<1>7. BarrierInv'
  BY DEF ChildInv, TypeOK, BarrierInv, Exit, Alive
<1>8. ReaperInv'
  BY ConstantFacts DEF ChildInv, TypeOK, ReaperInv, LaunchInv, SupInv, FlagsOK, TermOK,
     StreamsOK, Exists, NothingLeft, Launched, Procs, Exit, Alive
<1>9. SupInv'
  BY DEF ChildInv, TypeOK, SupInv, Launched, Exit, Alive
<1>10. TermInv'
  BY ConstantFacts DEF ChildInv, TypeOK, TermInv, LaunchInv, SupInv, FlagsOK, TermOK,
     StreamsOK, Launched, Procs, Exit, Alive
<1>11. OutputInv'
  BY DEF ChildInv, TypeOK, OutputInv, Launched, StreamEnded, Alive, Exit, Alive
<1> QED BY <1>1, <1>2, <1>3, <1>4, <1>5, <1>6, <1>7, <1>8, <1>9, <1>10, <1>11 DEF ChildInv

\* A running process writes.
LEMMA WriteOutputKeeps ==
  ASSUME ChildInv, NEW p \in Procs, WriteOutput(p)
  PROVE  ChildInv'
<1>1. FlagsOK'
  BY FlagsTyped DEF FlagsOK, WriteOutput
<1>2. TermOK'
  BY DEF ChildInv, TypeOK, TermOK, WriteOutput
<1>3. StreamsOK'
  BY DEF ChildInv, TypeOK, StreamsOK, WriteOutput
<1>4. TypeOK'
  BY <1>1, <1>2, <1>3 DEF ChildInv, TypeOK, WriteOutput
<1>5. LaunchInv'
  BY DEF ChildInv, TypeOK, LaunchInv, Launched, WriteOutput
<1>6. TreeInv'
  BY DEF ChildInv, TypeOK, TreeInv, Exists, NothingLeft, WriteOutput
<1>7. BarrierInv'
  BY DEF ChildInv, TypeOK, BarrierInv, WriteOutput
<1>8. ReaperInv'
  BY DEF ChildInv, TypeOK, ReaperInv, Exists, NothingLeft, WriteOutput
<1>9. SupInv'
  BY DEF ChildInv, TypeOK, SupInv, Launched, WriteOutput
<1>10. TermInv'
  BY DEF ChildInv, TypeOK, TermInv, Launched, WriteOutput
<1>11. OutputInv'
  BY ConstantFacts DEF ChildInv, TypeOK, OutputInv, LaunchInv, SupInv, FlagsOK, TermOK,
     StreamsOK, Launched, StreamEnded, Alive, Procs, WriteOutput
<1> QED BY <1>1, <1>2, <1>3, <1>4, <1>5, <1>6, <1>7, <1>8, <1>9, <1>10, <1>11 DEF ChildInv

\* The start begins.
LEMMA StartBeginsKeeps ==
  ASSUME ChildInv, StartBegins
  PROVE  ChildInv'
<1>1. FlagsOK'
  BY FlagsTyped DEF FlagsOK, StartBegins, Direct
<1>2. TermOK'
  BY DEF ChildInv, TypeOK, TermOK, StartBegins, Direct
<1>3. StreamsOK'
  BY DEF ChildInv, TypeOK, StreamsOK, StartBegins, Direct
<1>4. TypeOK'
  BY <1>1, <1>2, <1>3 DEF ChildInv, TypeOK, StartBegins, Direct
<1>5. LaunchInv'
  <2>1. /\ launch = "idle" /\ launch' = "launching"
        /\ UNCHANGED <<proc, next, reaper>>
        /\ next = 1 /\ reaper = "off" /\ \A q \in Procs : proc[q] = "none"
    BY DEF ChildInv, LaunchInv, StartBegins
  <2>2. \A t \in Direct : t >= 1
    BY ConstantFacts DEF Direct
  <2>3. \A t \in Direct : proc'[t] = "none" <=> t >= next'
    BY <2>1, <2>2, ConstantFacts
  <2> QED BY <2>1, <2>3, ConstantFacts DEF LaunchInv
<1>6. TreeInv'
  BY DEF ChildInv, TypeOK, TreeInv, Exists, NothingLeft, StartBegins, Direct
<1>7. BarrierInv'
  BY DEF ChildInv, TypeOK, BarrierInv, StartBegins, Direct
<1>8. ReaperInv'
  BY DEF ChildInv, TypeOK, ReaperInv, Exists, NothingLeft, StartBegins, Direct
<1>9. SupInv'
  BY DEF ChildInv, TypeOK, SupInv, Launched, StartBegins, Direct
<1>10. TermInv'
  BY DEF ChildInv, TypeOK, TermInv, Launched, StartBegins, Direct
<1>11. OutputInv'
  BY DEF ChildInv, TypeOK, OutputInv, Launched, StreamEnded, Alive, StartBegins, Direct
<1> QED BY <1>1, <1>2, <1>3, <1>4, <1>5, <1>6, <1>7, <1>8, <1>9, <1>10, <1>11 DEF ChildInv

\* The start is refused before a process exists.
LEMMA StartRejectsKeeps ==
  ASSUME ChildInv, StartRejects
  PROVE  ChildInv'
<1>1. FlagsOK'
  BY FlagsTyped DEF FlagsOK, StartRejects
<1>2. TermOK'
  BY DEF ChildInv, TypeOK, TermOK, StartRejects
<1>3. StreamsOK'
  BY DEF ChildInv, TypeOK, StreamsOK, StartRejects
<1>4. TypeOK'
  BY <1>1, <1>2, <1>3 DEF ChildInv, TypeOK, StartRejects
<1>5. LaunchInv'
  BY DEF ChildInv, TypeOK, LaunchInv, Launched, StartRejects
<1>6. TreeInv'
  BY DEF ChildInv, TypeOK, TreeInv, Exists, NothingLeft, StartRejects
<1>7. BarrierInv'
  BY DEF ChildInv, TypeOK, BarrierInv, StartRejects
<1>8. ReaperInv'
  BY ConstantFacts DEF ChildInv, TypeOK, ReaperInv, LaunchInv, SupInv, FlagsOK, TermOK,
     StreamsOK, Exists, NothingLeft, Launched, Procs, StartRejects
<1>9. SupInv'
  BY DEF ChildInv, TypeOK, SupInv, Launched, StartRejects
<1>10. TermInv'
  BY DEF ChildInv, TypeOK, TermInv, Launched, StartRejects
<1>11. OutputInv'
  BY DEF ChildInv, TypeOK, OutputInv, Launched, StreamEnded, Alive, StartRejects
<1> QED BY <1>1, <1>2, <1>3, <1>4, <1>5, <1>6, <1>7, <1>8, <1>9, <1>10, <1>11 DEF ChildInv

\* The context of the caller ends.
LEMMA CancelContextKeeps ==
  ASSUME ChildInv, CancelContext
  PROVE  ChildInv'
<1>1. FlagsOK'
  BY FlagsTyped DEF FlagsOK, CancelContext
<1>2. TermOK'
  BY DEF ChildInv, TypeOK, TermOK, CancelContext
<1>3. StreamsOK'
  BY DEF ChildInv, TypeOK, StreamsOK, CancelContext
<1>4. TypeOK'
  BY <1>1, <1>2, <1>3 DEF ChildInv, TypeOK, CancelContext
<1>5. LaunchInv'
  BY DEF ChildInv, TypeOK, LaunchInv, Launched, CancelContext
<1>6. TreeInv'
  BY DEF ChildInv, TypeOK, TreeInv, Exists, NothingLeft, CancelContext
<1>7. BarrierInv'
  BY DEF ChildInv, TypeOK, BarrierInv, CancelContext
<1>8. ReaperInv'
  BY DEF ChildInv, TypeOK, ReaperInv, Exists, NothingLeft, CancelContext
<1>9. SupInv'
  BY DEF ChildInv, TypeOK, SupInv, Launched, CancelContext
<1>10. TermInv'
  BY DEF ChildInv, TypeOK, TermInv, Launched, CancelContext
<1>11. OutputInv'
  BY DEF ChildInv, TypeOK, OutputInv, Launched, StreamEnded, Alive, CancelContext
<1> QED BY <1>1, <1>2, <1>3, <1>4, <1>5, <1>6, <1>7, <1>8, <1>9, <1>10, <1>11 DEF ChildInv

\* The set is cancelled.
LEMMA CancelKeeps ==
  ASSUME ChildInv, Cancel
  PROVE  ChildInv'
<1>1. FlagsOK'
  BY FlagsTyped DEF FlagsOK, Cancel, BeginCancellation, BeginTermination
<1>2. TermOK'
  BY DEF ChildInv, TypeOK, TermOK, Cancel, BeginCancellation, BeginTermination
<1>3. StreamsOK'
  BY DEF ChildInv, TypeOK, StreamsOK, Cancel, BeginCancellation, BeginTermination
<1>4. TypeOK'
  BY <1>1, <1>2, <1>3 DEF ChildInv, TypeOK, Cancel, BeginCancellation, BeginTermination
<1>5. LaunchInv'
  BY DEF ChildInv, TypeOK, LaunchInv, Launched, Cancel, BeginCancellation, BeginTermination
<1>6. TreeInv'
  BY DEF ChildInv, TypeOK, TreeInv, Exists, NothingLeft, Cancel, BeginCancellation,
     BeginTermination
<1>7. BarrierInv'
  BY DEF ChildInv, TypeOK, BarrierInv, Cancel, BeginCancellation, BeginTermination
<1>8. ReaperInv'
  BY DEF ChildInv, TypeOK, ReaperInv, Exists, NothingLeft, Cancel, BeginCancellation,
     BeginTermination
<1>9. SupInv'
  BY DEF ChildInv, TypeOK, SupInv, Launched, Cancel, BeginCancellation, BeginTermination
<1>10. TermInv'
  BY ConstantFacts DEF ChildInv, TypeOK, TermInv, LaunchInv, SupInv, FlagsOK, TermOK,
     StreamsOK, Launched, Procs, Cancel, BeginCancellation, BeginTermination
<1>11. OutputInv'
  BY DEF ChildInv, TypeOK, OutputInv, Launched, StreamEnded, Alive, Cancel,
     BeginCancellation, BeginTermination
<1> QED BY <1>1, <1>2, <1>3, <1>4, <1>5, <1>6, <1>7, <1>8, <1>9, <1>10, <1>11 DEF ChildInv

\* The consumer takes a chunk.
LEMMA ConsumeKeeps ==
  ASSUME ChildInv, Consume
  PROVE  ChildInv'
<1>1. FlagsOK'
  BY FlagsTyped DEF FlagsOK, Consume
<1>2. TermOK'
  BY DEF ChildInv, TypeOK, TermOK, Consume
<1>3. StreamsOK'
  BY ConstantFacts DEF ChildInv, TypeOK, StreamsOK, Direct, Procs, Consume
<1>4. TypeOK'
  BY <1>1, <1>2, <1>3 DEF ChildInv, TypeOK, Consume
<1>5. LaunchInv'
  BY DEF ChildInv, TypeOK, LaunchInv, Launched, Consume
<1>6. TreeInv'
  BY DEF ChildInv, TypeOK, TreeInv, Exists, NothingLeft, Consume
<1>7. BarrierInv'
  BY DEF ChildInv, TypeOK, BarrierInv, Consume
<1>8. ReaperInv'
  BY DEF ChildInv, TypeOK, ReaperInv, Exists, NothingLeft, Consume
<1>9. SupInv'
  BY DEF ChildInv, TypeOK, SupInv, Launched, Consume
<1>10. TermInv'
  BY DEF ChildInv, TypeOK, TermInv, Launched, Consume
<1>11. OutputInv'
  BY DEF ChildInv, TypeOK, OutputInv, Launched, StreamEnded, Alive, Consume
<1> QED BY <1>1, <1>2, <1>3, <1>4, <1>5, <1>6, <1>7, <1>8, <1>9, <1>10, <1>11 DEF ChildInv

\* A command is launched.
LEMMA LaunchChildKeeps ==
  ASSUME ChildInv, LaunchChild
  PROVE  ChildInv'
<1>1. FlagsOK'
  BY FlagsTyped DEF FlagsOK, LaunchChild, Direct
<1>2. TermOK'
  BY DEF ChildInv, TypeOK, TermOK, LaunchChild, Direct
<1>3. StreamsOK'
  BY DEF ChildInv, TypeOK, StreamsOK, LaunchChild, Direct
<1>4. TypeOK'
  BY <1>1, <1>2, <1>3, ConstantFacts DEF ChildInv, TypeOK, Handoffs, LaunchChild, Direct
<1>5. LaunchInv'
  <2>1. /\ launch = "launching" /\ reaper = "off" /\ next \in Direct
        /\ \A d \in Descendants : proc[d] = "none"
        /\ \A t \in Direct : proc[t] = "none" <=> t >= next
    BY DEF ChildInv, TypeOK, LaunchInv, LaunchChild
  <2>2. \A q \in Procs : proc'[q] = IF q = next THEN "preparing" ELSE proc[q]
    BY DEF ChildInv, TypeOK, LaunchChild
  <2>3. \A d \in Descendants : proc'[d] = "none"
    BY <2>1, <2>2, ConstantFacts
  <2>4. \A t \in Direct : proc'[t] = "none" <=> t > next
    BY <2>1, <2>2, ConstantFacts DEF Direct
  <2>5. next \in Launched'
    BY <2>1, <2>2, ConstantFacts DEF Launched
  <2>6. CASE next < Transfers
    <3>1. launch' = "launching" /\ reaper' = "off" /\ next' = next + 1
      BY <2>1, <2>6 DEF LaunchChild
    <3>2. \A t \in Direct : proc'[t] = "none" <=> t >= next'
      BY <2>1, <2>4, <3>1 DEF Direct
    <3> QED BY <2>3, <2>5, <3>1, <3>2 DEF LaunchInv
  <2>7. CASE ~(next < Transfers)
    <3>1. launch' = "ready"
      BY <2>7 DEF LaunchChild
    <3>2. next = Transfers
      BY <2>1, <2>7, ConstantFacts DEF Direct
    <3>3. \A t \in Direct : ~(t > next)
      BY <3>2, ConstantFacts DEF Direct
    <3>4. Launched' = Direct
      BY <2>4, <3>3 DEF Launched
    <3> QED BY <2>5, <3>1, <3>4 DEF LaunchInv
  <2> QED BY <2>6, <2>7
<1>6. TreeInv'
  <2>1. \A e \in Descendants : proc'[e] = "none"
    BY ConstantFacts DEF ChildInv, TypeOK, LaunchInv, LaunchChild
  <2> QED BY <2>1 DEF TreeInv, Exists
<1>7. BarrierInv'
  BY ConstantFacts DEF ChildInv, TypeOK, BarrierInv, LaunchInv, SupInv, FlagsOK, TermOK,
     StreamsOK, Launched, Procs, LaunchChild, Direct
<1>8. ReaperInv'
  <2>1. reaper = "off" /\ launch = "launching" /\ launch' # "refused"
    BY DEF ChildInv, LaunchInv, LaunchChild
  <2>2. ~confirmed /\ ~contained /\ UNCHANGED <<confirmed, contained, recorded, results>>
    BY <2>1 DEF ChildInv, ReaperInv, LaunchChild
  <2>3. \A t \in recorded : proc'[t] = "reaped"
    <3>1. \A t \in recorded : t # next
      BY DEF ChildInv, TypeOK, LaunchInv, ReaperInv, LaunchChild, Direct
    <3> QED BY <3>1, ConstantFacts DEF ChildInv, TypeOK, ReaperInv, LaunchChild
  <2>4. reaper' \in {"off", "wait"}
    BY <2>1 DEF LaunchChild
  <2> QED BY <2>1, <2>2, <2>3, <2>4 DEF ChildInv, ReaperInv
<1>9. SupInv'
  BY DEF ChildInv, TypeOK, SupInv, Launched, LaunchChild, Direct
<1>10. TermInv'
  BY ConstantFacts DEF ChildInv, TypeOK, TermInv, LaunchInv, SupInv, FlagsOK, TermOK,
     StreamsOK, Launched, Procs, LaunchChild, Direct
<1>11. OutputInv'
  BY ConstantFacts DEF ChildInv, TypeOK, OutputInv, LaunchInv, SupInv, FlagsOK, TermOK,
     StreamsOK, Launched, StreamEnded, Alive, Procs, LaunchChild, Direct
<1> QED BY <1>1, <1>2, <1>3, <1>4, <1>5, <1>6, <1>7, <1>8, <1>9, <1>10, <1>11 DEF ChildInv

\* A launch fails.
LEMMA LaunchFailsKeeps ==
  ASSUME ChildInv, LaunchFails
  PROVE  ChildInv'
<1>1. FlagsOK'
  BY FlagsTyped DEF FlagsOK, LaunchFails, AbortBeforeBarrier, Direct
<1>2. TermOK'
  BY DEF ChildInv, TypeOK, TermOK, LaunchFails, AbortBeforeBarrier, Direct
<1>3. StreamsOK'
  BY DEF ChildInv, TypeOK, StreamsOK, LaunchFails, AbortBeforeBarrier, Direct
<1>4. TypeOK'
  BY <1>1, <1>2, <1>3 DEF ChildInv, TypeOK, LaunchFails, AbortBeforeBarrier, Direct
<1>5. LaunchInv'
  BY DEF ChildInv, TypeOK, LaunchInv, Launched, LaunchFails, AbortBeforeBarrier, Direct
<1>6. TreeInv'
  <2>1. \A e \in Descendants : proc'[e] = "none"
    BY ConstantFacts DEF ChildInv, TypeOK, LaunchInv, LaunchFails
  <2> QED BY <2>1 DEF TreeInv, Exists
<1>7. BarrierInv'
  BY DEF ChildInv, TypeOK, BarrierInv, LaunchFails, AbortBeforeBarrier, Direct
<1>8. ReaperInv'
  <2>1. reaper = "off" /\ launch = "launching" /\ launch' # "refused"
    BY DEF ChildInv, LaunchInv, LaunchFails, AbortBeforeBarrier
  <2>2. ~confirmed /\ ~contained /\ UNCHANGED <<confirmed, contained, recorded, results>>
    BY <2>1 DEF ChildInv, ReaperInv, LaunchFails
  <2>3. \A t \in recorded : proc'[t] = "reaped"
    <3>1. \A t \in recorded : t # next
      BY DEF ChildInv, TypeOK, LaunchInv, ReaperInv, LaunchFails, Direct
    <3> QED BY <3>1, ConstantFacts DEF ChildInv, TypeOK, ReaperInv, LaunchFails
  <2>4. reaper' \in {"off", "wait"}
    BY <2>1 DEF LaunchFails, AbortBeforeBarrier
  <2> QED BY <2>1, <2>2, <2>3, <2>4 DEF ChildInv, ReaperInv
<1>9. SupInv'
  BY DEF ChildInv, TypeOK, SupInv, Launched, LaunchFails, AbortBeforeBarrier, Direct
<1>10. TermInv'
  BY ConstantFacts DEF ChildInv, TypeOK, TermInv, LaunchInv, SupInv, FlagsOK, TermOK,
     StreamsOK, Launched, Procs, LaunchFails, AbortBeforeBarrier, Direct
<1>11. OutputInv'
  BY ConstantFacts DEF ChildInv, TypeOK, OutputInv, LaunchInv, SupInv, FlagsOK, TermOK,
     StreamsOK, Launched, StreamEnded, Alive, Procs, LaunchFails, AbortBeforeBarrier, Direct
<1> QED BY <1>1, <1>2, <1>3, <1>4, <1>5, <1>6, <1>7, <1>8, <1>9, <1>10, <1>11 DEF ChildInv

\* A handoff is read.
LEMMA AwaitReadyKeeps ==
  ASSUME ChildInv, AwaitReady
  PROVE  ChildInv'
<1>1. FlagsOK'
  BY FlagsTyped DEF FlagsOK, AwaitReady, Direct
<1>2. TermOK'
  BY DEF ChildInv, TypeOK, TermOK, AwaitReady, Direct
<1>3. StreamsOK'
  BY DEF ChildInv, TypeOK, StreamsOK, AwaitReady, Direct
<1>4. TypeOK'
  BY <1>1, <1>2, <1>3, ConstantFacts DEF ChildInv, TypeOK, Handoffs, AwaitReady, Direct
<1>5. LaunchInv'
  BY DEF ChildInv, TypeOK, LaunchInv, Launched, AwaitReady, Direct
<1>6. TreeInv'
  BY DEF ChildInv, TypeOK, TreeInv, Exists, NothingLeft, AwaitReady, Direct
<1>7. BarrierInv'
  <2>1. /\ launch = "ready" /\ handoff[next] = "prepared" /\ next \in Direct
        /\ UNCHANGED <<proc, barrier, prepared>>
        /\ \A t \in Direct : handoff'[t] = IF t = next THEN "empty" ELSE handoff[t]
    BY DEF ChildInv, TypeOK, AwaitReady
  <2>2. next \in prepared /\ \A t \in Direct : t < next => t \in prepared
    BY <2>1 DEF ChildInv, BarrierInv
  <2>3. \A t \in Direct : handoff'[t] = "prepared" => t \in prepared'
    BY <2>1 DEF ChildInv, BarrierInv
  <2>4. CASE next < Transfers
    <3>1. launch' = "ready" /\ next' = next + 1
      BY <2>1, <2>4 DEF AwaitReady
    <3>2. \A t \in Direct : t < next' => t \in prepared
      BY <2>1, <2>2, <3>1 DEF Direct
    <3> QED BY <2>1, <2>3, <3>1, <3>2 DEF ChildInv, BarrierInv
  <2>5. CASE ~(next < Transfers)
    <3>1. launch' = "release"
      BY <2>5 DEF AwaitReady
    <3>2. next = Transfers
      BY <2>1, <2>5, ConstantFacts DEF Direct
    <3>3. \A t \in Direct : t < next \/ t = next
      BY <3>2, ConstantFacts DEF Direct
    <3>4. prepared = Direct
      BY <2>2, <3>3 DEF ChildInv, TypeOK
    <3> QED BY <2>1, <2>3, <3>1, <3>4 DEF ChildInv, BarrierInv
  <2> QED BY <2>4, <2>5
<1>8. ReaperInv'
  BY DEF ChildInv, TypeOK, ReaperInv, Exists, NothingLeft, AwaitReady, Direct
<1>9. SupInv'
  BY DEF ChildInv, TypeOK, SupInv, Launched, AwaitReady, Direct
<1>10. TermInv'
  BY DEF ChildInv, TypeOK, TermInv, Launched, AwaitReady, Direct
<1>11. OutputInv'
  BY DEF ChildInv, TypeOK, OutputInv, Launched, StreamEnded, Alive, AwaitReady, Direct
<1> QED BY <1>1, <1>2, <1>3, <1>4, <1>5, <1>6, <1>7, <1>8, <1>9, <1>10, <1>11 DEF ChildInv

\* A handoff does not come.
LEMMA NotReadyKeeps ==
  ASSUME ChildInv, NotReady
  PROVE  ChildInv'
<1>1. FlagsOK'
  BY FlagsTyped DEF FlagsOK, NotReady, AbortBeforeBarrier
<1>2. TermOK'
  BY DEF ChildInv, TypeOK, TermOK, NotReady, AbortBeforeBarrier
<1>3. StreamsOK'
  BY DEF ChildInv, TypeOK, StreamsOK, NotReady, AbortBeforeBarrier
<1>4. TypeOK'
  BY <1>1, <1>2, <1>3 DEF ChildInv, TypeOK, NotReady, AbortBeforeBarrier
<1>5. LaunchInv'
  BY DEF ChildInv, TypeOK, LaunchInv, Launched, NotReady, AbortBeforeBarrier
<1>6. TreeInv'
  BY DEF ChildInv, TypeOK, TreeInv, Exists, NothingLeft, NotReady, AbortBeforeBarrier
<1>7. BarrierInv'
  BY DEF ChildInv, TypeOK, BarrierInv, NotReady, AbortBeforeBarrier
<1>8. ReaperInv'
  BY DEF ChildInv, TypeOK, ReaperInv, Exists, NothingLeft, NotReady, AbortBeforeBarrier
<1>9. SupInv'
  BY DEF ChildInv, TypeOK, SupInv, Launched, NotReady, AbortBeforeBarrier
<1>10. TermInv'
  BY DEF ChildInv, TypeOK, TermInv, Launched, NotReady, AbortBeforeBarrier
<1>11. OutputInv'
  BY DEF ChildInv, TypeOK, OutputInv, Launched, StreamEnded, Alive, NotReady,
     AbortBeforeBarrier
<1> QED BY <1>1, <1>2, <1>3, <1>4, <1>5, <1>6, <1>7, <1>8, <1>9, <1>10, <1>11 DEF ChildInv

\* The barrier is released.
LEMMA ReleaseBarrierKeeps ==
  ASSUME ChildInv, ReleaseBarrier
  PROVE  ChildInv'
<1>1. FlagsOK'
  BY FlagsTyped DEF FlagsOK, ReleaseBarrier
<1>2. TermOK'
  BY DEF ChildInv, TypeOK, TermOK, ReleaseBarrier
<1>3. StreamsOK'
  BY DEF ChildInv, TypeOK, StreamsOK, ReleaseBarrier
<1>4. TypeOK'
  BY <1>1, <1>2, <1>3 DEF ChildInv, TypeOK, ReleaseBarrier
<1>5. LaunchInv'
  BY DEF ChildInv, TypeOK, LaunchInv, Launched, ReleaseBarrier
<1>6. TreeInv'
  BY DEF ChildInv, TypeOK, TreeInv, Exists, NothingLeft, ReleaseBarrier
<1>7. BarrierInv'
  BY DEF ChildInv, TypeOK, BarrierInv, ReleaseBarrier
<1>8. ReaperInv'
  BY DEF ChildInv, TypeOK, ReaperInv, Exists, NothingLeft, ReleaseBarrier
<1>9. SupInv'
  BY DEF ChildInv, TypeOK, SupInv, Launched, ReleaseBarrier
<1>10. TermInv'
  BY DEF ChildInv, TypeOK, TermInv, Launched, ReleaseBarrier
<1>11. OutputInv'
  BY DEF ChildInv, TypeOK, OutputInv, Launched, StreamEnded, Alive, ReleaseBarrier
<1> QED BY <1>1, <1>2, <1>3, <1>4, <1>5, <1>6, <1>7, <1>8, <1>9, <1>10, <1>11 DEF ChildInv

\* The release fails: a set is returned and cancelled.
LEMMA ReleaseFailsKeeps ==
  ASSUME ChildInv, ReleaseFails
  PROVE  ChildInv'
<1>1. FlagsOK'
  BY FlagsTyped DEF FlagsOK, ReleaseFails, ReturnSet, Bindings
<1>2. TermOK'
  BY DEF ChildInv, TypeOK, TermOK, ReleaseFails, ReturnSet, Bindings
<1>3. StreamsOK'
  BY DEF ChildInv, TypeOK, StreamsOK, ReleaseFails, ReturnSet, Bindings
<1>4. TypeOK'
  BY <1>1, <1>2, <1>3 DEF ChildInv, TypeOK, ReleaseFails, ReturnSet, Bindings
<1>5. LaunchInv'
  BY DEF ChildInv, TypeOK, LaunchInv, Launched, ReleaseFails, ReturnSet, Bindings
<1>6. TreeInv'
  BY DEF ChildInv, TypeOK, TreeInv, Exists, NothingLeft, ReleaseFails, ReturnSet, Bindings
<1>7. BarrierInv'
  BY DEF ChildInv, TypeOK, BarrierInv, ReleaseFails, ReturnSet, Bindings
<1>8. ReaperInv'
  BY DEF ChildInv, TypeOK, ReaperInv, Exists, NothingLeft, ReleaseFails, ReturnSet, Bindings
<1>9. SupInv'
  BY DEF ChildInv, TypeOK, SupInv, Launched, ReleaseFails, ReturnSet, Bindings
<1>10. TermInv'
  BY ConstantFacts DEF ChildInv, TypeOK, TermInv, LaunchInv, SupInv, FlagsOK, TermOK,
     StreamsOK, Launched, Procs, ReleaseFails, ReturnSet, Bindings
<1>11. OutputInv'
  BY ConstantFacts DEF ChildInv, TypeOK, OutputInv, LaunchInv, SupInv, FlagsOK, TermOK,
     StreamsOK, Launched, StreamEnded, Alive, Procs, ReleaseFails, ReturnSet, Bindings
<1> QED BY <1>1, <1>2, <1>3, <1>4, <1>5, <1>6, <1>7, <1>8, <1>9, <1>10, <1>11 DEF ChildInv

\* An execution is awaited; after the last one the set is returned.
LEMMA AwaitExecKeeps ==
  ASSUME ChildInv, AwaitExec
  PROVE  ChildInv'
<1>1. FlagsOK'
  <2>1. failed' \in BOOLEAN /\ cancelled' \in BOOLEAN /\ accepting' \in BOOLEAN
    BY DEF ChildInv, TypeOK, FlagsOK, AwaitExec, ReturnSet
  <2>2. UNCHANGED <<killed, ctxDone, confirmed, changed, contained, published, waitErr,
                    outputWake, ioClosed, signalled>>
    BY DEF AwaitExec, ReturnSet
  <2> QED BY <2>1, <2>2 DEF ChildInv, TypeOK, FlagsOK
<1>2. TermOK'
  BY DEF ChildInv, TypeOK, TermOK, AwaitExec, ReturnSet, Bindings, Direct
<1>3. StreamsOK'
  BY DEF ChildInv, TypeOK, StreamsOK, AwaitExec, ReturnSet, Bindings, Direct
<1>4. TypeOK'
  BY <1>1, <1>2, <1>3, ConstantFacts DEF ChildInv, TypeOK, Handoffs, AwaitExec, ReturnSet,
     Bindings, Direct
<1>5. LaunchInv'
  BY DEF ChildInv, TypeOK, LaunchInv, Launched, AwaitExec, ReturnSet, Bindings, Direct
<1>6. TreeInv'
  BY DEF ChildInv, TypeOK, TreeInv, Exists, NothingLeft, AwaitExec, ReturnSet, Bindings,
     Direct
<1>7. BarrierInv'
  BY DEF ChildInv, TypeOK, BarrierInv, AwaitExec, ReturnSet, Bindings, Direct
<1>8. ReaperInv'
  BY DEF ChildInv, TypeOK, ReaperInv, Exists, NothingLeft, AwaitExec, ReturnSet, Bindings,
     Direct
<1>9. SupInv'
  BY DEF ChildInv, TypeOK, SupInv, Launched, AwaitExec, ReturnSet, Bindings, Direct
<1>10. TermInv'
  <2>1. CASE next < Transfers
    BY <2>1 DEF ChildInv, TermInv, AwaitExec, Launched
  <2>2. CASE ~(next < Transfers)
    <3>1. sup = "off" /\ ~published /\ ~signalled
      BY DEF ChildInv, SupInv, AwaitExec
    <3>2. PICK bound : ReturnSet("owned", bound, bound # Streams, FALSE)
      BY <2>2 DEF AwaitExec
    <3>3. /\ term'.pc = (IF bound # Streams THEN "begin" ELSE "off")
          /\ cancelled' = (bound # Streams)
      BY <3>2 DEF ChildInv, TypeOK, TermOK, ReturnSet
    <3>4. UNCHANGED <<published, signalled>>
      BY <3>2 DEF AwaitExec, ReturnSet
    <3> QED BY <3>1, <3>3, <3>4 DEF TermInv
  <2> QED BY <2>1, <2>2
<1>11. OutputInv'
  <2>1. CASE next < Transfers
    BY <2>1 DEF ChildInv, OutputInv, AwaitExec, Launched, StreamEnded, Alive
  <2>2. CASE ~(next < Transfers)
    <3>1. sup = "off" /\ \A s \in Streams : reader[s] = "off"
      BY DEF ChildInv, SupInv, AwaitExec
    <3>2. PICK bound : ReturnSet("owned", bound, bound # Streams, FALSE)
      BY <2>2 DEF AwaitExec
    <3>3. /\ sup' = "readers" /\ failed' = (bound # Streams)
          /\ UNCHANGED <<pending, written, delivered, proc, root>>
          /\ \A s \in Streams : /\ reader'[s] \in {"off", "bound"}
                                /\ reader'[s] = "off" => failed' \/ Launched = {}
      BY <3>2 DEF AwaitExec, ReturnSet
    <3>4. Launched' = Launched
      BY <3>3 DEF Launched
    <3>5. ASSUME NEW s \in Streams
          PROVE  /\ written[s] = pending[s] + delivered[s]
                 /\ Launched = {} => written[s] = 0
      BY <3>1 DEF ChildInv, OutputInv
    <3> QED BY <3>3, <3>4, <3>5 DEF OutputInv
  <2> QED BY <2>1, <2>2
<1> QED BY <1>1, <1>2, <1>3, <1>4, <1>5, <1>6, <1>7, <1>8, <1>9, <1>10, <1>11 DEF ChildInv

\* An execution fails: a set is returned and cancelled.
LEMMA NotExecutedKeeps ==
  ASSUME ChildInv, NotExecuted
  PROVE  ChildInv'
<1>1. FlagsOK'
  BY FlagsTyped DEF FlagsOK, NotExecuted, ReturnSet, Bindings
<1>2. TermOK'
  BY DEF ChildInv, TypeOK, TermOK, NotExecuted, ReturnSet, Bindings
<1>3. StreamsOK'
  BY DEF ChildInv, TypeOK, StreamsOK, NotExecuted, ReturnSet, Bindings
<1>4. TypeOK'
  BY <1>1, <1>2, <1>3 DEF ChildInv, TypeOK, NotExecuted, ReturnSet, Bindings
<1>5. LaunchInv'
  BY DEF ChildInv, TypeOK, LaunchInv, Launched, NotExecuted, ReturnSet, Bindings
<1>6. TreeInv'
  BY DEF ChildInv, TypeOK, TreeInv, Exists, NothingLeft, NotExecuted, ReturnSet, Bindings
<1>7. BarrierInv'
  BY DEF ChildInv, TypeOK, BarrierInv, NotExecuted, ReturnSet, Bindings
<1>8. ReaperInv'
  BY DEF ChildInv, TypeOK, ReaperInv, Exists, NothingLeft, NotExecuted, ReturnSet, Bindings
<1>9. SupInv'
  BY DEF ChildInv, TypeOK, SupInv, Launched, NotExecuted, ReturnSet, Bindings
<1>10. TermInv'
  BY ConstantFacts DEF ChildInv, TypeOK, TermInv, LaunchInv, SupInv, FlagsOK, TermOK,
     StreamsOK, Launched, Procs, NotExecuted, ReturnSet, Bindings
<1>11. OutputInv'
  <2>1. sup = "off" /\ \A s \in Streams : reader[s] = "off"
    BY DEF ChildInv, SupInv, NotExecuted
  <2>2. PICK bound : ReturnSet("ownedErr", bound, bound # Streams, TRUE)
    BY DEF NotExecuted
  <2>3. /\ sup' = "readers" /\ failed' = (bound # Streams)
        /\ UNCHANGED <<pending, written, delivered, proc, root>>
        /\ \A s \in Streams : /\ reader'[s] \in {"off", "bound"}
                              /\ reader'[s] = "off" => failed' \/ Launched = {}
    BY <2>2 DEF NotExecuted, ReturnSet
  <2>4. Launched' = Launched
    BY <2>3 DEF Launched
  <2>5. ASSUME NEW s \in Streams
        PROVE  /\ written[s] = pending[s] + delivered[s]
               /\ Launched = {} => written[s] = 0
    BY <2>1 DEF ChildInv, OutputInv
  <2> QED BY <2>3, <2>4, <2>5 DEF OutputInv
<1> QED BY <1>1, <1>2, <1>3, <1>4, <1>5, <1>6, <1>7, <1>8, <1>9, <1>10, <1>11 DEF ChildInv

\* The start is undone: nothing is left.
LEMMA AbortReapedKeeps ==
  ASSUME ChildInv, AbortReaped
  PROVE  ChildInv'
<1>1. FlagsOK'
  BY FlagsTyped DEF FlagsOK, AbortReaped
<1>2. TermOK'
  BY DEF ChildInv, TypeOK, TermOK, AbortReaped
<1>3. StreamsOK'
  BY DEF ChildInv, TypeOK, StreamsOK, AbortReaped
<1>4. TypeOK'
  BY <1>1, <1>2, <1>3 DEF ChildInv, TypeOK, AbortReaped
<1>5. LaunchInv'
  BY DEF ChildInv, TypeOK, LaunchInv, Launched, AbortReaped
<1>6. TreeInv'
  BY DEF ChildInv, TypeOK, TreeInv, Exists, NothingLeft, AbortReaped
<1>7. BarrierInv'
  BY DEF ChildInv, TypeOK, BarrierInv, AbortReaped
<1>8. ReaperInv'
  BY DEF ChildInv, TypeOK, ReaperInv, Exists, NothingLeft, AbortReaped
<1>9. SupInv'
  BY DEF ChildInv, TypeOK, SupInv, Launched, AbortReaped
<1>10. TermInv'
  BY DEF ChildInv, TypeOK, TermInv, Launched, AbortReaped
<1>11. OutputInv'
  BY DEF ChildInv, TypeOK, OutputInv, Launched, StreamEnded, Alive, AbortReaped
<1> QED BY <1>1, <1>2, <1>3, <1>4, <1>5, <1>6, <1>7, <1>8, <1>9, <1>10, <1>11 DEF ChildInv

\* An undone start kills what is left.
LEMMA AbortKillsKeeps ==
  ASSUME ChildInv, AbortKills
  PROVE  ChildInv'
<1>1. FlagsOK'
  <2>1. killed' \in BOOLEAN
    BY DEF ChildInv, TypeOK, FlagsOK, AbortKills
  <2> QED BY <2>1 DEF ChildInv, TypeOK, FlagsOK, AbortKills
<1>2. TermOK'
  BY DEF ChildInv, TypeOK, TermOK, AbortKills
<1>3. StreamsOK'
  BY DEF ChildInv, TypeOK, StreamsOK, AbortKills
<1>4. TypeOK'
  BY <1>1, <1>2, <1>3 DEF ChildInv, TypeOK, AbortKills
<1>5. LaunchInv'
  BY DEF ChildInv, TypeOK, LaunchInv, Launched, AbortKills
<1>6. TreeInv'
  BY DEF ChildInv, TypeOK, TreeInv, Exists, NothingLeft, AbortKills
<1>7. BarrierInv'
  BY DEF ChildInv, TypeOK, BarrierInv, AbortKills
<1>8. ReaperInv'
  BY DEF ChildInv, TypeOK, ReaperInv, Exists, NothingLeft, AbortKills
<1>9. SupInv'
  BY DEF ChildInv, TypeOK, SupInv, Launched, AbortKills
<1>10. TermInv'
  BY DEF ChildInv, TypeOK, TermInv, Launched, AbortKills
<1>11. OutputInv'
  BY DEF ChildInv, TypeOK, OutputInv, Launched, StreamEnded, Alive, AbortKills
<1> QED BY <1>1, <1>2, <1>3, <1>4, <1>5, <1>6, <1>7, <1>8, <1>9, <1>10, <1>11 DEF ChildInv

\* A start that cannot be undone returns a set.
LEMMA AbortGivesUpKeeps ==
  ASSUME ChildInv, AbortGivesUp
  PROVE  ChildInv'
<1>1. FlagsOK'
  BY FlagsTyped DEF FlagsOK, AbortGivesUp, ReturnSet
<1>2. TermOK'
  BY DEF ChildInv, TypeOK, TermOK, AbortGivesUp, ReturnSet
<1>3. StreamsOK'
  BY DEF ChildInv, TypeOK, StreamsOK, AbortGivesUp, ReturnSet
<1>4. TypeOK'
  BY <1>1, <1>2, <1>3 DEF ChildInv, TypeOK, AbortGivesUp, ReturnSet
<1>5. LaunchInv'
  BY DEF ChildInv, TypeOK, LaunchInv, Launched, AbortGivesUp, ReturnSet
<1>6. TreeInv'
  BY DEF ChildInv, TypeOK, TreeInv, Exists, NothingLeft, AbortGivesUp, ReturnSet
<1>7. BarrierInv'
  BY DEF ChildInv, TypeOK, BarrierInv, AbortGivesUp, ReturnSet
<1>8. ReaperInv'
  BY DEF ChildInv, TypeOK, ReaperInv, Exists, NothingLeft, AbortGivesUp, ReturnSet
<1>9. SupInv'
  BY DEF ChildInv, TypeOK, SupInv, Launched, AbortGivesUp, ReturnSet
<1>10. TermInv'
  BY ConstantFacts DEF ChildInv, TypeOK, TermInv, LaunchInv, SupInv, FlagsOK, TermOK,
     StreamsOK, Launched, Procs, AbortGivesUp, ReturnSet
<1>11. OutputInv'
  <2>1. sup = "off" /\ \A s \in Streams : reader[s] = "off"
    BY DEF ChildInv, SupInv, AbortGivesUp
  <2>2. ReturnSet("ownedErr", {}, Launched # {}, FALSE)
    BY DEF AbortGivesUp
  <2>3. /\ sup' = "readers" /\ failed' = (Launched # {})
        /\ UNCHANGED <<pending, written, delivered, proc, root>>
        /\ \A s \in Streams : /\ reader'[s] \in {"off", "bound"}
                              /\ reader'[s] = "off" => failed' \/ Launched = {}
    BY <2>2 DEF AbortGivesUp, ReturnSet
  <2>4. Launched' = Launched
    BY <2>3 DEF Launched
  <2>5. ASSUME NEW s \in Streams
        PROVE  /\ written[s] = pending[s] + delivered[s]
               /\ Launched = {} => written[s] = 0
    BY <2>1 DEF ChildInv, OutputInv
  <2> QED BY <2>3, <2>4, <2>5 DEF OutputInv
<1> QED BY <1>1, <1>2, <1>3, <1>4, <1>5, <1>6, <1>7, <1>8, <1>9, <1>10, <1>11 DEF ChildInv

\* The reaper takes a child of init.
LEMMA ReapKeeps ==
  ASSUME ChildInv, NEW p \in Procs, Reap(p)
  PROVE  ChildInv'
<1>1. FlagsOK'
  BY FlagsTyped DEF FlagsOK, Reap, ChildrenOfInit
<1>2. TermOK'
  BY DEF ChildInv, TypeOK, TermOK, Reap, ChildrenOfInit
<1>3. StreamsOK'
  BY DEF ChildInv, TypeOK, StreamsOK, Reap, ChildrenOfInit
<1>4. TypeOK'
  BY <1>1, <1>2, <1>3 DEF ChildInv, TypeOK, Reap, ChildrenOfInit
<1>5. LaunchInv'
  BY DEF ChildInv, TypeOK, LaunchInv, Launched, Reap, ChildrenOfInit
<1>6. TreeInv'
  BY DEF ChildInv, TypeOK, TreeInv, Exists, NothingLeft, Reap, ChildrenOfInit
<1>7. BarrierInv'
  BY DEF ChildInv, TypeOK, BarrierInv, Reap, ChildrenOfInit
<1>8. ReaperInv'
  BY DEF ChildInv, TypeOK, ReaperInv, Exists, NothingLeft, Reap, ChildrenOfInit
<1>9. SupInv'
  BY DEF ChildInv, TypeOK, SupInv, Launched, Reap, ChildrenOfInit
<1>10. TermInv'
  BY DEF ChildInv, TypeOK, TermInv, Launched, Reap, ChildrenOfInit
<1>11. OutputInv'
  BY DEF ChildInv, TypeOK, OutputInv, Launched, StreamEnded, Alive, Reap, ChildrenOfInit
<1> QED BY <1>1, <1>2, <1>3, <1>4, <1>5, <1>6, <1>7, <1>8, <1>9, <1>10, <1>11 DEF ChildInv

\* No child is left to init, and so no process at all.
LEMMA ReaperConfirmsKeeps ==
  ASSUME ChildInv, ReaperConfirms
  PROVE  ChildInv'
<1>1. FlagsOK'
  BY FlagsTyped DEF FlagsOK, ReaperConfirms, ChildrenOfInit
<1>2. TermOK'
  BY DEF ChildInv, TypeOK, TermOK, ReaperConfirms, ChildrenOfInit
<1>3. StreamsOK'
  BY DEF ChildInv, TypeOK, StreamsOK, ReaperConfirms, ChildrenOfInit
<1>4. TypeOK'
  BY <1>1, <1>2, <1>3 DEF ChildInv, TypeOK, ReaperConfirms, ChildrenOfInit
<1>5. LaunchInv'
  BY DEF ChildInv, TypeOK, LaunchInv, Launched, ReaperConfirms, ChildrenOfInit
<1>6. TreeInv'
  BY DEF ChildInv, TypeOK, TreeInv, Exists, NothingLeft, ReaperConfirms, ChildrenOfInit
<1>7. BarrierInv'
  BY DEF ChildInv, TypeOK, BarrierInv, ReaperConfirms, ChildrenOfInit
<1>8. ReaperInv'
  <2>1. NothingLeft
    <3>1. \A t \in Direct : ~Exists(t)
      BY ConstantFacts DEF ReaperConfirms, ChildrenOfInit, Exists
    <3> DEFINE S == {d \in Descendants : Exists(d)}
    <3>2. \A d \in S : parent[d] \in S
      <4> SUFFICES ASSUME NEW d \in S
                   PROVE  parent[d] \in S
        OBVIOUS
      <4>1. parent[d] # Adopted
        BY ConstantFacts DEF ReaperConfirms, ChildrenOfInit, Exists
      <4>2. parent[d] \in Procs /\ proc[parent[d]] = "running"
        BY <4>1 DEF ChildInv, TypeOK, TreeInv
      <4> QED BY <3>1, <4>2 DEF Procs, Exists
    <3>3. S = {}
      <4>1. S \in SUBSET Descendants /\ \A d \in S : Exists(d)
        OBVIOUS
      <4> HIDE DEF S
      <4> QED BY <3>2, <4>1 DEF ChildInv, TreeInv
    <3> QED BY <3>1, <3>3 DEF NothingLeft, Procs
  <2>2. NothingLeft'
    BY <2>1 DEF NothingLeft, Exists, ReaperConfirms
  <2> QED BY <2>2 DEF ChildInv, ReaperInv, ReaperConfirms, Exists
<1>9. SupInv'
  BY DEF ChildInv, TypeOK, SupInv, Launched, ReaperConfirms, ChildrenOfInit
<1>10. TermInv'
  BY DEF ChildInv, TypeOK, TermInv, Launched, ReaperConfirms, ChildrenOfInit
<1>11. OutputInv'
  BY DEF ChildInv, TypeOK, OutputInv, Launched, StreamEnded, Alive, ReaperConfirms,
     ChildrenOfInit
<1> QED BY <1>1, <1>2, <1>3, <1>4, <1>5, <1>6, <1>7, <1>8, <1>9, <1>10, <1>11 DEF ChildInv

\* The reaper closes its channels.
LEMMA ReaperStopsKeeps ==
  ASSUME ChildInv, ReaperStops
  PROVE  ChildInv'
<1>1. FlagsOK'
  <2>1. contained' \in BOOLEAN
    BY DEF ChildInv, TypeOK, FlagsOK, ReaperStops
  <2> QED BY <2>1 DEF ChildInv, TypeOK, FlagsOK, ReaperStops
<1>2. TermOK'
  BY DEF ChildInv, TypeOK, TermOK, ReaperStops
<1>3. StreamsOK'
  BY DEF ChildInv, TypeOK, StreamsOK, ReaperStops
<1>4. TypeOK'
  BY <1>1, <1>2, <1>3 DEF ChildInv, TypeOK, ReaperStops
<1>5. LaunchInv'
  BY DEF ChildInv, TypeOK, LaunchInv, Launched, ReaperStops
<1>6. TreeInv'
  BY DEF ChildInv, TypeOK, TreeInv, Exists, NothingLeft, ReaperStops
<1>7. BarrierInv'
  BY DEF ChildInv, TypeOK, BarrierInv, ReaperStops
<1>8. ReaperInv'
  BY DEF ChildInv, TypeOK, ReaperInv, Exists, NothingLeft, ReaperStops
<1>9. SupInv'
  BY DEF ChildInv, TypeOK, SupInv, Launched, ReaperStops
<1>10. TermInv'
  BY DEF ChildInv, TypeOK, TermInv, Launched, ReaperStops
<1>11. OutputInv'
  BY DEF ChildInv, TypeOK, OutputInv, Launched, StreamEnded, Alive, ReaperStops
<1> QED BY <1>1, <1>2, <1>3, <1>4, <1>5, <1>6, <1>7, <1>8, <1>9, <1>10, <1>11 DEF ChildInv

\* The reaper fails.
LEMMA ReaperFailsKeeps ==
  ASSUME ChildInv, ReaperFails
  PROVE  ChildInv'
<1>1. FlagsOK'
  BY FlagsTyped DEF FlagsOK, ReaperFails
<1>2. TermOK'
  BY DEF ChildInv, TypeOK, TermOK, ReaperFails
<1>3. StreamsOK'
  BY DEF ChildInv, TypeOK, StreamsOK, ReaperFails
<1>4. TypeOK'
  BY <1>1, <1>2, <1>3 DEF ChildInv, TypeOK, ReaperFails
<1>5. LaunchInv'
  BY DEF ChildInv, TypeOK, LaunchInv, Launched, ReaperFails
<1>6. TreeInv'
  BY DEF ChildInv, TypeOK, TreeInv, Exists, NothingLeft, ReaperFails
<1>7. BarrierInv'
  BY DEF ChildInv, TypeOK, BarrierInv, ReaperFails
<1>8. ReaperInv'
  BY DEF ChildInv, TypeOK, ReaperInv, Exists, NothingLeft, ReaperFails
<1>9. SupInv'
  BY DEF ChildInv, TypeOK, SupInv, Launched, ReaperFails
<1>10. TermInv'
  BY DEF ChildInv, TypeOK, TermInv, Launched, ReaperFails
<1>11. OutputInv'
  BY DEF ChildInv, TypeOK, OutputInv, Launched, StreamEnded, Alive, ReaperFails
<1> QED BY <1>1, <1>2, <1>3, <1>4, <1>5, <1>6, <1>7, <1>8, <1>9, <1>10, <1>11 DEF ChildInv

\* The termination begins.
LEMMA TermBeginsKeeps ==
  ASSUME ChildInv, TermBegins
  PROVE  ChildInv'
<1>1. FlagsOK'
  BY FlagsTyped DEF FlagsOK, TermBegins, Captured, TermDone
<1>2. TermOK'
  BY DEF ChildInv, TypeOK, TermOK, TermBegins, Captured, TermDone
<1>3. StreamsOK'
  BY DEF ChildInv, TypeOK, StreamsOK, TermBegins, Captured, TermDone
<1>4. TypeOK'
  BY <1>1, <1>2, <1>3 DEF ChildInv, TypeOK, TermBegins, Captured, TermDone
<1>5. LaunchInv'
  BY DEF ChildInv, TypeOK, LaunchInv, Launched, TermBegins, Captured, TermDone
<1>6. TreeInv'
  BY DEF ChildInv, TypeOK, TreeInv, Exists, NothingLeft, TermBegins, Captured, TermDone
<1>7. BarrierInv'
  BY DEF ChildInv, TypeOK, BarrierInv, TermBegins, Captured, TermDone
<1>8. ReaperInv'
  BY DEF ChildInv, TypeOK, ReaperInv, Exists, NothingLeft, TermBegins, Captured, TermDone
<1>9. SupInv'
  BY DEF ChildInv, TypeOK, SupInv, Launched, TermBegins, Captured, TermDone
<1>10. TermInv'
  BY ConstantFacts DEF ChildInv, TypeOK, TermInv, LaunchInv, SupInv, FlagsOK, TermOK,
     StreamsOK, Launched, Procs, TermBegins, Captured, TermDone
<1>11. OutputInv'
  BY DEF ChildInv, TypeOK, OutputInv, Launched, StreamEnded, Alive, TermBegins, Captured,
     TermDone
<1> QED BY <1>1, <1>2, <1>3, <1>4, <1>5, <1>6, <1>7, <1>8, <1>9, <1>10, <1>11 DEF ChildInv

\* A signal is sent.
LEMMA TermSignalsKeeps ==
  ASSUME ChildInv, TermSignals
  PROVE  ChildInv'
<1>1. FlagsOK'
  <2>1. killed' \in BOOLEAN /\ signalled' \in BOOLEAN
    BY DEF ChildInv, TypeOK, FlagsOK, TermSignals
  <2> QED BY <2>1 DEF ChildInv, TypeOK, FlagsOK, TermSignals
<1>2. TermOK'
  BY DEF ChildInv, TypeOK, TermOK, TermSignals, Alive
<1>3. StreamsOK'
  BY DEF ChildInv, TypeOK, StreamsOK, TermSignals, Alive
<1>4. TypeOK'
  BY <1>1, <1>2, <1>3 DEF ChildInv, TypeOK, TermSignals, Alive
<1>5. LaunchInv'
  BY DEF ChildInv, TypeOK, LaunchInv, Launched, TermSignals, Alive
<1>6. TreeInv'
  BY DEF ChildInv, TypeOK, TreeInv, Exists, NothingLeft, TermSignals, Alive
<1>7. BarrierInv'
  BY DEF ChildInv, TypeOK, BarrierInv, TermSignals, Alive
<1>8. ReaperInv'
  BY DEF ChildInv, TypeOK, ReaperInv, Exists, NothingLeft, TermSignals, Alive
<1>9. SupInv'
  <2>1. /\ term.pc = "signal" /\ term'.pc = "grace"
        /\ UNCHANGED <<launch, accepting, cancelled, failed, results, reader, sup, ioClosed,
                       writer, published, outputWake>>
    BY DEF ChildInv, TypeOK, TermOK, TermSignals
  <2>2. sup \notin {"off", "drain", "writers", "publish", "done"}
    BY <2>1 DEF ChildInv, SupInv
  <2> QED BY <2>1, <2>2 DEF ChildInv, SupInv
<1>10. TermInv'
  <2>1. /\ term.pc = "signal" /\ term'.pc = "grace"
        /\ UNCHANGED <<proc, recorded, launch, cancelled, sup, results, published, waitErr, failed>>
    BY DEF ChildInv, TypeOK, TermOK, TermSignals
  <2>2. Launched' = Launched
    BY <2>1 DEF Launched
  <2>3. ~published
    BY <2>1 DEF ChildInv, SupInv
  <2>4. signalled' => signalled \/ results # Launched
    <3>1. SUFFICES ASSUME NEW t \in Direct, Alive(t)
                   PROVE  results # Launched
      BY DEF TermSignals
    <3>2. t \in Launched
      BY <3>1 DEF Alive, Launched
    <3>3. t \notin results
      BY <3>1 DEF ChildInv, ReaperInv, Alive
    <3> QED BY <3>2, <3>3
  <2> QED BY <2>1, <2>2, <2>3, <2>4 DEF ChildInv, TermInv
<1>11. OutputInv'
  BY DEF ChildInv, TypeOK, OutputInv, Launched, StreamEnded, Alive, TermSignals, Alive
<1> QED BY <1>1, <1>2, <1>3, <1>4, <1>5, <1>6, <1>7, <1>8, <1>9, <1>10, <1>11 DEF ChildInv

\* The termination finds the evidence.
LEMMA TermContainedKeeps ==
  ASSUME ChildInv, TermContained
  PROVE  ChildInv'
<1>1. FlagsOK'
  BY FlagsTyped DEF FlagsOK, TermContained, Captured, TermDone
<1>2. TermOK'
  BY DEF ChildInv, TypeOK, TermOK, TermContained, Captured, TermDone
<1>3. StreamsOK'
  BY DEF ChildInv, TypeOK, StreamsOK, TermContained, Captured, TermDone
<1>4. TypeOK'
  BY <1>1, <1>2, <1>3 DEF ChildInv, TypeOK, TermContained, Captured, TermDone
<1>5. LaunchInv'
  BY DEF ChildInv, TypeOK, LaunchInv, Launched, TermContained, Captured, TermDone
<1>6. TreeInv'
  BY DEF ChildInv, TypeOK, TreeInv, Exists, NothingLeft, TermContained, Captured, TermDone
<1>7. BarrierInv'
  BY DEF ChildInv, TypeOK, BarrierInv, TermContained, Captured, TermDone
<1>8. ReaperInv'
  BY DEF ChildInv, TypeOK, ReaperInv, Exists, NothingLeft, TermContained, Captured, TermDone
<1>9. SupInv'
  BY DEF ChildInv, TypeOK, SupInv, Launched, TermContained, Captured, TermDone
<1>10. TermInv'
  BY ConstantFacts DEF ChildInv, TypeOK, TermInv, LaunchInv, SupInv, FlagsOK, TermOK,
     StreamsOK, Launched, Procs, TermContained, Captured, TermDone
<1>11. OutputInv'
  BY DEF ChildInv, TypeOK, OutputInv, Launched, StreamEnded, Alive, TermContained,
     Captured, TermDone
<1> QED BY <1>1, <1>2, <1>3, <1>4, <1>5, <1>6, <1>7, <1>8, <1>9, <1>10, <1>11 DEF ChildInv

\* A grace period is over.
LEMMA TermGraceOverKeeps ==
  ASSUME ChildInv, TermGraceOver
  PROVE  ChildInv'
<1>1. FlagsOK'
  BY FlagsTyped DEF FlagsOK, TermGraceOver, Captured, TermDone
<1>2. TermOK'
  <2>1. Captured(term) \in [pc : {"off", "begin", "signal", "grace", "final", "done"},
                             signal : 1..3, sup : BOOLEAN, cont : BOOLEAN, seen : BOOLEAN]
    BY DEF ChildInv, TypeOK, TermOK, FlagsOK, Captured
  <2>2. ASSUME NEW u \in [pc : {"off", "begin", "signal", "grace", "final", "done"},
                          signal : 1..3, sup : BOOLEAN, cont : BOOLEAN, seen : BOOLEAN],
               term' = IF u.signal < 3 THEN [u EXCEPT !.pc = "signal", !.signal = @ + 1]
                       ELSE IF u.sup THEN TermDone(u) ELSE [u EXCEPT !.pc = "final"]
        PROVE  TermOK'
    <3>1. CASE u.signal < 3
      <4>1. u.signal + 1 \in 1..3
        BY <3>1
      <4> QED BY <2>2, <3>1, <4>1 DEF TermOK
    <3>2. CASE ~(u.signal < 3)
      BY <2>2, <3>2 DEF TermOK, TermDone
    <3> QED BY <3>1, <3>2
  <2> QED BY <2>1, <2>2 DEF TermGraceOver
<1>3. StreamsOK'
  BY DEF ChildInv, TypeOK, StreamsOK, TermGraceOver, Captured, TermDone
<1>4. TypeOK'
  BY <1>1, <1>2, <1>3 DEF ChildInv, TypeOK, TermGraceOver, Captured, TermDone
<1>5. LaunchInv'
  BY DEF ChildInv, TypeOK, LaunchInv, Launched, TermGraceOver, Captured, TermDone
<1>6. TreeInv'
  BY DEF ChildInv, TypeOK, TreeInv, Exists, NothingLeft, TermGraceOver, Captured, TermDone
<1>7. BarrierInv'
  BY DEF ChildInv, TypeOK, BarrierInv, TermGraceOver, Captured, TermDone
<1>8. ReaperInv'
  BY DEF ChildInv, TypeOK, ReaperInv, Exists, NothingLeft, TermGraceOver, Captured, TermDone
<1>9. SupInv'
  BY DEF ChildInv, TypeOK, SupInv, Launched, TermGraceOver, Captured, TermDone
<1>10. TermInv'
  BY ConstantFacts DEF ChildInv, TypeOK, TermInv, LaunchInv, SupInv, FlagsOK, TermOK,
     StreamsOK, Launched, Procs, TermGraceOver, Captured, TermDone
<1>11. OutputInv'
  BY DEF ChildInv, TypeOK, OutputInv, Launched, StreamEnded, Alive, TermGraceOver,
     Captured, TermDone
<1> QED BY <1>1, <1>2, <1>3, <1>4, <1>5, <1>6, <1>7, <1>8, <1>9, <1>10, <1>11 DEF ChildInv

\* The termination finds the reaper stopped.
LEMMA TermReaperStoppedKeeps ==
  ASSUME ChildInv, TermReaperStopped
  PROVE  ChildInv'
<1>1. FlagsOK'
  BY FlagsTyped DEF FlagsOK, TermReaperStopped, TermDone
<1>2. TermOK'
  BY DEF ChildInv, TypeOK, TermOK, TermReaperStopped, TermDone
<1>3. StreamsOK'
  BY DEF ChildInv, TypeOK, StreamsOK, TermReaperStopped, TermDone
<1>4. TypeOK'
  BY <1>1, <1>2, <1>3 DEF ChildInv, TypeOK, TermReaperStopped, TermDone
<1>5. LaunchInv'
  BY DEF ChildInv, TypeOK, LaunchInv, Launched, TermReaperStopped, TermDone
<1>6. TreeInv'
  BY DEF ChildInv, TypeOK, TreeInv, Exists, NothingLeft, TermReaperStopped, TermDone
<1>7. BarrierInv'
  BY DEF ChildInv, TypeOK, BarrierInv, TermReaperStopped, TermDone
<1>8. ReaperInv'
  BY DEF ChildInv, TypeOK, ReaperInv, Exists, NothingLeft, TermReaperStopped, TermDone
<1>9. SupInv'
  BY DEF ChildInv, TypeOK, SupInv, Launched, TermReaperStopped, TermDone
<1>10. TermInv'
  <2>1. /\ term.pc = "final" /\ term'.pc = "done" /\ Stopped
        /\ term'.sup = ~confirmed
        /\ UNCHANGED <<proc, contained, launch, cancelled, sup, results, published, waitErr,
                        failed, signalled>>
    BY DEF ChildInv, TypeOK, TermOK, TermReaperStopped, TermDone
  <2>2. contained' \/ term'.sup
    BY <2>1 DEF ChildInv, ReaperInv, Stopped
  <2>3. Launched' = Launched
    BY <2>1 DEF Launched
  <2>4. ~published
    BY <2>1 DEF ChildInv, SupInv
  <2> QED BY <2>1, <2>2, <2>3, <2>4 DEF ChildInv, TermInv
<1>11. OutputInv'
  BY DEF ChildInv, TypeOK, OutputInv, Launched, StreamEnded, Alive, TermReaperStopped,
     TermDone
<1> QED BY <1>1, <1>2, <1>3, <1>4, <1>5, <1>6, <1>7, <1>8, <1>9, <1>10, <1>11 DEF ChildInv

\* The termination expires.
LEMMA TermExpiresKeeps ==
  ASSUME ChildInv, TermExpires
  PROVE  ChildInv'
<1>1. FlagsOK'
  BY FlagsTyped DEF FlagsOK, TermExpires, Captured, TermDone
<1>2. TermOK'
  BY DEF ChildInv, TypeOK, TermOK, TermExpires, Captured, TermDone
<1>3. StreamsOK'
  BY DEF ChildInv, TypeOK, StreamsOK, TermExpires, Captured, TermDone
<1>4. TypeOK'
  BY <1>1, <1>2, <1>3 DEF ChildInv, TypeOK, TermExpires, Captured, TermDone
<1>5. LaunchInv'
  BY DEF ChildInv, TypeOK, LaunchInv, Launched, TermExpires, Captured, TermDone
<1>6. TreeInv'
  BY DEF ChildInv, TypeOK, TreeInv, Exists, NothingLeft, TermExpires, Captured, TermDone
<1>7. BarrierInv'
  BY DEF ChildInv, TypeOK, BarrierInv, TermExpires, Captured, TermDone
<1>8. ReaperInv'
  BY DEF ChildInv, TypeOK, ReaperInv, Exists, NothingLeft, TermExpires, Captured, TermDone
<1>9. SupInv'
  BY DEF ChildInv, TypeOK, SupInv, Launched, TermExpires, Captured, TermDone
<1>10. TermInv'
  BY ConstantFacts DEF ChildInv, TypeOK, TermInv, LaunchInv, SupInv, FlagsOK, TermOK,
     StreamsOK, Launched, Procs, TermExpires, Captured, TermDone
<1>11. OutputInv'
  BY DEF ChildInv, TypeOK, OutputInv, Launched, StreamEnded, Alive, TermExpires, Captured,
     TermDone
<1> QED BY <1>1, <1>2, <1>3, <1>4, <1>5, <1>6, <1>7, <1>8, <1>9, <1>10, <1>11 DEF ChildInv

\* The readers start.
LEMMA SupStartsKeeps ==
  ASSUME ChildInv, SupStarts
  PROVE  ChildInv'
<1>1. FlagsOK'
  BY FlagsTyped DEF FlagsOK, SupStarts
<1>2. TermOK'
  BY DEF ChildInv, TypeOK, TermOK, SupStarts
<1>3. StreamsOK'
  BY DEF ChildInv, TypeOK, StreamsOK, SupStarts
<1>4. TypeOK'
  BY <1>1, <1>2, <1>3 DEF ChildInv, TypeOK, SupStarts
<1>5. LaunchInv'
  BY DEF ChildInv, TypeOK, LaunchInv, Launched, SupStarts
<1>6. TreeInv'
  BY DEF ChildInv, TypeOK, TreeInv, Exists, NothingLeft, SupStarts
<1>7. BarrierInv'
  BY DEF ChildInv, TypeOK, BarrierInv, SupStarts
<1>8. ReaperInv'
  BY DEF ChildInv, TypeOK, ReaperInv, Exists, NothingLeft, SupStarts
<1>9. SupInv'
  BY DEF ChildInv, TypeOK, SupInv, Launched, SupStarts
<1>10. TermInv'
  BY DEF ChildInv, TypeOK, TermInv, Launched, SupStarts
<1>11. OutputInv'
  <2>1. /\ sup = "readers" /\ UNCHANGED <<proc, root, pending, written, delivered, failed, term>>
        /\ \A s \in Streams : reader'[s] = IF reader[s] = "bound" THEN "poll" ELSE "off"
    BY DEF SupStarts
  <2>2. Launched' = Launched
    BY <2>1 DEF Launched
  <2>3. \A s \in Streams : reader[s] \in {"off", "bound"}
    BY <2>1 DEF ChildInv, SupInv
  <2> QED BY <2>1, <2>2, <2>3 DEF ChildInv, OutputInv
<1> QED BY <1>1, <1>2, <1>3, <1>4, <1>5, <1>6, <1>7, <1>8, <1>9, <1>10, <1>11 DEF ChildInv

\* An exit is collected.
LEMMA SupCollectsKeeps ==
  ASSUME ChildInv, SupCollects
  PROVE  ChildInv'
<1>1. FlagsOK'
  BY FlagsTyped DEF FlagsOK, SupCollects
<1>2. TermOK'
  BY DEF ChildInv, TypeOK, TermOK, SupCollects
<1>3. StreamsOK'
  BY DEF ChildInv, TypeOK, StreamsOK, SupCollects
<1>4. TypeOK'
  <2>1. results' \subseteq Direct
    <3>1. recorded \ results # {} => Min(recorded \ results) \in recorded \ results
      BY MinIsMember DEF ChildInv, TypeOK, Direct
    <3> QED BY <3>1 DEF ChildInv, TypeOK, SupCollects
  <2> QED BY <1>1, <1>2, <1>3, <2>1 DEF ChildInv, TypeOK, SupCollects
<1>5. LaunchInv'
  BY DEF ChildInv, TypeOK, LaunchInv, Launched, SupCollects
<1>6. TreeInv'
  BY DEF ChildInv, TypeOK, TreeInv, Exists, NothingLeft, SupCollects
<1>7. BarrierInv'
  BY DEF ChildInv, TypeOK, BarrierInv, SupCollects
<1>8. ReaperInv'
  <2>1. results' \subseteq recorded
    <3>1. recorded \ results # {} => Min(recorded \ results) \in recorded \ results
      BY MinIsMember DEF ChildInv, TypeOK, Direct
    <3> QED BY <3>1 DEF ChildInv, ReaperInv, SupCollects
  <2> QED BY <2>1 DEF ChildInv, ReaperInv, SupCollects, NothingLeft, Exists
<1>9. SupInv'
  BY DEF ChildInv, TypeOK, SupInv, Launched, SupCollects
<1>10. TermInv'
  BY ConstantFacts DEF ChildInv, TypeOK, TermInv, LaunchInv, SupInv, FlagsOK, TermOK,
     StreamsOK, Launched, Procs, SupCollects
<1>11. OutputInv'
  BY DEF ChildInv, TypeOK, OutputInv, Launched, StreamEnded, Alive, SupCollects
<1> QED BY <1>1, <1>2, <1>3, <1>4, <1>5, <1>6, <1>7, <1>8, <1>9, <1>10, <1>11 DEF ChildInv

\* The collection goes on.
LEMMA SupWokenKeeps ==
  ASSUME ChildInv, SupWoken
  PROVE  ChildInv'
<1>1. FlagsOK'
  <2>1. changed' \in BOOLEAN
    BY FlagsTyped, Zenon DEF FlagsOK, SupWoken
  <2>2. UNCHANGED <<killed, ctxDone, confirmed, contained, cancelled, failed, published,
                    waitErr, accepting, outputWake, ioClosed, signalled>>
    BY DEF SupWoken
  <2> QED BY <2>1, <2>2, FlagsTyped DEF FlagsOK
<1>2. TermOK'
  BY DEF ChildInv, TypeOK, TermOK, SupWoken
<1>3. StreamsOK'
  BY DEF ChildInv, TypeOK, StreamsOK, SupWoken
<1>4. TypeOK'
  BY <1>1, <1>2, <1>3 DEF ChildInv, TypeOK, SupWoken
<1>5. LaunchInv'
  BY DEF ChildInv, TypeOK, LaunchInv, Launched, SupWoken
<1>6. TreeInv'
  BY DEF ChildInv, TypeOK, TreeInv, Exists, NothingLeft, SupWoken
<1>7. BarrierInv'
  BY DEF ChildInv, TypeOK, BarrierInv, SupWoken
<1>8. ReaperInv'
  BY DEF ChildInv, TypeOK, ReaperInv, Exists, NothingLeft, SupWoken
<1>9. SupInv'
  BY DEF ChildInv, TypeOK, SupInv, Launched, SupWoken
<1>10. TermInv'
  BY DEF ChildInv, TypeOK, TermInv, Launched, SupWoken
<1>11. OutputInv'
  BY DEF ChildInv, TypeOK, OutputInv, Launched, StreamEnded, Alive, SupWoken
<1> QED BY <1>1, <1>2, <1>3, <1>4, <1>5, <1>6, <1>7, <1>8, <1>9, <1>10, <1>11 DEF ChildInv

\* The controls are stopped.
LEMMA SupStopsKeeps ==
  ASSUME ChildInv, SupStops
  PROVE  ChildInv'
<1>1. FlagsOK'
  <2>1. accepting' \in BOOLEAN
    BY FlagsTyped, Zenon DEF FlagsOK, SupStops
  <2>2. UNCHANGED <<killed, ctxDone, confirmed, changed, contained, cancelled, failed, published,
                    waitErr, outputWake, ioClosed, signalled>>
    BY DEF SupStops
  <2> QED BY <2>1, <2>2, FlagsTyped DEF FlagsOK
<1>2. TermOK'
  BY DEF ChildInv, TypeOK, TermOK, SupStops, BeginTermination
<1>3. StreamsOK'
  BY DEF ChildInv, TypeOK, StreamsOK, SupStops, BeginTermination
<1>4. TypeOK'
  BY <1>1, <1>2, <1>3 DEF ChildInv, TypeOK, SupStops, BeginTermination
<1>5. LaunchInv'
  BY DEF ChildInv, TypeOK, LaunchInv, Launched, SupStops, BeginTermination
<1>6. TreeInv'
  BY DEF ChildInv, TypeOK, TreeInv, Exists, NothingLeft, SupStops, BeginTermination
<1>7. BarrierInv'
  BY DEF ChildInv, TypeOK, BarrierInv, SupStops, BeginTermination
<1>8. ReaperInv'
  BY DEF ChildInv, TypeOK, ReaperInv, Exists, NothingLeft, SupStops, BeginTermination
<1>9. SupInv'
  BY DEF ChildInv, TypeOK, SupInv, Launched, SupStops, BeginTermination
<1>10. TermInv'
  BY DEF ChildInv, TypeOK, TermInv, Launched, SupStops, BeginTermination
<1>11. OutputInv'
  BY DEF ChildInv, TypeOK, OutputInv, Launched, StreamEnded, Alive, SupStops,
     BeginTermination
<1> QED BY <1>1, <1>2, <1>3, <1>4, <1>5, <1>6, <1>7, <1>8, <1>9, <1>10, <1>11 DEF ChildInv

\* The terminator has ended.
LEMMA SupTerminatedKeeps ==
  ASSUME ChildInv, SupTerminated
  PROVE  ChildInv'
<1>1. FlagsOK'
  BY FlagsTyped DEF FlagsOK, SupTerminated
<1>2. TermOK'
  BY DEF ChildInv, TypeOK, TermOK, SupTerminated
<1>3. StreamsOK'
  BY DEF ChildInv, TypeOK, StreamsOK, SupTerminated
<1>4. TypeOK'
  BY <1>1, <1>2, <1>3 DEF ChildInv, TypeOK, SupTerminated
<1>5. LaunchInv'
  BY DEF ChildInv, TypeOK, LaunchInv, Launched, SupTerminated
<1>6. TreeInv'
  BY DEF ChildInv, TypeOK, TreeInv, Exists, NothingLeft, SupTerminated
<1>7. BarrierInv'
  BY DEF ChildInv, TypeOK, BarrierInv, SupTerminated
<1>8. ReaperInv'
  BY DEF ChildInv, TypeOK, ReaperInv, Exists, NothingLeft, SupTerminated
<1>9. SupInv'
  BY ConstantFacts DEF ChildInv, TypeOK, SupInv, LaunchInv, FlagsOK, TermOK, StreamsOK,
     ReaperInv, TermInv, BarrierInv, Launched, Exists, NothingLeft, Procs, SupTerminated
<1>10. TermInv'
  BY DEF ChildInv, TypeOK, TermInv, Launched, SupTerminated
<1>11. OutputInv'
  BY DEF ChildInv, TypeOK, OutputInv, Launched, StreamEnded, Alive, SupTerminated
<1> QED BY <1>1, <1>2, <1>3, <1>4, <1>5, <1>6, <1>7, <1>8, <1>9, <1>10, <1>11 DEF ChildInv

\* The readers have ended.
LEMMA SupDrainedKeeps ==
  ASSUME ChildInv, SupDrained
  PROVE  ChildInv'
<1>1. FlagsOK'
  BY FlagsTyped DEF FlagsOK, SupDrained
<1>2. TermOK'
  BY DEF ChildInv, TypeOK, TermOK, SupDrained
<1>3. StreamsOK'
  BY DEF ChildInv, TypeOK, StreamsOK, SupDrained
<1>4. TypeOK'
  BY <1>1, <1>2, <1>3 DEF ChildInv, TypeOK, SupDrained
<1>5. LaunchInv'
  BY DEF ChildInv, TypeOK, LaunchInv, Launched, SupDrained
<1>6. TreeInv'
  BY DEF ChildInv, TypeOK, TreeInv, Exists, NothingLeft, SupDrained
<1>7. BarrierInv'
  BY DEF ChildInv, TypeOK, BarrierInv, SupDrained
<1>8. ReaperInv'
  BY DEF ChildInv, TypeOK, ReaperInv, Exists, NothingLeft, SupDrained
<1>9. SupInv'
  BY DEF ChildInv, TypeOK, SupInv, Launched, SupDrained
<1>10. TermInv'
  BY DEF ChildInv, TypeOK, TermInv, Launched, SupDrained
<1>11. OutputInv'
  BY DEF ChildInv, TypeOK, OutputInv, Launched, StreamEnded, Alive, SupDrained
<1> QED BY <1>1, <1>2, <1>3, <1>4, <1>5, <1>6, <1>7, <1>8, <1>9, <1>10, <1>11 DEF ChildInv

\* The descriptors are closed.
LEMMA SupClosesKeeps ==
  ASSUME ChildInv, SupCloses
  PROVE  ChildInv'
<1>1. FlagsOK'
  BY FlagsTyped DEF FlagsOK, SupCloses
<1>2. TermOK'
  BY DEF ChildInv, TypeOK, TermOK, SupCloses
<1>3. StreamsOK'
  BY DEF ChildInv, TypeOK, StreamsOK, SupCloses
<1>4. TypeOK'
  BY <1>1, <1>2, <1>3 DEF ChildInv, TypeOK, SupCloses
<1>5. LaunchInv'
  BY DEF ChildInv, TypeOK, LaunchInv, Launched, SupCloses
<1>6. TreeInv'
  BY DEF ChildInv, TypeOK, TreeInv, Exists, NothingLeft, SupCloses
<1>7. BarrierInv'
  BY DEF ChildInv, TypeOK, BarrierInv, SupCloses
<1>8. ReaperInv'
  BY DEF ChildInv, TypeOK, ReaperInv, Exists, NothingLeft, SupCloses
<1>9. SupInv'
  BY DEF ChildInv, TypeOK, SupInv, Launched, SupCloses
<1>10. TermInv'
  BY DEF ChildInv, TypeOK, TermInv, Launched, SupCloses
<1>11. OutputInv'
  BY DEF ChildInv, TypeOK, OutputInv, Launched, StreamEnded, Alive, SupCloses
<1> QED BY <1>1, <1>2, <1>3, <1>4, <1>5, <1>6, <1>7, <1>8, <1>9, <1>10, <1>11 DEF ChildInv

\* The result is published.
LEMMA SupPublishesKeeps ==
  ASSUME ChildInv, SupPublishes
  PROVE  ChildInv'
<1>1. FlagsOK'
  BY FlagsTyped DEF FlagsOK, SupPublishes, ResultMissing
<1>2. TermOK'
  BY DEF ChildInv, TypeOK, TermOK, SupPublishes, ResultMissing
<1>3. StreamsOK'
  BY DEF ChildInv, TypeOK, StreamsOK, SupPublishes, ResultMissing
<1>4. TypeOK'
  BY <1>1, <1>2, <1>3 DEF ChildInv, TypeOK, SupPublishes, ResultMissing
<1>5. LaunchInv'
  BY DEF ChildInv, TypeOK, LaunchInv, Launched, SupPublishes, ResultMissing
<1>6. TreeInv'
  BY DEF ChildInv, TypeOK, TreeInv, Exists, NothingLeft, SupPublishes, ResultMissing
<1>7. BarrierInv'
  BY DEF ChildInv, TypeOK, BarrierInv, SupPublishes, ResultMissing
<1>8. ReaperInv'
  BY DEF ChildInv, TypeOK, ReaperInv, Exists, NothingLeft, SupPublishes, ResultMissing
<1>9. SupInv'
  BY DEF ChildInv, TypeOK, SupInv, Launched, SupPublishes, ResultMissing
<1>10. TermInv'
  BY DEF ChildInv, TypeOK, TermInv, Launched, SupPublishes, ResultMissing
<1>11. OutputInv'
  BY DEF ChildInv, TypeOK, OutputInv, Launched, StreamEnded, Alive, SupPublishes,
     ResultMissing
<1> QED BY <1>1, <1>2, <1>3, <1>4, <1>5, <1>6, <1>7, <1>8, <1>9, <1>10, <1>11 DEF ChildInv

\* A reader reads, or ends.
LEMMA ReaderPollsKeeps ==
  ASSUME ChildInv, NEW s \in Streams, ReaderPolls(s)
  PROVE  ChildInv'
<1>1. FlagsOK'
  BY FlagsTyped DEF FlagsOK, ReaderPolls
<1>2. TermOK'
  BY DEF ChildInv, TypeOK, TermOK, ReaderPolls
<1>3. StreamsOK'
  BY DEF ChildInv, TypeOK, StreamsOK, ReaderPolls
<1>4. TypeOK'
  BY <1>1, <1>2, <1>3 DEF ChildInv, TypeOK, ReaderPolls
<1>5. LaunchInv'
  BY DEF ChildInv, TypeOK, LaunchInv, Launched, ReaderPolls
<1>6. TreeInv'
  BY DEF ChildInv, TypeOK, TreeInv, Exists, NothingLeft, ReaderPolls
<1>7. BarrierInv'
  BY DEF ChildInv, TypeOK, BarrierInv, ReaderPolls
<1>8. ReaperInv'
  BY DEF ChildInv, TypeOK, ReaperInv, Exists, NothingLeft, ReaderPolls
<1>9. SupInv'
  BY ConstantFacts DEF ChildInv, TypeOK, SupInv, LaunchInv, FlagsOK, TermOK, StreamsOK,
     Launched, Procs, ReaderPolls
<1>10. TermInv'
  BY DEF ChildInv, TypeOK, TermInv, Launched, ReaderPolls
<1>11. OutputInv'
  BY ConstantFacts DEF ChildInv, TypeOK, OutputInv, LaunchInv, SupInv, FlagsOK, TermOK,
     StreamsOK, Launched, StreamEnded, Alive, Procs, ReaderPolls
<1> QED BY <1>1, <1>2, <1>3, <1>4, <1>5, <1>6, <1>7, <1>8, <1>9, <1>10, <1>11 DEF ChildInv

\* A reader fails.
LEMMA ReaderFailsKeeps ==
  ASSUME ChildInv, NEW s \in Streams, ReaderFails(s)
  PROVE  ChildInv'
<1>1. FlagsOK'
  BY FlagsTyped DEF FlagsOK, ReaderFails, FailSupervision, BeginCancellation,
     BeginTermination
<1>2. TermOK'
  BY DEF ChildInv, TypeOK, TermOK, ReaderFails, FailSupervision, BeginCancellation,
     BeginTermination
<1>3. StreamsOK'
  BY DEF ChildInv, TypeOK, StreamsOK, ReaderFails, FailSupervision, BeginCancellation,
     BeginTermination
<1>4. TypeOK'
  BY <1>1, <1>2, <1>3 DEF ChildInv, TypeOK, ReaderFails, FailSupervision,
     BeginCancellation, BeginTermination
<1>5. LaunchInv'
  BY DEF ChildInv, TypeOK, LaunchInv, Launched, ReaderFails, FailSupervision,
     BeginCancellation, BeginTermination
<1>6. TreeInv'
  BY DEF ChildInv, TypeOK, TreeInv, Exists, NothingLeft, ReaderFails, FailSupervision,
     BeginCancellation, BeginTermination
<1>7. BarrierInv'
  BY DEF ChildInv, TypeOK, BarrierInv, ReaderFails, FailSupervision, BeginCancellation,
     BeginTermination
<1>8. ReaperInv'
  BY DEF ChildInv, TypeOK, ReaperInv, Exists, NothingLeft, ReaderFails, FailSupervision,
     BeginCancellation, BeginTermination
<1>9. SupInv'
  BY DEF ChildInv, TypeOK, SupInv, Launched, ReaderFails, FailSupervision,
     BeginCancellation, BeginTermination
<1>10. TermInv'
  BY ConstantFacts DEF ChildInv, TypeOK, TermInv, LaunchInv, SupInv, FlagsOK, TermOK,
     StreamsOK, Launched, Procs, ReaderFails, FailSupervision, BeginCancellation,
     BeginTermination
<1>11. OutputInv'
  <2>1. sup # "done" /\ sup # "off"
    BY DEF ChildInv, SupInv, ReaderFails
  <2>2. failed'
    BY <2>1 DEF ChildInv, SupInv, ReaderFails, FailSupervision
  <2>3. /\ UNCHANGED <<proc, root, pending, written, delivered, sup>>
        /\ \A r \in Streams : reader'[r] = IF r = s THEN "done" ELSE reader[r]
    BY DEF ChildInv, TypeOK, StreamsOK, ReaderFails
  <2>4. Launched' = Launched
    BY <2>3 DEF Launched
  <2> QED BY <2>2, <2>3, <2>4 DEF ChildInv, OutputInv
<1> QED BY <1>1, <1>2, <1>3, <1>4, <1>5, <1>6, <1>7, <1>8, <1>9, <1>10, <1>11 DEF ChildInv

\* A reader gives up.
LEMMA ReaderTimesOutKeeps ==
  ASSUME ChildInv, NEW s \in Streams, ReaderTimesOut(s)
  PROVE  ChildInv'
<1>1. FlagsOK'
  BY FlagsTyped DEF FlagsOK, ReaderTimesOut, FailSupervision, BeginCancellation,
     BeginTermination
<1>2. TermOK'
  BY DEF ChildInv, TypeOK, TermOK, ReaderTimesOut, FailSupervision, BeginCancellation,
     BeginTermination
<1>3. StreamsOK'
  BY DEF ChildInv, TypeOK, StreamsOK, ReaderTimesOut, FailSupervision, BeginCancellation,
     BeginTermination
<1>4. TypeOK'
  BY <1>1, <1>2, <1>3 DEF ChildInv, TypeOK, ReaderTimesOut, FailSupervision,
     BeginCancellation, BeginTermination
<1>5. LaunchInv'
  BY DEF ChildInv, TypeOK, LaunchInv, Launched, ReaderTimesOut, FailSupervision,
     BeginCancellation, BeginTermination
<1>6. TreeInv'
  BY DEF ChildInv, TypeOK, TreeInv, Exists, NothingLeft, ReaderTimesOut, FailSupervision,
     BeginCancellation, BeginTermination
<1>7. BarrierInv'
  BY DEF ChildInv, TypeOK, BarrierInv, ReaderTimesOut, FailSupervision, BeginCancellation,
     BeginTermination
<1>8. ReaperInv'
  BY DEF ChildInv, TypeOK, ReaperInv, Exists, NothingLeft, ReaderTimesOut,
     FailSupervision, BeginCancellation, BeginTermination
<1>9. SupInv'
  BY DEF ChildInv, TypeOK, SupInv, Launched, ReaderTimesOut, FailSupervision,
     BeginCancellation, BeginTermination
<1>10. TermInv'
  BY ConstantFacts DEF ChildInv, TypeOK, TermInv, LaunchInv, SupInv, FlagsOK, TermOK,
     StreamsOK, Launched, Procs, ReaderTimesOut, FailSupervision, BeginCancellation,
     BeginTermination
<1>11. OutputInv'
  <2>1. sup # "done" /\ sup # "off"
    BY DEF ChildInv, SupInv, ReaderTimesOut
  <2>2. failed'
    BY <2>1 DEF ChildInv, SupInv, ReaderTimesOut, FailSupervision
  <2>3. /\ UNCHANGED <<proc, root, pending, written, delivered, sup>>
        /\ \A r \in Streams : reader'[r] = IF r = s THEN "done" ELSE reader[r]
    BY DEF ChildInv, TypeOK, StreamsOK, ReaderTimesOut
  <2>4. Launched' = Launched
    BY <2>3 DEF Launched
  <2> QED BY <2>2, <2>3, <2>4 DEF ChildInv, OutputInv
<1> QED BY <1>1, <1>2, <1>3, <1>4, <1>5, <1>6, <1>7, <1>8, <1>9, <1>10, <1>11 DEF ChildInv

\* A reader delivers.
LEMMA ReaderDeliversKeeps ==
  ASSUME ChildInv, NEW s \in Streams, ReaderDelivers(s)
  PROVE  ChildInv'
<1>1. FlagsOK'
  BY FlagsTyped DEF FlagsOK, ReaderDelivers
<1>2. TermOK'
  BY DEF ChildInv, TypeOK, TermOK, ReaderDelivers
<1>3. StreamsOK'
  BY ConstantFacts DEF ChildInv, TypeOK, StreamsOK, Direct, Procs, ReaderDelivers
<1>4. TypeOK'
  BY <1>1, <1>2, <1>3 DEF ChildInv, TypeOK, ReaderDelivers
<1>5. LaunchInv'
  BY DEF ChildInv, TypeOK, LaunchInv, Launched, ReaderDelivers
<1>6. TreeInv'
  BY DEF ChildInv, TypeOK, TreeInv, Exists, NothingLeft, ReaderDelivers
<1>7. BarrierInv'
  BY DEF ChildInv, TypeOK, BarrierInv, ReaderDelivers
<1>8. ReaperInv'
  BY DEF ChildInv, TypeOK, ReaperInv, Exists, NothingLeft, ReaderDelivers
<1>9. SupInv'
  BY DEF ChildInv, TypeOK, SupInv, Launched, ReaderDelivers
<1>10. TermInv'
  BY DEF ChildInv, TypeOK, TermInv, Launched, ReaderDelivers
<1>11. OutputInv'
  BY ConstantFacts DEF ChildInv, TypeOK, OutputInv, LaunchInv, SupInv, FlagsOK, TermOK,
     StreamsOK, Launched, StreamEnded, Alive, Procs, ReaderDelivers
<1> QED BY <1>1, <1>2, <1>3, <1>4, <1>5, <1>6, <1>7, <1>8, <1>9, <1>10, <1>11 DEF ChildInv

\* A write begins.
LEMMA BorrowControlKeeps ==
  ASSUME ChildInv, BorrowControl
  PROVE  ChildInv'
<1>1. FlagsOK'
  BY FlagsTyped DEF FlagsOK, BorrowControl
<1>2. TermOK'
  BY DEF ChildInv, TypeOK, TermOK, BorrowControl
<1>3. StreamsOK'
  BY DEF ChildInv, TypeOK, StreamsOK, BorrowControl
<1>4. TypeOK'
  BY <1>1, <1>2, <1>3 DEF ChildInv, TypeOK, BorrowControl
<1>5. LaunchInv'
  BY DEF ChildInv, TypeOK, LaunchInv, Launched, BorrowControl
<1>6. TreeInv'
  BY DEF ChildInv, TypeOK, TreeInv, Exists, NothingLeft, BorrowControl
<1>7. BarrierInv'
  BY DEF ChildInv, TypeOK, BarrierInv, BorrowControl
<1>8. ReaperInv'
  BY DEF ChildInv, TypeOK, ReaperInv, Exists, NothingLeft, BorrowControl
<1>9. SupInv'
  BY DEF ChildInv, TypeOK, SupInv, Launched, BorrowControl
<1>10. TermInv'
  BY DEF ChildInv, TypeOK, TermInv, Launched, BorrowControl
<1>11. OutputInv'
  BY DEF ChildInv, TypeOK, OutputInv, Launched, StreamEnded, Alive, BorrowControl
<1> QED BY <1>1, <1>2, <1>3, <1>4, <1>5, <1>6, <1>7, <1>8, <1>9, <1>10, <1>11 DEF ChildInv

\* A write ends.
LEMMA WriterWritesKeeps ==
  ASSUME ChildInv, WriterWrites
  PROVE  ChildInv'
<1>1. FlagsOK'
  BY FlagsTyped DEF FlagsOK, WriterWrites
<1>2. TermOK'
  BY DEF ChildInv, TypeOK, TermOK, WriterWrites
<1>3. StreamsOK'
  BY DEF ChildInv, TypeOK, StreamsOK, WriterWrites
<1>4. TypeOK'
  BY <1>1, <1>2, <1>3 DEF ChildInv, TypeOK, WriterWrites
<1>5. LaunchInv'
  BY DEF ChildInv, TypeOK, LaunchInv, Launched, WriterWrites
<1>6. TreeInv'
  BY DEF ChildInv, TypeOK, TreeInv, Exists, NothingLeft, WriterWrites
<1>7. BarrierInv'
  BY DEF ChildInv, TypeOK, BarrierInv, WriterWrites
<1>8. ReaperInv'
  BY DEF ChildInv, TypeOK, ReaperInv, Exists, NothingLeft, WriterWrites
<1>9. SupInv'
  BY DEF ChildInv, TypeOK, SupInv, Launched, WriterWrites
<1>10. TermInv'
  BY DEF ChildInv, TypeOK, TermInv, Launched, WriterWrites
<1>11. OutputInv'
  BY DEF ChildInv, TypeOK, OutputInv, Launched, StreamEnded, Alive, WriterWrites
<1> QED BY <1>1, <1>2, <1>3, <1>4, <1>5, <1>6, <1>7, <1>8, <1>9, <1>10, <1>11 DEF ChildInv

\* A failed write is reported.
LEMMA WriterReportsKeeps ==
  ASSUME ChildInv, WriterReports
  PROVE  ChildInv'
<1>1. FlagsOK'
  <2>1. failed' \in BOOLEAN /\ cancelled' \in BOOLEAN /\ accepting' \in BOOLEAN
    BY FlagsTyped, Zenon DEF FlagsOK, WriterReports, FailSupervision, BeginCancellation
  <2>2. UNCHANGED <<killed, ctxDone, confirmed, changed, contained, published,
                    waitErr, outputWake, ioClosed, signalled>>
    BY DEF WriterReports
  <2> QED BY <2>1, <2>2, FlagsTyped DEF FlagsOK
<1>2. TermOK'
  BY DEF ChildInv, TypeOK, TermOK, WriterReports, FailSupervision, BeginCancellation,
     BeginTermination
<1>3. StreamsOK'
  BY DEF ChildInv, TypeOK, StreamsOK, WriterReports, FailSupervision, BeginCancellation,
     BeginTermination
<1>4. TypeOK'
  BY <1>1, <1>2, <1>3 DEF ChildInv, TypeOK, WriterReports, FailSupervision,
     BeginCancellation, BeginTermination
<1>5. LaunchInv'
  BY DEF ChildInv, TypeOK, LaunchInv, Launched, WriterReports, FailSupervision,
     BeginCancellation, BeginTermination
<1>6. TreeInv'
  BY DEF ChildInv, TypeOK, TreeInv, Exists, NothingLeft, WriterReports, FailSupervision,
     BeginCancellation, BeginTermination
<1>7. BarrierInv'
  BY DEF ChildInv, TypeOK, BarrierInv, WriterReports, FailSupervision, BeginCancellation,
     BeginTermination
<1>8. ReaperInv'
  BY DEF ChildInv, TypeOK, ReaperInv, Exists, NothingLeft, WriterReports, FailSupervision,
     BeginCancellation, BeginTermination
<1>9. SupInv'
  BY DEF ChildInv, TypeOK, SupInv, Launched, WriterReports, FailSupervision,
     BeginCancellation, BeginTermination
<1>10. TermInv'
  BY ConstantFacts DEF ChildInv, TypeOK, TermInv, LaunchInv, SupInv, FlagsOK, TermOK,
     StreamsOK, Launched, Procs, WriterReports, FailSupervision, BeginCancellation,
     BeginTermination
<1>11. OutputInv'
  BY ConstantFacts DEF ChildInv, TypeOK, OutputInv, LaunchInv, SupInv, FlagsOK, TermOK,
     StreamsOK, Launched, StreamEnded, Alive, Procs, WriterReports, FailSupervision,
     BeginCancellation, BeginTermination
<1> QED BY <1>1, <1>2, <1>3, <1>4, <1>5, <1>6, <1>7, <1>8, <1>9, <1>10, <1>11 DEF ChildInv

-----------------------------------------------------------------------------
(* The invariant                                                           *)

\* It holds in the initial state.
LEMMA InitHolds ==
  ASSUME ChildInit
  PROVE  ChildInv
<1>1. FlagsOK
  BY DEF ChildInit, FlagsOK
<1>2. TermOK
  BY DEF ChildInit, TermOK, NewTerm
<1>3. StreamsOK
  BY ConstantFacts DEF ChildInit, StreamsOK
<1>4. TypeOK
  BY <1>1, <1>2, <1>3, ConstantFacts DEF ChildInit, TypeOK, Handoffs
<1>5. LaunchInv
  BY ConstantFacts DEF ChildInit, LaunchInv
<1>6. TreeInv
  BY ConstantFacts DEF ChildInit, TreeInv, Exists
<1>7. BarrierInv
  BY ConstantFacts DEF ChildInit, BarrierInv
<1>8. ReaperInv
  BY DEF ChildInit, ReaperInv
<1>9. SupInv
  BY DEF ChildInit, SupInv, NewTerm
<1>10. TermInv
  BY DEF ChildInit, TermInv, NewTerm
<1>11. OutputInv
  BY DEF ChildInit, OutputInv
<1> QED BY <1>4, <1>5, <1>6, <1>7, <1>8, <1>9, <1>10, <1>11 DEF ChildInv

\* Every step keeps it.
LEMMA NextKeeps ==
  ASSUME ChildInv, ChildNext
  PROVE  ChildInv'
<1>1. ASSUME NEW t \in Direct, HelperStep(t)
      PROVE  ChildInv'
  BY <1>1, HelperPreparesKeeps, HelperFailsKeeps, HelperReleasedKeeps,
     HelperExecutesKeeps, HelperExecFailsKeeps DEF HelperStep
<1>2. CASE StartStep
  BY <1>2, LaunchChildKeeps, LaunchFailsKeeps, AwaitReadyKeeps, NotReadyKeeps,
     ReleaseBarrierKeeps, ReleaseFailsKeeps, AwaitExecKeeps, NotExecutedKeeps,
     AbortReapedKeeps, AbortKillsKeeps, AbortGivesUpKeeps DEF StartStep
<1>3. CASE ReaperStep
  BY <1>3, ReapKeeps, ReaperConfirmsKeeps, ReaperStopsKeeps DEF ReaperStep
<1>4. CASE TermStep
  BY <1>4, TermBeginsKeeps, TermSignalsKeeps, TermContainedKeeps, TermGraceOverKeeps,
     TermReaperStoppedKeeps, TermExpiresKeeps DEF TermStep
<1>5. CASE SupStep
  BY <1>5, SupStartsKeeps, SupCollectsKeeps, SupWokenKeeps, SupStopsKeeps,
     SupTerminatedKeeps, SupDrainedKeeps, SupClosesKeeps, SupPublishesKeeps DEF SupStep
<1>6. CASE WriterStep
  BY <1>6, BorrowControlKeeps, WriterWritesKeeps, WriterReportsKeeps DEF WriterStep
<1>7. ASSUME NEW s \in Streams, ReaderStep(s)
      PROVE  ChildInv'
  BY <1>7, ReaderPollsKeeps, ReaderTimesOutKeeps, ReaderDeliversKeeps DEF ReaderStep
<1> QED BY <1>1, <1>2, <1>3, <1>4, <1>5, <1>6, <1>7,
          ForkKeeps, ExitKeeps, WriteOutputKeeps, StartBeginsKeeps, StartRejectsKeeps,
             CancelContextKeeps, CancelKeeps, ConsumeKeeps, ReaderFailsKeeps,
             ReaperFailsKeeps DEF ChildNext

\* It says nothing that a step without effect could change.
LEMMA StutterKeeps ==
  ASSUME ChildInv, UNCHANGED vars
  PROVE  ChildInv'
BY DEF ChildInv, TypeOK, FlagsOK, TermOK, StreamsOK, LaunchInv, TreeInv, BarrierInv,
   ReaperInv,
       SupInv, TermInv, OutputInv, Exists, NothingLeft, Launched, StreamEnded, Alive, vars

\* The invariant holds in every reachable state.
THEOREM ChildInvariant == ChildSpec => []ChildInv
<1>1. ChildInv /\ [ChildNext]_vars => ChildInv'
  BY NextKeeps, StutterKeeps
<1> QED BY InitHolds, <1>1, PTL DEF ChildSpec

-----------------------------------------------------------------------------
(* What it implies                                                         *)

\* The commands are executed together or not at all.
LEMMA StartedTogether ==
  ASSUME ChildInv
  PROVE  StartTogether
BY DEF ChildInv, BarrierInv, StartTogether

\* Who is told that the group is gone finds no process of it.
LEMMA ContainedMeansAbsent ==
  ASSUME ChildInv
  PROVE  ContainmentMeansAbsent
<1>1. contained \/ launch = "refused" => NothingLeft
  BY DEF ChildInv, ReaperInv
<1> QED BY <1>1 DEF ContainmentMeansAbsent, NothingLeft, Exists

\* The result of an undisturbed set is the commands' own.
LEMMA ResultUndisturbed ==
  ASSUME ChildInv
  PROVE  UndisturbedResult
<1> SUFFICES ASSUME launch = "owned", published, ~waitErr, ~cancelled
             PROVE  results = Direct /\ ~signalled
  BY DEF UndisturbedResult
<1>1. results = Launched
  BY DEF ChildInv, TermInv
<1>2. Launched = Direct
  BY DEF ChildInv, LaunchInv
<1>3. ~signalled
  BY <1>1 DEF ChildInv, TermInv
<1> QED BY <1>1, <1>2, <1>3

\* Nothing of the output is missing when Wait returns no error.
LEMMA OutputIsComplete ==
  ASSUME ChildInv
  PROVE  OutputComplete
<1> SUFFICES ASSUME published, ~waitErr, NEW s \in Streams
             PROVE  delivered[s] = written[s]
  BY DEF OutputComplete
<1>1. ~failed /\ ~term.sup /\ ~term.cont /\ sup = "done"
  BY DEF ChildInv, TermInv, SupInv
<1>2. reader[s] \in {"off", "done"}
  BY <1>1 DEF ChildInv, SupInv
<1>3. CASE reader[s] = "done"
  BY <1>1, <1>3 DEF ChildInv, OutputInv
<1>4. CASE reader[s] = "off"
  <2>1. Launched = {}
    BY <1>1, <1>4 DEF ChildInv, OutputInv
  <2>2. written[s] = 0 /\ written[s] = pending[s] + delivered[s]
    BY <1>4, <2>1 DEF ChildInv, OutputInv
  <2>3. pending[s] \in Nat /\ delivered[s] \in Nat
    BY DEF ChildInv, TypeOK, StreamsOK
  <2> QED BY <2>2, <2>3
<1> QED BY <1>2, <1>3, <1>4

\* start, abortBeforeBarrier and reapAll: commands are executed together or not
\* at all, and whoever is told that the group is gone finds no process of it,
\* adopted descendants included.
THEOREM GroupIsContained == ChildSpec => []GroupContained
<1>1. ChildInv => GroupContained
  BY StartedTogether, ContainedMeansAbsent DEF ChildInv, GroupContained
<1> QED BY ChildInvariant, <1>1, PTL

\* supervise: what Wait returns without an error is the commands' own doing, and
\* all of their output, their descendants' included, has been delivered.
THEOREM ResultIsFaithful == ChildSpec => []ResultFaithful
<1>1. ChildInv => ResultFaithful
  BY ResultUndisturbed, OutputIsComplete DEF ResultFaithful
<1> QED BY ChildInvariant, <1>1, PTL

\* processIO.close: no reader and no writer can use what it closes.
THEOREM ClosedIsUnused == ChildSpec => []NoUseAfterClose
<1>1. ChildInv => NoUseAfterClose
  BY DEF ChildInv, SupInv, NoUseAfterClose
<1> QED BY ChildInvariant, <1>1, PTL

-----------------------------------------------------------------------------
(* The abstract group                                                      *)

\* A step that changes no process's existence, no channel and no result is no
\* step of the group.
LEMMA QuietStep ==
  ASSUME UNCHANGED <<contained, published, waitErr>>, GroupStart' = GroupStart,
         \A p \in Procs : proc'[p] \in {"none", "reaped"} <=> proc[p] \in {"none", "reaped"}
  PROVE  [Group!GroupNext]_Group!groupVars
<1>1. GroupLive' = GroupLive
  BY DEF GroupLive
<1>2. GroupVerdict' = GroupVerdict
  BY DEF GroupVerdict
<1> QED BY <1>1, <1>2 DEF Group!groupVars

\* As a step of the group: a helper hands over.
LEMMA HelperPreparesMaps ==
  ASSUME ChildInv, NEW t \in Direct, HelperPrepares(t)
  PROVE  [Group!GroupNext]_Group!groupVars
<1>1. \A q \in Procs : proc'[q] \in {"none", "reaped"} <=> proc[q] \in {"none", "reaped"}
  BY ConstantFacts DEF ChildInv, TypeOK, HelperPrepares
<1>2. UNCHANGED <<contained, published, waitErr>> /\ GroupStart' = GroupStart
  BY DEF HelperPrepares, GroupStart
<1> QED BY <1>1, <1>2, QuietStep

\* As a step of the group: a helper ends without a handoff.
LEMMA HelperFailsMaps ==
  ASSUME ChildInv, NEW t \in Direct, HelperFails(t)
  PROVE  [Group!GroupNext]_Group!groupVars
<1>1. \A q \in Procs : proc'[q] \in {"none", "reaped"} <=> proc[q] \in {"none", "reaped"}
  BY ConstantFacts DEF ChildInv, TypeOK, HelperFails
<1>2. UNCHANGED <<contained, published, waitErr>> /\ GroupStart' = GroupStart
  BY DEF HelperFails, GroupStart
<1> QED BY <1>1, <1>2, QuietStep

\* As a step of the group: a helper passes the barrier, which is released to all.
LEMMA HelperReleasedMaps ==
  ASSUME ChildInv, NEW t \in Direct, HelperReleased(t)
  PROVE  [Group!GroupNext]_Group!groupVars
<1>1. \A q \in Procs : proc'[q] \in {"none", "reaped"} <=> proc[q] \in {"none", "reaped"}
  BY ConstantFacts DEF ChildInv, TypeOK, HelperReleased
<1>2. UNCHANGED <<contained, published, waitErr>> /\ GroupStart' = GroupStart
  BY DEF HelperReleased, GroupStart
<1> QED BY <1>1, <1>2, QuietStep

\* As a step of the group: a command is executed.
LEMMA HelperExecutesMaps ==
  ASSUME ChildInv, NEW t \in Direct, HelperExecutes(t)
  PROVE  [Group!GroupNext]_Group!groupVars
<1>1. \A q \in Procs : proc'[q] \in {"none", "reaped"} <=> proc[q] \in {"none", "reaped"}
  BY ConstantFacts DEF ChildInv, TypeOK, HelperExecutes
<1>2. UNCHANGED <<contained, published, waitErr>> /\ GroupStart' = GroupStart
  BY DEF HelperExecutes, GroupStart
<1> QED BY <1>1, <1>2, QuietStep

\* As a step of the group: a command cannot be executed.
LEMMA HelperExecFailsMaps ==
  ASSUME ChildInv, NEW t \in Direct, HelperExecFails(t)
  PROVE  [Group!GroupNext]_Group!groupVars
<1>1. \A q \in Procs : proc'[q] \in {"none", "reaped"} <=> proc[q] \in {"none", "reaped"}
  BY ConstantFacts DEF ChildInv, TypeOK, HelperExecFails
<1>2. UNCHANGED <<contained, published, waitErr>> /\ GroupStart' = GroupStart
  BY DEF HelperExecFails, GroupStart
<1> QED BY <1>1, <1>2, QuietStep

\* As a step of the group: a running process forks: its child closes no cycle.
LEMMA ForkMaps ==
  ASSUME ChildInv, NEW p \in Procs, NEW d \in Descendants, Fork(p, d)
  PROVE  [Group!GroupNext]_Group!groupVars
<1>1. GroupLive' = GroupLive
  BY ConstantFacts DEF ChildInv, TypeOK, Fork, GroupLive
<1>2. UNCHANGED <<contained, published, waitErr, launch>>
  BY DEF Fork
<1> QED BY <1>1, <1>2 DEF Group!groupVars, GroupStart, GroupVerdict

\* As a step of the group: a process ends: init adopts its children.
LEMMA ExitMaps ==
  ASSUME ChildInv, NEW p \in Procs, Exit(p)
  PROVE  [Group!GroupNext]_Group!groupVars
<1>1. \A q \in Procs : proc'[q] \in {"none", "reaped"} <=> proc[q] \in {"none", "reaped"}
  BY ConstantFacts DEF ChildInv, TypeOK, Exit, Alive
<1>2. UNCHANGED <<contained, published, waitErr>> /\ GroupStart' = GroupStart
  BY DEF Exit, Alive, GroupStart
<1> QED BY <1>1, <1>2, QuietStep

\* As a step of the group: a running process writes.
LEMMA WriteOutputMaps ==
  ASSUME ChildInv, NEW p \in Procs, WriteOutput(p)
  PROVE  [Group!GroupNext]_Group!groupVars
<1>1. UNCHANGED proc
  BY DEF WriteOutput
<1>2. UNCHANGED <<contained, published, waitErr>> /\ GroupStart' = GroupStart
  BY DEF WriteOutput, GroupStart
<1> QED BY <1>1, <1>2, QuietStep

\* As a step of the group: the start begins.
LEMMA StartBeginsMaps ==
  ASSUME ChildInv, StartBegins
  PROVE  [Group!GroupNext]_Group!groupVars
<1>1. GroupStart = "none" /\ GroupStart' = "starting"
  BY DEF GroupStart, StartBegins
<1>2. GroupLive' = GroupLive /\ contained' = contained /\ GroupVerdict' = GroupVerdict
  BY DEF StartBegins, GroupLive, GroupVerdict
<1> QED BY <1>1, <1>2 DEF Group!GroupNext, Group!Begin

\* As a step of the group: the start is refused before a process exists.
LEMMA StartRejectsMaps ==
  ASSUME ChildInv, StartRejects
  PROVE  [Group!GroupNext]_Group!groupVars
<1>1. GroupStart \in {"none", "starting"} /\ GroupStart' = "refused"
  BY DEF GroupStart, StartRejects
<1>2. ~GroupLive
  BY DEF ChildInv, LaunchInv, ReaperInv, NothingLeft, Exists, GroupLive, StartRejects
<1>3. GroupLive' = GroupLive /\ contained' = contained /\ GroupVerdict' = GroupVerdict
  BY DEF StartRejects, GroupLive, GroupVerdict
<1> QED BY <1>1, <1>2, <1>3 DEF Group!GroupNext, Group!Refuse

\* As a step of the group: the context of the caller ends.
LEMMA CancelContextMaps ==
  ASSUME ChildInv, CancelContext
  PROVE  [Group!GroupNext]_Group!groupVars
<1>1. UNCHANGED proc
  BY DEF CancelContext
<1>2. UNCHANGED <<contained, published, waitErr>> /\ GroupStart' = GroupStart
  BY DEF CancelContext, GroupStart
<1> QED BY <1>1, <1>2, QuietStep

\* As a step of the group: the set is cancelled.
LEMMA CancelMaps ==
  ASSUME ChildInv, Cancel
  PROVE  [Group!GroupNext]_Group!groupVars
<1>1. UNCHANGED proc
  BY DEF Cancel
<1>2. UNCHANGED <<contained, published, waitErr>> /\ GroupStart' = GroupStart
  BY DEF Cancel, GroupStart, BeginCancellation
<1> QED BY <1>1, <1>2, QuietStep

\* As a step of the group: the consumer takes a chunk.
LEMMA ConsumeMaps ==
  ASSUME ChildInv, Consume
  PROVE  [Group!GroupNext]_Group!groupVars
<1>1. UNCHANGED proc
  BY DEF Consume
<1>2. UNCHANGED <<contained, published, waitErr>> /\ GroupStart' = GroupStart
  BY DEF Consume, GroupStart
<1> QED BY <1>1, <1>2, QuietStep

\* As a step of the group: a command is launched.
LEMMA LaunchChildMaps ==
  ASSUME ChildInv, LaunchChild
  PROVE  [Group!GroupNext]_Group!groupVars
<1>1. /\ GroupStart = "starting" /\ GroupStart' = "starting" /\ ~contained
      /\ UNCHANGED <<contained, published, waitErr>>
  BY DEF ChildInv, LaunchInv, ReaperInv, GroupStart, LaunchChild
<1>2. GroupVerdict' = GroupVerdict
  BY <1>1 DEF GroupVerdict
<1>3. CASE GroupLive'
  BY <1>1, <1>2, <1>3 DEF Group!GroupNext, Group!Spawn
<1>4. CASE ~GroupLive'
  <2>1. next \in Procs /\ \A p \in Procs : p # next => proc'[p] = proc[p]
    BY ConstantFacts DEF ChildInv, TypeOK, LaunchChild
  <2>2. proc[next] = "none"
    BY ConstantFacts DEF ChildInv, TypeOK, LaunchInv, LaunchChild, Direct
  <2>3. \A p \in Procs : proc'[p] \in {"none", "reaped"}
    BY <1>4 DEF GroupLive
  <2>4. GroupLive' = GroupLive
    BY <2>1, <2>2, <2>3 DEF GroupLive
  <2> QED BY <1>1, <1>2, <2>4 DEF Group!groupVars
<1> QED BY <1>3, <1>4

\* As a step of the group: a launch fails.
LEMMA LaunchFailsMaps ==
  ASSUME ChildInv, LaunchFails
  PROVE  [Group!GroupNext]_Group!groupVars
<1>1. /\ GroupStart = "starting" /\ GroupStart' = "starting" /\ ~contained
      /\ UNCHANGED <<contained, published, waitErr>>
  BY DEF ChildInv, LaunchInv, ReaperInv, GroupStart, LaunchFails, AbortBeforeBarrier
<1>2. GroupVerdict' = GroupVerdict
  BY <1>1 DEF GroupVerdict
<1>3. CASE GroupLive'
  BY <1>1, <1>2, <1>3 DEF Group!GroupNext, Group!Spawn
<1>4. CASE ~GroupLive'
  <2>1. next \in Procs /\ \A p \in Procs : p # next => proc'[p] = proc[p]
    BY ConstantFacts DEF ChildInv, TypeOK, LaunchFails
  <2>2. proc[next] = "none"
    BY ConstantFacts DEF ChildInv, TypeOK, LaunchInv, LaunchFails, Direct
  <2>3. \A p \in Procs : proc'[p] \in {"none", "reaped"}
    BY <1>4 DEF GroupLive
  <2>4. GroupLive' = GroupLive
    BY <2>1, <2>2, <2>3 DEF GroupLive
  <2> QED BY <1>1, <1>2, <2>4 DEF Group!groupVars
<1> QED BY <1>3, <1>4

\* As a step of the group: a handoff is read.
LEMMA AwaitReadyMaps ==
  ASSUME ChildInv, AwaitReady
  PROVE  [Group!GroupNext]_Group!groupVars
<1>1. UNCHANGED proc
  BY DEF AwaitReady
<1>2. UNCHANGED <<contained, published, waitErr>> /\ GroupStart' = GroupStart
  BY DEF AwaitReady, GroupStart
<1> QED BY <1>1, <1>2, QuietStep

\* As a step of the group: a handoff does not come.
LEMMA NotReadyMaps ==
  ASSUME ChildInv, NotReady
  PROVE  [Group!GroupNext]_Group!groupVars
<1>1. UNCHANGED proc
  BY DEF NotReady
<1>2. UNCHANGED <<contained, published, waitErr>> /\ GroupStart' = GroupStart
  BY DEF NotReady, AbortBeforeBarrier, GroupStart
<1> QED BY <1>1, <1>2, QuietStep

\* As a step of the group: the barrier is released.
LEMMA ReleaseBarrierMaps ==
  ASSUME ChildInv, ReleaseBarrier
  PROVE  [Group!GroupNext]_Group!groupVars
<1>1. UNCHANGED proc
  BY DEF ReleaseBarrier
<1>2. UNCHANGED <<contained, published, waitErr>> /\ GroupStart' = GroupStart
  BY DEF ReleaseBarrier, GroupStart
<1> QED BY <1>1, <1>2, QuietStep

\* As a step of the group: the release fails: a set is returned and cancelled.
LEMMA ReleaseFailsMaps ==
  ASSUME ChildInv, ReleaseFails
  PROVE  [Group!GroupNext]_Group!groupVars
<1>1. GroupStart = "starting" /\ GroupStart' = "owned"
  BY DEF GroupStart, ReleaseFails, ReturnSet
<1>2. GroupLive' = GroupLive /\ contained' = contained /\ GroupVerdict' = GroupVerdict
  BY DEF ReleaseFails, ReturnSet, GroupLive, GroupVerdict
<1> QED BY <1>1, <1>2 DEF Group!GroupNext, Group!Own

\* As a step of the group: an execution is awaited; after the last one the set is returned.
LEMMA AwaitExecMaps ==
  ASSUME ChildInv, AwaitExec
  PROVE  [Group!GroupNext]_Group!groupVars
<1>1. GroupLive' = GroupLive /\ contained' = contained /\ GroupVerdict' = GroupVerdict
  BY DEF AwaitExec, ReturnSet, GroupLive, GroupVerdict
<1>2. CASE next < Transfers
  <2>1. GroupStart' = GroupStart
    BY <1>2 DEF AwaitExec, GroupStart
  <2> QED BY <1>1, <2>1 DEF Group!groupVars
<1>3. CASE ~(next < Transfers)
  <2>1. GroupStart = "starting" /\ GroupStart' = "owned"
    BY <1>3 DEF AwaitExec, ReturnSet, GroupStart
  <2> QED BY <1>1, <2>1 DEF Group!GroupNext, Group!Own
<1> QED BY <1>2, <1>3

\* As a step of the group: an execution fails: a set is returned and cancelled.
LEMMA NotExecutedMaps ==
  ASSUME ChildInv, NotExecuted
  PROVE  [Group!GroupNext]_Group!groupVars
<1>1. GroupStart = "starting" /\ GroupStart' = "owned"
  BY DEF GroupStart, NotExecuted, ReturnSet
<1>2. GroupLive' = GroupLive /\ contained' = contained /\ GroupVerdict' = GroupVerdict
  BY DEF NotExecuted, ReturnSet, GroupLive, GroupVerdict
<1> QED BY <1>1, <1>2 DEF Group!GroupNext, Group!Own

\* As a step of the group: the start is undone: nothing is left.
LEMMA AbortReapedMaps ==
  ASSUME ChildInv, AbortReaped
  PROVE  [Group!GroupNext]_Group!groupVars
<1>1. GroupStart \in {"none", "starting"} /\ GroupStart' = "refused"
  BY DEF GroupStart, AbortReaped
<1>2. ~GroupLive
  BY DEF ChildInv, LaunchInv, ReaperInv, NothingLeft, Exists, GroupLive, AbortReaped
<1>3. GroupLive' = GroupLive /\ contained' = contained /\ GroupVerdict' = GroupVerdict
  BY DEF AbortReaped, GroupLive, GroupVerdict
<1> QED BY <1>1, <1>2, <1>3 DEF Group!GroupNext, Group!Refuse

\* As a step of the group: an undone start kills what is left.
LEMMA AbortKillsMaps ==
  ASSUME ChildInv, AbortKills
  PROVE  [Group!GroupNext]_Group!groupVars
<1>1. UNCHANGED proc
  BY DEF AbortKills
<1>2. UNCHANGED <<contained, published, waitErr>> /\ GroupStart' = GroupStart
  BY DEF AbortKills, GroupStart
<1> QED BY <1>1, <1>2, QuietStep

\* As a step of the group: a start that cannot be undone returns a set.
LEMMA AbortGivesUpMaps ==
  ASSUME ChildInv, AbortGivesUp
  PROVE  [Group!GroupNext]_Group!groupVars
<1>1. GroupStart = "starting" /\ GroupStart' = "owned"
  BY DEF GroupStart, AbortGivesUp, ReturnSet
<1>2. GroupLive' = GroupLive /\ contained' = contained /\ GroupVerdict' = GroupVerdict
  BY DEF AbortGivesUp, ReturnSet, GroupLive, GroupVerdict
<1> QED BY <1>1, <1>2 DEF Group!GroupNext, Group!Own

\* As a step of the group: the reaper takes a child of init.
LEMMA ReapMaps ==
  ASSUME ChildInv, NEW p \in Procs, Reap(p)
  PROVE  [Group!GroupNext]_Group!groupVars
<1>1. GroupStart' = GroupStart /\ UNCHANGED <<contained, published, waitErr>>
  BY DEF GroupStart, Reap
<1>2. GroupVerdict' = GroupVerdict
  BY <1>1 DEF GroupVerdict
<1>3. GroupLive
  BY DEF GroupLive, Reap
<1>4. CASE GroupLive'
  BY <1>1, <1>2, <1>3, <1>4 DEF Group!groupVars, GroupLive
<1>5. CASE ~GroupLive'
  BY <1>1, <1>2, <1>3, <1>5 DEF Group!GroupNext, Group!Vanish, GroupLive
<1> QED BY <1>4, <1>5

\* As a step of the group: no child is left to init, and so no process at all.
LEMMA ReaperConfirmsMaps ==
  ASSUME ChildInv, ReaperConfirms
  PROVE  [Group!GroupNext]_Group!groupVars
<1>1. UNCHANGED proc
  BY DEF ReaperConfirms
<1>2. UNCHANGED <<contained, published, waitErr>> /\ GroupStart' = GroupStart
  BY DEF ReaperConfirms, GroupStart
<1> QED BY <1>1, <1>2, QuietStep

\* As a step of the group: the reaper closes its channels.
LEMMA ReaperStopsMaps ==
  ASSUME ChildInv, ReaperStops
  PROVE  [Group!GroupNext]_Group!groupVars
<1>1. GroupLive' = GroupLive /\ GroupStart' = GroupStart /\ GroupVerdict' = GroupVerdict
  BY DEF ReaperStops, GroupLive, GroupStart, GroupVerdict
<1>2. CASE reaper = "confirming"
  <2>1. ~GroupLive
    BY <1>2 DEF ChildInv, ReaperInv, NothingLeft, Exists, GroupLive
  <2>2. GroupStart # "none"
    BY <1>2 DEF ChildInv, LaunchInv, TypeOK, GroupStart
  <2>3. contained' = TRUE
    BY <1>2 DEF ReaperStops
  <2> QED BY <1>1, <2>1, <2>2, <2>3 DEF Group!GroupNext, Group!Confirm
<1>3. CASE reaper # "confirming"
  <2>1. contained' = contained
    BY <1>3 DEF ReaperStops
  <2> QED BY <1>1, <2>1 DEF Group!groupVars
<1> QED BY <1>2, <1>3

\* As a step of the group: the reaper fails.
LEMMA ReaperFailsMaps ==
  ASSUME ChildInv, ReaperFails
  PROVE  [Group!GroupNext]_Group!groupVars
<1>1. UNCHANGED proc
  BY DEF ReaperFails
<1>2. UNCHANGED <<contained, published, waitErr>> /\ GroupStart' = GroupStart
  BY DEF ReaperFails, GroupStart
<1> QED BY <1>1, <1>2, QuietStep

\* As a step of the group: the termination begins.
LEMMA TermBeginsMaps ==
  ASSUME ChildInv, TermBegins
  PROVE  [Group!GroupNext]_Group!groupVars
<1>1. UNCHANGED proc
  BY DEF TermBegins
<1>2. UNCHANGED <<contained, published, waitErr>> /\ GroupStart' = GroupStart
  BY DEF TermBegins, GroupStart
<1> QED BY <1>1, <1>2, QuietStep

\* As a step of the group: a signal is sent.
LEMMA TermSignalsMaps ==
  ASSUME ChildInv, TermSignals
  PROVE  [Group!GroupNext]_Group!groupVars
<1>1. UNCHANGED proc
  BY DEF TermSignals
<1>2. UNCHANGED <<contained, published, waitErr>> /\ GroupStart' = GroupStart
  BY DEF TermSignals, Alive, GroupStart
<1> QED BY <1>1, <1>2, QuietStep

\* As a step of the group: the termination finds the evidence.
LEMMA TermContainedMaps ==
  ASSUME ChildInv, TermContained
  PROVE  [Group!GroupNext]_Group!groupVars
<1>1. UNCHANGED proc
  BY DEF TermContained
<1>2. UNCHANGED <<contained, published, waitErr>> /\ GroupStart' = GroupStart
  BY DEF TermContained, GroupStart
<1> QED BY <1>1, <1>2, QuietStep

\* As a step of the group: a grace period is over.
LEMMA TermGraceOverMaps ==
  ASSUME ChildInv, TermGraceOver
  PROVE  [Group!GroupNext]_Group!groupVars
<1>1. UNCHANGED proc
  BY DEF TermGraceOver
<1>2. UNCHANGED <<contained, published, waitErr>> /\ GroupStart' = GroupStart
  BY DEF TermGraceOver, GroupStart
<1> QED BY <1>1, <1>2, QuietStep

\* As a step of the group: the termination finds the reaper stopped.
LEMMA TermReaperStoppedMaps ==
  ASSUME ChildInv, TermReaperStopped
  PROVE  [Group!GroupNext]_Group!groupVars
<1>1. UNCHANGED proc
  BY DEF TermReaperStopped
<1>2. UNCHANGED <<contained, published, waitErr>> /\ GroupStart' = GroupStart
  BY DEF TermReaperStopped, GroupStart
<1> QED BY <1>1, <1>2, QuietStep

\* As a step of the group: the termination expires.
LEMMA TermExpiresMaps ==
  ASSUME ChildInv, TermExpires
  PROVE  [Group!GroupNext]_Group!groupVars
<1>1. UNCHANGED proc
  BY DEF TermExpires
<1>2. UNCHANGED <<contained, published, waitErr>> /\ GroupStart' = GroupStart
  BY DEF TermExpires, GroupStart
<1> QED BY <1>1, <1>2, QuietStep

\* As a step of the group: the readers start.
LEMMA SupStartsMaps ==
  ASSUME ChildInv, SupStarts
  PROVE  [Group!GroupNext]_Group!groupVars
<1>1. UNCHANGED proc
  BY DEF SupStarts
<1>2. UNCHANGED <<contained, published, waitErr>> /\ GroupStart' = GroupStart
  BY DEF SupStarts, GroupStart
<1> QED BY <1>1, <1>2, QuietStep

\* As a step of the group: an exit is collected.
LEMMA SupCollectsMaps ==
  ASSUME ChildInv, SupCollects
  PROVE  [Group!GroupNext]_Group!groupVars
<1>1. UNCHANGED proc
  BY DEF SupCollects
<1>2. UNCHANGED <<contained, published, waitErr>> /\ GroupStart' = GroupStart
  BY DEF SupCollects, GroupStart
<1> QED BY <1>1, <1>2, QuietStep

\* As a step of the group: the collection goes on.
LEMMA SupWokenMaps ==
  ASSUME ChildInv, SupWoken
  PROVE  [Group!GroupNext]_Group!groupVars
<1>1. UNCHANGED proc
  BY DEF SupWoken
<1>2. UNCHANGED <<contained, published, waitErr>> /\ GroupStart' = GroupStart
  BY DEF SupWoken, GroupStart
<1> QED BY <1>1, <1>2, QuietStep

\* As a step of the group: the controls are stopped.
LEMMA SupStopsMaps ==
  ASSUME ChildInv, SupStops
  PROVE  [Group!GroupNext]_Group!groupVars
<1>1. UNCHANGED proc
  BY DEF SupStops
<1>2. UNCHANGED <<contained, published, waitErr>> /\ GroupStart' = GroupStart
  BY DEF SupStops, GroupStart
<1> QED BY <1>1, <1>2, QuietStep

\* As a step of the group: the terminator has ended.
LEMMA SupTerminatedMaps ==
  ASSUME ChildInv, SupTerminated
  PROVE  [Group!GroupNext]_Group!groupVars
<1>1. UNCHANGED proc
  BY DEF SupTerminated
<1>2. UNCHANGED <<contained, published, waitErr>> /\ GroupStart' = GroupStart
  BY DEF SupTerminated, GroupStart
<1> QED BY <1>1, <1>2, QuietStep

\* As a step of the group: the readers have ended.
LEMMA SupDrainedMaps ==
  ASSUME ChildInv, SupDrained
  PROVE  [Group!GroupNext]_Group!groupVars
<1>1. UNCHANGED proc
  BY DEF SupDrained
<1>2. UNCHANGED <<contained, published, waitErr>> /\ GroupStart' = GroupStart
  BY DEF SupDrained, GroupStart
<1> QED BY <1>1, <1>2, QuietStep

\* As a step of the group: the descriptors are closed.
LEMMA SupClosesMaps ==
  ASSUME ChildInv, SupCloses
  PROVE  [Group!GroupNext]_Group!groupVars
<1>1. UNCHANGED proc
  BY DEF SupCloses
<1>2. UNCHANGED <<contained, published, waitErr>> /\ GroupStart' = GroupStart
  BY DEF SupCloses, GroupStart
<1> QED BY <1>1, <1>2, QuietStep

\* As a step of the group: the result is published.
LEMMA SupPublishesMaps ==
  ASSUME ChildInv, SupPublishes
  PROVE  [Group!GroupNext]_Group!groupVars
<1>1. GroupLive' = GroupLive /\ GroupStart' = GroupStart /\ contained' = contained
  BY DEF SupPublishes, GroupLive, GroupStart
<1>2. GroupStart = "owned" /\ GroupVerdict = "open"
  BY DEF ChildInv, SupInv, SupPublishes, GroupStart, GroupVerdict
<1>3. GroupVerdict' \in {"clean", "dirty"}
  BY DEF SupPublishes, GroupVerdict
<1>4. GroupVerdict' = "clean" => contained
  BY DEF ChildInv, SupInv, TermInv, SupPublishes, GroupVerdict
<1> QED BY <1>1, <1>2, <1>3, <1>4 DEF Group!GroupNext, Group!Conclude

\* As a step of the group: a reader reads, or ends.
LEMMA ReaderPollsMaps ==
  ASSUME ChildInv, NEW s \in Streams, ReaderPolls(s)
  PROVE  [Group!GroupNext]_Group!groupVars
<1>1. UNCHANGED proc
  BY DEF ReaderPolls
<1>2. UNCHANGED <<contained, published, waitErr>> /\ GroupStart' = GroupStart
  BY DEF ReaderPolls, GroupStart
<1> QED BY <1>1, <1>2, QuietStep

\* As a step of the group: a reader fails.
LEMMA ReaderFailsMaps ==
  ASSUME ChildInv, NEW s \in Streams, ReaderFails(s)
  PROVE  [Group!GroupNext]_Group!groupVars
<1>1. UNCHANGED proc
  BY DEF ReaderFails
<1>2. UNCHANGED <<contained, published, waitErr>> /\ GroupStart' = GroupStart
  BY DEF ReaderFails, GroupStart, FailSupervision, BeginCancellation
<1> QED BY <1>1, <1>2, QuietStep

\* As a step of the group: a reader gives up.
LEMMA ReaderTimesOutMaps ==
  ASSUME ChildInv, NEW s \in Streams, ReaderTimesOut(s)
  PROVE  [Group!GroupNext]_Group!groupVars
<1>1. UNCHANGED proc
  BY DEF ReaderTimesOut
<1>2. UNCHANGED <<contained, published, waitErr>> /\ GroupStart' = GroupStart
  BY DEF ReaderTimesOut, GroupStart, FailSupervision, BeginCancellation
<1> QED BY <1>1, <1>2, QuietStep

\* As a step of the group: a reader delivers.
LEMMA ReaderDeliversMaps ==
  ASSUME ChildInv, NEW s \in Streams, ReaderDelivers(s)
  PROVE  [Group!GroupNext]_Group!groupVars
<1>1. UNCHANGED proc
  BY DEF ReaderDelivers
<1>2. UNCHANGED <<contained, published, waitErr>> /\ GroupStart' = GroupStart
  BY DEF ReaderDelivers, GroupStart
<1> QED BY <1>1, <1>2, QuietStep

\* As a step of the group: a write begins.
LEMMA BorrowControlMaps ==
  ASSUME ChildInv, BorrowControl
  PROVE  [Group!GroupNext]_Group!groupVars
<1>1. UNCHANGED proc
  BY DEF BorrowControl
<1>2. UNCHANGED <<contained, published, waitErr>> /\ GroupStart' = GroupStart
  BY DEF BorrowControl, GroupStart
<1> QED BY <1>1, <1>2, QuietStep

\* As a step of the group: a write ends.
LEMMA WriterWritesMaps ==
  ASSUME ChildInv, WriterWrites
  PROVE  [Group!GroupNext]_Group!groupVars
<1>1. UNCHANGED proc
  BY DEF WriterWrites
<1>2. UNCHANGED <<contained, published, waitErr>> /\ GroupStart' = GroupStart
  BY DEF WriterWrites, GroupStart
<1> QED BY <1>1, <1>2, QuietStep

\* As a step of the group: a failed write is reported.
LEMMA WriterReportsMaps ==
  ASSUME ChildInv, WriterReports
  PROVE  [Group!GroupNext]_Group!groupVars
<1>1. UNCHANGED proc
  BY DEF WriterReports
<1>2. UNCHANGED <<contained, published, waitErr>> /\ GroupStart' = GroupStart
  BY DEF WriterReports, GroupStart, FailSupervision, BeginCancellation
<1> QED BY <1>1, <1>2, QuietStep

\* Every step of the set is a step of the group, or none.
LEMMA NextMaps ==
  ASSUME ChildInv, ChildNext
  PROVE  [Group!GroupNext]_Group!groupVars
<1>1. ASSUME NEW t \in Direct, HelperStep(t)
      PROVE  [Group!GroupNext]_Group!groupVars
  BY <1>1, HelperPreparesMaps, HelperFailsMaps, HelperReleasedMaps, HelperExecutesMaps,
     HelperExecFailsMaps DEF HelperStep
<1>2. CASE StartStep
  BY <1>2, LaunchChildMaps, LaunchFailsMaps, AwaitReadyMaps, NotReadyMaps,
     ReleaseBarrierMaps, ReleaseFailsMaps, AwaitExecMaps, NotExecutedMaps,
     AbortReapedMaps, AbortKillsMaps, AbortGivesUpMaps DEF StartStep
<1>3. CASE ReaperStep
  BY <1>3, ReapMaps, ReaperConfirmsMaps, ReaperStopsMaps DEF ReaperStep
<1>4. CASE TermStep
  BY <1>4, TermBeginsMaps, TermSignalsMaps, TermContainedMaps, TermGraceOverMaps,
     TermReaperStoppedMaps, TermExpiresMaps DEF TermStep
<1>5. CASE SupStep
  BY <1>5, SupStartsMaps, SupCollectsMaps, SupWokenMaps, SupStopsMaps, SupTerminatedMaps,
     SupDrainedMaps, SupClosesMaps, SupPublishesMaps DEF SupStep
<1>6. CASE WriterStep
  BY <1>6, BorrowControlMaps, WriterWritesMaps, WriterReportsMaps DEF WriterStep
<1>7. ASSUME NEW s \in Streams, ReaderStep(s)
      PROVE  [Group!GroupNext]_Group!groupVars
  BY <1>7, ReaderPollsMaps, ReaderTimesOutMaps, ReaderDeliversMaps DEF ReaderStep
<1> QED BY <1>1, <1>2, <1>3, <1>4, <1>5, <1>6, <1>7,
          ForkMaps, ExitMaps, WriteOutputMaps, StartBeginsMaps, StartRejectsMaps,
             CancelContextMaps, CancelMaps, ConsumeMaps, ReaderFailsMaps,
             ReaperFailsMaps DEF ChildNext

\* The set implements the abstract group that the supervisor relies on: it is
\* owned or refused once, refused only with nothing left, its evidence is given
\* only when no process is left, and Wait returns no error only with it.
THEOREM SetImplementsGroup == ChildSpec => ImplementsGroup
<1>1. ChildInit => Group!GroupInit
  BY ConstantFacts DEF ChildInit, Group!GroupInit, GroupStart, GroupLive, GroupVerdict
<1>2. ChildInv /\ [ChildNext]_vars => [Group!GroupNext]_Group!groupVars
  <2>1. ASSUME ChildInv, UNCHANGED vars
        PROVE  UNCHANGED Group!groupVars
    BY <2>1 DEF vars, Group!groupVars, GroupStart, GroupLive, GroupVerdict
  <2> QED BY NextMaps, <2>1
<1> QED BY ChildInvariant, <1>1, <1>2, PTL DEF ChildSpec, ImplementsGroup, Group!GroupSpec
=============================================================================
