--------------------------- MODULE RunTurnProofs ---------------------------
(***************************************************************************)
(* Proofs about RunTurn for any step limit, any answers of the model, any  *)
(* depth limit and any histories.                                          *)
(***************************************************************************)
EXTENDS RunTurn, SequenceFacts, TLAPS

-----------------------------------------------------------------------------
(* The batches of one answer.                                              *)

PcStates == {"idle", "inherit", "budget", "model", "tools", "done", "failed"}

Rounds    == {<<>>} \cup (Nat \X Nat)
CellRoles == {"tool", "reply", "none"}
Cells     == [role: CellRoles, round: Rounds, n: Nat]

\* What the other parts need of the types.
Shapes ==
    /\ pc \in [Depths -> PcStates]
    /\ step \in [Depths -> Nat]
    /\ meta \in [Depths -> BOOLEAN]
    /\ DOMAIN msgs = Depths
    /\ calls \in [Depths -> Seq(Tools)]
    /\ results \in [Depths -> Seq(Cells)]
    /\ running \in [Depths -> SUBSET Nat]

\* A call that runs has no result yet, and no call runs outside the tools' phase.
RunningIsOpen ==
    \A d \in Depths :
        /\ Len(results[d]) = Len(calls[d])
        /\ running[d] \subseteq 1..Len(calls[d])
        /\ \A i \in running[d] : results[d][i] = Missing
        /\ pc[d] # "tools" => running[d] = {}

\* A call that has begun found all calls before it ended, but those of its own batch.
BatchOrder ==
    \A d \in Depths : \A k \in 1..Len(calls[d]) :
        k \in running[d] \/ results[d][k] # Missing =>
            \A m \in 1..(k - 1) : results[d][m] # Missing \/ SameBatch(calls[d], m, k)

BatchInv == Shapes /\ RunningIsOpen /\ BatchOrder

\* A batch ends at a call that is not safe.
LEMMA BatchIsSafe ==
    ASSUME NEW cs, NEW m \in Nat, NEW k \in Nat, m <= k, SameBatch(cs, m, k)
    PROVE  Safe(cs[m]) /\ Safe(cs[k])
  BY DEF SameBatch

\* The initial state.
LEMMA BatchInit == Init => BatchInv
  <1> SUFFICES ASSUME Init PROVE BatchInv
    OBVIOUS
  <1>1. <<>> \in Seq(Tools) /\ <<>> \in Seq(Cells) /\ Len(<<>>) = 0
    OBVIOUS
  <1>2. Shapes
    BY <1>1 DEF Init, Shapes, PcStates
  <1>3. RunningIsOpen
    BY <1>1 DEF Init, RunningIsOpen
  <1>4. BatchOrder
    BY <1>1 DEF Init, BatchOrder
  <1> QED
    BY <1>2, <1>3, <1>4 DEF BatchInv

\* Every row that a tool leaves differs from the place kept for it.
LEMMA FilledIn ==
    ASSUME NEW role \in {"tool", "reply"}, NEW round \in Nat \X Nat, NEW i \in Nat
    PROVE  Row(role, round, i) \in Cells /\ Row(role, round, i) # Missing
  <1>1. Row(role, round, i).role = role /\ Missing.role = "none"
    BY DEF Row, Missing
  <1>2. round \in Rounds
    BY DEF Rounds
  <1>3. role \in CellRoles
    BY DEF CellRoles
  <1>4. [role |-> role, round |-> round, n |-> i] \in [role: CellRoles, round: Rounds, n: Nat]
    BY <1>2, <1>3
  <1> QED
    BY <1>1, <1>4 DEF Row, Cells

\* The parts do not depend on the message lists.
LEMMA BatchKeeps ==
    BatchInv /\ UNCHANGED <<calls, running, results, step, meta>> /\ DOMAIN msgs' = Depths
      /\ pc' \in [Depths -> PcStates]
      /\ (\A d \in Depths : pc[d] = "tools" => pc'[d] = "tools")
    => BatchInv'
  BY DEF BatchInv, Shapes, RunningIsOpen, BatchOrder, SameBatch

\* A tool begins: it waits for the batches before its own.
LEMMA StartStep ==
    ASSUME BatchInv, NEW d \in Depths, NEW i, CanStart(d, i),
           running' = [running EXCEPT ![d] = @ \cup {i}],
           UNCHANGED <<calls, results>>, DOMAIN msgs' = Depths,
           step' \in [Depths -> Nat], meta' \in [Depths -> BOOLEAN],
           pc' \in [Depths -> PcStates], \A e \in Depths : pc[e] = "tools" => pc'[e] = "tools"
    PROVE  BatchInv'
  <1>1. i \in 1..Len(calls[d]) /\ pc[d] = "tools" /\ results[d][i] = Missing
    BY DEF CanStart, BatchInv, Shapes
  <1>2. Shapes'
    <2>1. i \in Nat
      BY <1>1 DEF BatchInv, Shapes
    <2>2. running' \in [Depths -> SUBSET Nat]
      BY <2>1 DEF BatchInv, Shapes
    <2> QED
      BY <2>2 DEF BatchInv, Shapes
  <1>3. RunningIsOpen'
    BY <1>1 DEF BatchInv, Shapes, RunningIsOpen
  <1>4. BatchOrder'
    <2> SUFFICES ASSUME NEW e \in Depths, NEW k \in 1..Len(calls[e]),
                        k \in running'[e] \/ results[e][k] # Missing, NEW m \in 1..(k - 1)
                 PROVE  results[e][m] # Missing \/ SameBatch(calls[e], m, k)
      BY DEF BatchOrder, SameBatch
    <2>1. CASE e = d /\ k = i
      BY <2>1 DEF CanStart
    <2>2. CASE ~ (e = d /\ k = i)
      BY <2>2 DEF BatchInv, Shapes, BatchOrder
    <2> QED
      BY <2>1, <2>2
  <1> QED
    BY <1>2, <1>3, <1>4 DEF BatchInv

\* A tool ends: its result is filled in, at its own place.
LEMMA EndStep ==
    ASSUME BatchInv, NEW d \in Depths, NEW i \in running[d], NEW role \in {"tool", "reply"},
           pc[d] = "tools", FillIn(d, i, role),
           UNCHANGED calls, DOMAIN msgs' = Depths,
           step' \in [Depths -> Nat], meta' \in [Depths -> BOOLEAN],
           pc' \in [Depths -> PcStates], \A e \in Depths : pc[e] = "tools" => pc'[e] = "tools"
    PROVE  BatchInv'
  <1> DEFINE row == Row(role, Round(d), i)
  <1>1. i \in 1..Len(calls[d]) /\ i \in DOMAIN results[d]
    BY DEF BatchInv, Shapes, RunningIsOpen
  <1>2. row \in Cells /\ row # Missing
    BY <1>1, FilledIn DEF BatchInv, Shapes, Round, Depths
  <1> HIDE DEF row
  <1>3. /\ running' = [running EXCEPT ![d] = @ \ {i}]
        /\ results' = [results EXCEPT ![d] = [results[d] EXCEPT ![i] = row]]
    BY DEF FillIn, row
  <1>4. /\ results'[d] \in Seq(Cells) /\ Len(results'[d]) = Len(results[d])
        /\ results'[d][i] = row
        /\ \A k \in 1..Len(results[d]) : k # i => results'[d][k] = results[d][k]
    BY <1>1, <1>2, <1>3 DEF BatchInv, Shapes
  <1>5. \A e \in Depths : e # d => results'[e] = results[e] /\ running'[e] = running[e]
    BY <1>3 DEF BatchInv, Shapes
  <1>6. running'[d] = running[d] \ {i}
    BY <1>3 DEF BatchInv, Shapes
  <1>7. Shapes'
    BY <1>2, <1>3, <1>4, <1>5, <1>6 DEF BatchInv, Shapes
  <1>8. RunningIsOpen'
    <2> SUFFICES ASSUME NEW e \in Depths
                 PROVE  /\ Len(results'[e]) = Len(calls[e])
                        /\ running'[e] \subseteq 1..Len(calls[e])
                        /\ \A k \in running'[e] : results'[e][k] = Missing
                        /\ pc'[e] # "tools" => running'[e] = {}
      BY DEF RunningIsOpen
    <2>1. CASE e # d
      BY <1>5, <2>1 DEF BatchInv, RunningIsOpen
    <2>2. CASE e = d
      BY <1>4, <1>6, <2>2 DEF BatchInv, RunningIsOpen
    <2> QED
      BY <2>1, <2>2
  <1>9. BatchOrder'
    <2> SUFFICES ASSUME NEW e \in Depths, NEW k \in 1..Len(calls[e]),
                        k \in running'[e] \/ results'[e][k] # Missing, NEW m \in 1..(k - 1)
                 PROVE  results'[e][m] # Missing \/ SameBatch(calls[e], m, k)
      BY DEF BatchOrder, SameBatch
    <2>1. CASE e # d
      BY <1>5, <2>1 DEF BatchInv, BatchOrder
    <2>2. CASE e = d
      <3>1. k \in running[d] \/ results[d][k] # Missing
        BY <1>1, <1>4, <1>6, <2>2 DEF BatchInv, RunningIsOpen
      <3>2. results[d][m] # Missing \/ SameBatch(calls[d], m, k)
        BY <2>2, <3>1 DEF BatchInv, BatchOrder
      <3>3. m \in 1..Len(results[d]) /\ m < k
        BY <2>2 DEF BatchInv, RunningIsOpen, Shapes
      <3>4. results[d][m] # Missing => results'[d][m] # Missing
        BY <1>2, <1>4, <3>3
      <3> QED
        BY <2>2, <3>2, <3>4
    <2> QED
      BY <2>1, <2>2
  <1> QED
    BY <1>7, <1>8, <1>9 DEF BatchInv

-----------------------------------------------------------------------------
(* The callers of a nested loop, and the depth of the nesting.             *)

\* While a loop runs, each of its callers is in a tool of its own.
CallersWait ==
    \A d, e \in Depths : d < e /\ pc[e] # "idle" => pc[d] = "tools" /\ running[d] # {}

\* Registries with run_agent and fork_context, and loops, by their depth.
Shallow == \A d \in Depths : (meta[d] => d <= 1) /\ (pc[d] # "idle" => d <= 2)

IInv == BatchInv /\ CallersWait /\ Shallow

\* The steps of a loop that is not among its tools.
OwnStep(d) ==
    \/ DropOldest(d) \/ BeginRequest(d) \/ Cancelled(d)
    \/ ModelFails(d) \/ ModelAnswers(d)
    \/ DropTrailing(d) \/ BeginNested(d)

\* They change one loop, which is neither idle nor among its tools, and leave its batch alone.
LEMMA OwnStepFacts ==
    ASSUME Shapes, NEW d \in Depths, OwnStep(d)
    PROVE  /\ pc[d] \notin {"idle", "tools"}
           /\ \E new \in PcStates \ {"idle"} : pc' = [pc EXCEPT ![d] = new]
           /\ DOMAIN msgs' = Depths /\ \A e \in Depths : e # d => msgs'[e] = msgs[e]
           /\ UNCHANGED <<step, meta, calls, running, results>>
  <1>1. CASE DropOldest(d)
    <2>1. pc[d] = "budget" /\ pc' = [pc EXCEPT ![d] = "budget"]
      BY <1>1 DEF DropOldest, Shapes
    <2> QED
      BY <1>1, <2>1 DEF DropOldest, Shapes, batch, PcStates
  <1>2. CASE BeginRequest(d)
    BY <1>2 DEF BeginRequest, Shapes, batch, PcStates
  <1>3. CASE Cancelled(d)
    BY <1>3 DEF Cancelled, Shapes, batch, PcStates
  <1>4. CASE ModelFails(d)
    BY <1>4 DEF ModelFails, Shapes, batch, PcStates
  <1>5. CASE ModelAnswers(d)
    BY <1>5 DEF ModelAnswers, Appended, Shapes, batch, PcStates
  <1>6. CASE DropTrailing(d)
    <2>1. pc[d] = "inherit" /\ pc' = [pc EXCEPT ![d] = "inherit"]
      BY <1>6 DEF DropTrailing, Shapes
    <2> QED
      BY <1>6, <2>1 DEF DropTrailing, Shapes, batch, PcStates
  <1>7. CASE BeginNested(d)
    BY <1>7 DEF BeginNested, Appended, Shapes, batch, PcStates
  <1> QED
    BY <1>1, <1>2, <1>3, <1>4, <1>5, <1>6, <1>7 DEF OwnStep

\* A call that is not safe begins when no other of its answer runs.
LEMMA UnsafeBeginsAlone ==
    ASSUME BatchInv, NEW d \in Depths, NEW i, CanStart(d, i), ~ Safe(calls[d][i])
    PROVE  running[d] = {}
  <1> SUFFICES ASSUME NEW k \in running[d] PROVE FALSE
    OBVIOUS
  <1>1. /\ i \in 1..Len(calls[d]) /\ k \in 1..Len(calls[d]) /\ k # i
        /\ results[d][i] = Missing /\ results[d][k] = Missing
    BY DEF BatchInv, Shapes, RunningIsOpen, CanStart
  <1>2. CASE k < i
    <2>1. SameBatch(calls[d], k, i)
      BY <1>1, <1>2 DEF CanStart
    <2> QED
      BY <1>1, <1>2, <2>1 DEF SameBatch
  <1>3. CASE i < k
    <2>1. SameBatch(calls[d], i, k)
      BY <1>1, <1>3 DEF BatchInv, BatchOrder
    <2> QED
      BY <1>1, <1>3, <2>1 DEF SameBatch
  <1> QED
    BY <1>1, <1>2, <1>3 DEF Shapes

\* Where a nested loop is started, no loop runs below.
LEMMA NestedStartsBelow ==
    ASSUME IInv, NEW d \in Depths, NEW i, CanStart(d, i), calls[d][i] \in MetaTools
    PROVE  \A e \in Depths : d < e => pc[e] = "idle"
  <1>1. ~ Safe(calls[d][i])
    BY DEF MetaTools, Safe
  <1>2. running[d] = {}
    BY <1>1, UnsafeBeginsAlone DEF IInv
  <1> QED
    BY <1>2 DEF IInv, CallersWait

\* Where a loop ends, no loop runs below.
LEMMA NothingBelow ==
    ASSUME IInv, NEW d \in Depths, pc[d] # "tools"
    PROVE  \A e \in Depths : d < e => pc[e] = "idle"
  BY DEF IInv, CallersWait

-----------------------------------------------------------------------------
(* Every step keeps the invariant.                                         *)

\* A step of a loop outside its tools' phase.
LEMMA OwnKeeps == ASSUME IInv, NEW d \in Depths, OwnStep(d) PROVE IInv'
  <1>1. PICK new \in PcStates \ {"idle"} : pc' = [pc EXCEPT ![d] = new]
    BY OwnStepFacts DEF IInv, BatchInv
  <1>2. /\ pc[d] \notin {"idle", "tools"}
        /\ DOMAIN msgs' = Depths
        /\ UNCHANGED <<step, meta, calls, running, results>>
    BY OwnStepFacts DEF IInv, BatchInv
  <1>3. /\ pc' \in [Depths -> PcStates] /\ pc'[d] # "idle"
        /\ \A e \in Depths : e # d => pc'[e] = pc[e]
    BY <1>1 DEF IInv, BatchInv, Shapes
  <1>4. BatchInv'
    BY <1>2, <1>3, BatchKeeps DEF IInv
  <1>5. CallersWait'
    BY <1>2, <1>3 DEF IInv, CallersWait
  <1>6. Shallow'
    BY <1>2, <1>3 DEF IInv, Shallow
  <1> QED
    BY <1>4, <1>5, <1>6 DEF IInv

\* The model's calls begin a batch in which nothing has run.
LEMMA CallsKeep ==
    ASSUME IInv, NEW d \in Depths, NEW cs \in Answers[d], ModelCalls(d, cs) PROVE IInv'
  <1> DEFINE blank == [i \in 1..Len(cs) |-> Missing]
  <1>1. cs \in Seq(Tools) /\ Len(cs) \in Nat
    BY RunTurnAssumption DEF Depths
  <1>2. Missing \in Cells
    BY DEF Missing, Row, Cells, CellRoles, Rounds
  <1>3. blank \in Seq(Cells) /\ Len(blank) = Len(cs)
    BY <1>1, <1>2
  <1>4. \A i \in 1..Len(cs) : blank[i] = Missing
    OBVIOUS
  <1>5. /\ pc[d] = "model" /\ running[d] = {}
        /\ UNCHANGED <<step, meta, running>>
        /\ pc' = [pc EXCEPT ![d] = IF OfferTools(d) THEN "tools" ELSE "failed"]
    BY DEF ModelCalls, IInv, BatchInv, RunningIsOpen
  <1>6. /\ OfferTools(d) => /\ calls' = [calls EXCEPT ![d] = cs]
                            /\ results' = [results EXCEPT ![d] = blank]
        /\ ~ OfferTools(d) => UNCHANGED <<calls, results>>
    BY DEF ModelCalls
  <1> HIDE DEF blank
  <1>7. /\ pc' \in [Depths -> PcStates] /\ pc'[d] # "idle" /\ DOMAIN msgs' = Depths
        /\ \A e \in Depths : e # d => pc'[e] = pc[e]
    BY <1>5 DEF IInv, BatchInv, Shapes, PcStates, ModelCalls, Appended
  <1>8. BatchInv'
    <2>1. CASE ~ OfferTools(d)
      <3>1. \A e \in Depths : pc[e] = "tools" => pc'[e] = "tools"
        BY <1>5, <1>7
      <3> QED
        BY <1>5, <1>6, <1>7, <2>1, <3>1, BatchKeeps DEF IInv
    <2>2. CASE OfferTools(d)
      <3>1. /\ calls'[d] = cs /\ results'[d] = blank
            /\ \A e \in Depths : e # d => calls'[e] = calls[e] /\ results'[e] = results[e]
        BY <1>6, <2>2 DEF IInv, BatchInv, Shapes
      <3>2. Shapes'
        <4>1. Shapes
          BY DEF IInv, BatchInv
        <4>2. calls' \in [Depths -> Seq(Tools)]
          BY <1>1, <1>6, <2>2, <4>1 DEF Shapes
        <4>3. results' \in [Depths -> Seq(Cells)]
          BY <1>3, <1>6, <2>2, <4>1 DEF Shapes
        <4> QED
          BY <1>5, <1>7, <4>1, <4>2, <4>3 DEF Shapes
      <3>3. RunningIsOpen'
        BY <1>3, <1>5, <1>7, <3>1 DEF IInv, BatchInv, RunningIsOpen
      <3>4. BatchOrder'
        BY <1>4, <1>5, <3>1 DEF IInv, BatchInv, BatchOrder, SameBatch
      <3> QED
        BY <3>2, <3>3, <3>4 DEF BatchInv
    <2> QED
      BY <2>1, <2>2
  <1>9. CallersWait'
    BY <1>5, <1>7 DEF IInv, CallersWait
  <1>10. Shallow'
    BY <1>5, <1>7 DEF IInv, Shallow
  <1> QED
    BY <1>8, <1>9, <1>10 DEF IInv

\* A tool begins.
LEMMA StartKeeps ==
    ASSUME IInv, NEW d \in Depths, NEW i, StartTool(d, i) PROVE IInv'
  <1>1. BatchInv'
    BY StartStep DEF StartTool, IInv, BatchInv, Shapes
  <1>2. \A e \in Depths : running[e] # {} => running'[e] # {}
    BY DEF StartTool, IInv, BatchInv, Shapes
  <1>3. CallersWait'
    BY <1>2 DEF StartTool, IInv, CallersWait
  <1>4. Shallow'
    BY DEF StartTool, IInv, Shallow
  <1> QED
    BY <1>1, <1>3, <1>4 DEF IInv

\* A tool ends.
LEMMA ToolEndKeeps ==
    ASSUME IInv, NEW d \in Depths, NEW i, ToolEnds(d, i) PROVE IInv'
  <1>1. BatchInv'
    BY EndStep DEF ToolEnds, IInv, BatchInv, Shapes
  <1>2. \A e \in Depths : e # d => running'[e] = running[e]
    BY DEF ToolEnds, FillIn, IInv, BatchInv, Shapes
  <1>3. \A e \in Depths : d < e => pc[e] = "idle"
    <2> SUFFICES ASSUME NEW e \in Depths, d < e, pc[e] # "idle" PROVE FALSE
      OBVIOUS
    <2>1. d + 1 \in Depths /\ d + 1 <= e
      BY RunTurnAssumption DEF Depths
    <2>2. pc[d + 1] = "idle"
      BY <2>1 DEF ToolEnds
    <2> QED
      BY <2>1, <2>2 DEF IInv, CallersWait, Depths
  <1>4. CallersWait'
    BY <1>2, <1>3 DEF ToolEnds, IInv, CallersWait
  <1>5. Shallow'
    BY DEF ToolEnds, IInv, Shallow
  <1> QED
    BY <1>1, <1>4, <1>5 DEF IInv

\* A batch is collected: nothing of it runs any more.
LEMMA CollectKeeps == ASSUME IInv, NEW d \in Depths, Collect(d) PROVE IInv'
  <1>1. running[d] = {}
    <2>1. \A i \in running[d] : i \in DOMAIN results[d] /\ results[d][i] = Missing
      BY DEF IInv, BatchInv, Shapes, RunningIsOpen
    <2> QED
      BY <2>1 DEF Collect
  <1>2. <<>> \in Seq(Tools) /\ <<>> \in Seq(Cells) /\ Len(<<>>) = 0
    OBVIOUS
  <1>3. /\ pc' \in [Depths -> PcStates] /\ pc'[d] # "idle" /\ pc[d] = "tools"
        /\ \A e \in Depths : e # d => pc'[e] = pc[e]
    BY DEF Collect, IInv, BatchInv, Shapes, PcStates
  <1>4. /\ calls' \in [Depths -> Seq(Tools)] /\ calls'[d] = <<>>
        /\ results' \in [Depths -> Seq(Cells)] /\ results'[d] = <<>>
        /\ \A e \in Depths : e # d => calls'[e] = calls[e] /\ results'[e] = results[e]
    BY <1>2 DEF Collect, IInv, BatchInv, Shapes
  <1>5. UNCHANGED <<running, meta>> /\ DOMAIN msgs' = Depths /\ step' \in [Depths -> Nat]
    BY DEF Collect, IInv, BatchInv, Shapes
  <1>6. Shapes'
    BY <1>3, <1>4, <1>5 DEF IInv, BatchInv, Shapes
  <1>7. RunningIsOpen'
    <2> SUFFICES ASSUME NEW e \in Depths
                 PROVE  /\ Len(results'[e]) = Len(calls'[e])
                        /\ running'[e] \subseteq 1..Len(calls'[e])
                        /\ \A i \in running'[e] : results'[e][i] = Missing
                        /\ pc'[e] # "tools" => running'[e] = {}
      BY DEF RunningIsOpen
    <2>1. CASE e = d
      BY <1>1, <1>4, <1>5, <2>1
    <2>2. CASE e # d
      BY <1>3, <1>4, <1>5, <2>2 DEF IInv, BatchInv, RunningIsOpen
    <2> QED
      BY <2>1, <2>2
  <1>8. BatchOrder'
    <2> SUFFICES ASSUME NEW e \in Depths, NEW k \in 1..Len(calls'[e]),
                        k \in running'[e] \/ results'[e][k] # Missing, NEW m \in 1..(k - 1)
                 PROVE  results'[e][m] # Missing \/ SameBatch(calls'[e], m, k)
      BY DEF BatchOrder, SameBatch
    <2>1. CASE e = d
      <3>1. Len(calls'[e]) = 0
        BY <1>2, <1>4, <2>1
      <3> QED
        BY <3>1
    <2>2. CASE e # d
      BY <1>4, <1>5, <2>2 DEF IInv, BatchInv, BatchOrder
    <2> QED
      BY <2>1, <2>2
  <1>9. CallersWait'
    BY <1>1, <1>3, <1>5 DEF IInv, CallersWait
  <1>10. Shallow'
    BY <1>3, <1>5 DEF IInv, Shallow
  <1> QED
    BY <1>6, <1>7, <1>8, <1>9, <1>10 DEF IInv, BatchInv

\* A nested loop begins: at depth 1, or at depth 2 with a registry that lacks both tools.
LEMMA NestedKeeps ==
    ASSUME IInv, NEW d \in Depths, NEW i, NEW inherit, StartNested(d, i, inherit) PROVE IInv'
  <1>1. \A e \in Depths : d < e => pc[e] = "idle"
    BY NestedStartsBelow DEF StartNested
  <1>2. d + 1 \in Depths /\ d < d + 1 /\ d <= 1 /\ CanStart(d, i) /\ pc[d] = "tools"
    BY RunTurnAssumption DEF StartNested, CanStart, Depths, IInv, Shallow
  <1>3. /\ pc' \in [Depths -> PcStates] /\ pc'[d + 1] = "inherit"
        /\ \A e \in Depths : e # d + 1 => pc'[e] = pc[e]
    BY <1>2 DEF StartNested, IInv, BatchInv, Shapes, PcStates
  <1>4. /\ meta' \in [Depths -> BOOLEAN]
        /\ meta'[d + 1] => d < 1
        /\ \A e \in Depths : e # d + 1 => meta'[e] = meta[e]
    <2>1. NestedMeta(calls[d][i], d) \in BOOLEAN /\ (NestedMeta(calls[d][i], d) => d < 1)
      BY DEF NestedMeta
    <2> QED
      BY <1>2, <2>1 DEF StartNested, IInv, BatchInv, Shapes
  <1>5. /\ running' = [running EXCEPT ![d] = @ \cup {i}]
        /\ UNCHANGED <<calls, results>> /\ DOMAIN msgs' = Depths /\ step' \in [Depths -> Nat]
    BY DEF StartNested, IInv, BatchInv, Shapes
  <1>6. \A e \in Depths : pc[e] = "tools" => pc'[e] = "tools"
    BY <1>1, <1>2, <1>3
  <1>7. BatchInv'
    <2>1. BatchInv
      BY DEF IInv
    <2> QED
      BY <2>1, <1>2, <1>3, <1>4, <1>5, <1>6, StartStep
  <1>8. running'[d] # {} /\ \A e \in Depths : running[e] # {} => running'[e] # {}
    BY <1>5 DEF IInv, BatchInv, Shapes
  <1>9. CallersWait'
    <2> SUFFICES ASSUME NEW b \in Depths, NEW e \in Depths, b < e, pc'[e] # "idle"
                 PROVE  pc'[b] = "tools" /\ running'[b] # {}
      BY DEF CallersWait
    <2>1. CASE e # d + 1
      BY <1>3, <1>6, <1>8, <2>1 DEF IInv, CallersWait
    <2>2. CASE e = d + 1 /\ b = d
      BY <1>2, <1>6, <1>8, <2>2
    <2>3. CASE e = d + 1 /\ b # d
      <3>1. b < d
        BY <2>3 DEF Depths
      <3> QED
        BY <1>2, <1>6, <1>8, <3>1 DEF IInv, CallersWait
    <2> QED
      BY <2>1, <2>2, <2>3
  <1>10. Shallow'
    <2> SUFFICES ASSUME NEW e \in Depths
                 PROVE  (meta'[e] => e <= 1) /\ (pc'[e] # "idle" => e <= 2)
      BY DEF Shallow
    <2>1. CASE e = d + 1
      BY <1>2, <1>4, <2>1 DEF Depths
    <2>2. CASE e # d + 1
      <3>1. (meta'[e] = meta[e]) /\ (pc'[e] = pc[e])
        BY <1>3, <1>4, <2>2
      <3> QED
        BY <3>1 DEF IInv, Shallow
    <2> QED
      BY <2>1, <2>2
  <1> QED
    BY <1>7, <1>9, <1>10 DEF IInv

\* A nested loop ends.
LEMMA EndNestedKeeps ==
    ASSUME IInv, NEW d \in Depths, NEW i, EndNested(d, i) PROVE IInv'
  <1> DEFINE role == IF pc[d + 1] = "done" THEN "reply" ELSE "tool"
  <1>1. /\ d + 1 \in Depths /\ pc[d + 1] \in {"done", "failed"}
        /\ pc[d] = "tools" /\ i \in running[d] /\ role \in {"tool", "reply"}
    BY DEF EndNested, Returned
  <1>2. \A e \in Depths : d + 1 < e => pc[e] = "idle"
    BY <1>1, NothingBelow
  <1>3. /\ pc' \in [Depths -> PcStates] /\ pc'[d + 1] = "idle"
        /\ \A e \in Depths : e # d + 1 => pc'[e] = pc[e]
    BY <1>1 DEF EndNested, IInv, BatchInv, Shapes, PcStates
  <1>4. \A e \in Depths : pc[e] = "tools" => pc'[e] = "tools"
    BY <1>1, <1>3
  <1>5. /\ UNCHANGED calls /\ DOMAIN msgs' = Depths /\ step' \in [Depths -> Nat]
        /\ meta' \in [Depths -> BOOLEAN] /\ meta'[d + 1] = FALSE
        /\ \A e \in Depths : e # d + 1 => meta'[e] = meta[e]
    BY <1>1 DEF EndNested, IInv, BatchInv, Shapes
  <1>6. FillIn(d, i, role)
    BY DEF EndNested
  <1> HIDE DEF role
  <1>7. BatchInv'
    BY <1>1, <1>3, <1>4, <1>5, <1>6, EndStep DEF IInv
  <1>8. \A e \in Depths : e # d => running'[e] = running[e]
    BY <1>6 DEF FillIn, IInv, BatchInv, Shapes
  <1>9. \A e \in Depths : d < e => pc'[e] = "idle"
    <2> SUFFICES ASSUME NEW e \in Depths, d < e PROVE pc'[e] = "idle"
      OBVIOUS
    <2>1. e = d + 1 \/ d + 1 < e
      BY DEF Depths
    <2> QED
      BY <1>2, <1>3, <2>1
  <1>10. CallersWait'
    <2> SUFFICES ASSUME NEW b \in Depths, NEW e \in Depths, b < e, pc'[e] # "idle"
                 PROVE  pc'[b] = "tools" /\ running'[b] # {}
      BY DEF CallersWait
    <2>1. e # d + 1 /\ b # d /\ pc'[e] = pc[e]
      BY <1>3, <1>9
    <2> QED
      BY <1>4, <1>8, <2>1 DEF IInv, CallersWait
  <1>11. Shallow'
    BY <1>3, <1>5 DEF IInv, Shallow
  <1> QED
    BY <1>7, <1>10, <1>11 DEF IInv

\* A step that leaves everything of the loops as it is.
LEMMA IdleKeeps ==
    IInv /\ UNCHANGED <<pc, step, msgs, calls, running, results, meta>> => IInv'
  BY BatchKeeps DEF IInv, BatchInv, Shapes, CallersWait, Shallow

\* The initial state.
LEMMA InitIInv == Init => IInv
  <1> SUFFICES ASSUME Init PROVE IInv
    OBVIOUS
  <1>1. \A d \in Depths : d \in Nat /\ (d # 0 => pc[d] = "idle")
    BY DEF Init, Depths
  <1>2. \A d \in Depths : meta[d] => d = 0
    BY Zenon DEF Init
  <1>3. CallersWait
    BY <1>1 DEF CallersWait
  <1>4. Shallow
    BY <1>1, <1>2 DEF Shallow
  <1> QED
    BY <1>3, <1>4, BatchInit DEF IInv

\* The steps of Next, by the loop they belong to.
LEMMA NextCases ==
    ASSUME Next
    PROVE  \/ \E d \in Depths :
                 \/ OwnStep(d)
                 \/ \E cs \in Answers[d] : ModelCalls(d, cs)
                 \/ Collect(d)
                 \/ \E i : \/ StartTool(d, i) \/ ToolEnds(d, i) \/ EndNested(d, i)
                           \/ \E inherit : StartNested(d, i, inherit)
           \/ UNCHANGED <<pc, step, msgs, calls, running, results, meta>>
  BY DEF Next, Loop, ModelReturns, ToolReturns, OwnStep, CancelTurn, Terminated, vars, batch

\* The invariant is inductive.
LEMMA NextKeeps == IInv /\ [Next]_vars => IInv'
  <1> SUFFICES ASSUME IInv, [Next]_vars PROVE IInv'
    OBVIOUS
  <1>1. CASE Next
    BY <1>1, NextCases, OwnKeeps, CallsKeep, CollectKeeps, StartKeeps, ToolEndKeeps,
       EndNestedKeeps, NestedKeeps, IdleKeeps
  <1>2. CASE UNCHANGED vars
    BY <1>2, IdleKeeps DEF vars
  <1> QED
    BY <1>1, <1>2

\* The invariant holds throughout.
LEMMA InvAlways == Spec => []IInv
  BY InitIInv, NextKeeps, PTL DEF Spec

-----------------------------------------------------------------------------
(* The message lists: what each operation on one does to the order of its  *)
(* calls, answers and notes.                                               *)

RowKinds == [role: {"user", "assistant", "tool", "reply", "note"}, round: Rounds, n: Nat]
Lists    == Seq(RowKinds)

\* The first m rows are well formed by themselves.
FormedTo(ms, m) ==
    /\ \A j \in 1..m : HasCalls(ms[j]) =>
           \A k \in 1..ms[j].n :
               j + k <= m /\ IsTool(ms[j + k]) /\ ms[j + k].round = ms[j].round /\ ms[j + k].n = k
    /\ \A i \in 1..m : IsTool(ms[i]) => \E j \in 1..(i - 1) : HasCalls(ms[j]) /\ i - j <= ms[j].n

\* The last row has calls that nothing answers yet; the rows before it are well formed.
Pending(ms) == Len(ms) > 0 /\ HasCalls(ms[Len(ms)]) /\ FormedTo(ms, Len(ms) - 1)

\* A row is a caller, an answer, or none of both.
LEMMA RowFacts ==
    ASSUME NEW r \in RowKinds
    PROVE  /\ r.n \in Nat /\ r.round \in Rounds
           /\ HasCalls(r) <=> r.role = "assistant" /\ r.n > 0
           /\ IsTool(r) <=> r.role \in {"tool", "reply"}
           /\ ~ (HasCalls(r) /\ IsTool(r))
  BY DEF RowKinds, HasCalls, IsTool

\* A list is well formed if all its rows are.
LEMMA WellFormedIs ==
    ASSUME NEW ms \in Lists PROVE WellFormed(ms) <=> FormedTo(ms, Len(ms))
  <1>1. DOMAIN ms = 1..Len(ms) /\ Len(ms) \in Nat
    BY DEF Lists
  <1>2. ASSUME NEW j \in 1..Len(ms), NEW k \in 1..ms[j].n
        PROVE  j + k \in DOMAIN ms <=> j + k <= Len(ms)
    <2>1. ms[j].n \in Nat
      BY RowFacts DEF Lists
    <2> QED
      BY <1>1, <2>1
  <1> QED
    BY <1>1, <1>2 DEF WellFormed, FormedTo

\* Only the rows themselves matter.
LEMMA FormedAlike ==
    ASSUME NEW p \in Lists, NEW q \in Lists, NEW m \in Nat, m <= Len(p), m <= Len(q),
           \A i \in 1..m : p[i] = q[i], FormedTo(p, m)
    PROVE  FormedTo(q, m)
  <1>1. \A j \in 1..m : p[j].n \in Nat
    BY RowFacts DEF Lists
  <1>2. \A j \in 1..m : HasCalls(q[j]) =>
           \A k \in 1..q[j].n :
               j + k <= m /\ IsTool(q[j + k]) /\ q[j + k].round = q[j].round /\ q[j + k].n = k
    <2> SUFFICES ASSUME NEW j \in 1..m, HasCalls(q[j]), NEW k \in 1..q[j].n
                 PROVE  j + k <= m /\ IsTool(q[j + k]) /\ q[j + k].round = q[j].round /\ q[j + k].n = k
      OBVIOUS
    <2>1. j + k <= m /\ IsTool(p[j + k]) /\ p[j + k].round = p[j].round /\ p[j + k].n = k
      BY DEF FormedTo
    <2> QED
      BY <1>1, <2>1
  <1>3. \A i \in 1..m : IsTool(q[i]) => \E j \in 1..(i - 1) : HasCalls(q[j]) /\ i - j <= q[j].n
    <2> SUFFICES ASSUME NEW i \in 1..m, IsTool(q[i])
                 PROVE  \E j \in 1..(i - 1) : HasCalls(q[j]) /\ i - j <= q[j].n
      OBVIOUS
    <2>1. PICK j \in 1..(i - 1) : HasCalls(p[j]) /\ i - j <= p[j].n
      BY DEF FormedTo
    <2> QED
      BY <2>1
  <1> QED
    BY <1>2, <1>3 DEF FormedTo

\* A row without calls that answers nothing may follow a well-formed list.
LEMMA FormedMore ==
    ASSUME NEW q \in Lists, NEW m \in Nat, m < Len(q), FormedTo(q, m),
           ~ HasCalls(q[m + 1]), ~ IsTool(q[m + 1])
    PROVE  FormedTo(q, m + 1)
  <1>1. \A j \in 1..m : q[j].n \in Nat
    BY RowFacts DEF Lists
  <1>2. ASSUME NEW j \in 1..(m + 1), HasCalls(q[j]), NEW k \in 1..q[j].n
        PROVE  j + k <= m + 1 /\ IsTool(q[j + k]) /\ q[j + k].round = q[j].round /\ q[j + k].n = k
    <2>1. j \in 1..m
      BY <1>2
    <2>2. j + k <= m /\ IsTool(q[j + k]) /\ q[j + k].round = q[j].round /\ q[j + k].n = k
      BY <1>2, <2>1 DEF FormedTo
    <2> QED
      BY <1>1, <2>1, <2>2
  <1>3. ASSUME NEW i \in 1..(m + 1), IsTool(q[i])
        PROVE  \E j \in 1..(i - 1) : HasCalls(q[j]) /\ i - j <= q[j].n
    <2>1. i \in 1..m
      BY <1>3
    <2> QED
      BY <1>3, <2>1 DEF FormedTo
  <1> QED
    BY <1>2, <1>3 DEF FormedTo

\* A user's row, a compact's or an answer that calls nothing goes to the end.
LEMMA AppendFree ==
    ASSUME NEW q \in Lists, NEW r \in RowKinds, ~ HasCalls(r), ~ IsTool(r), WellFormed(q)
    PROVE  WellFormed(Append(q, r)) /\ Append(q, r) \in Lists
  <1> DEFINE p == Append(q, r)
  <1>1. p \in Lists /\ Len(p) = Len(q) + 1 /\ Len(q) \in Nat /\ p[Len(q) + 1] = r
        /\ \A i \in 1..Len(q) : p[i] = q[i]
    BY DEF Lists
  <1> HIDE DEF p
  <1>2. FormedTo(p, Len(q))
    BY <1>1, WellFormedIs, FormedAlike
  <1>3. FormedTo(p, Len(q) + 1)
    BY <1>1, <1>2, FormedMore
  <1>4. WellFormed(p)
    BY <1>1, <1>3, WellFormedIs
  <1> QED
    BY <1>1, <1>4 DEF p

\* The model's calls are pending.
LEMMA AppendCalls ==
    ASSUME NEW q \in Lists, NEW r \in RowKinds, HasCalls(r), WellFormed(q)
    PROVE  Pending(Append(q, r)) /\ Append(q, r) \in Lists
  <1> DEFINE p == Append(q, r)
  <1>1. p \in Lists /\ Len(p) = Len(q) + 1 /\ Len(q) \in Nat /\ p[Len(q) + 1] = r
        /\ \A i \in 1..Len(q) : p[i] = q[i]
    BY DEF Lists
  <1> HIDE DEF p
  <1>2. FormedTo(p, Len(q))
    BY <1>1, WellFormedIs, FormedAlike
  <1>3. Pending(p)
    BY <1>1, <1>2 DEF Pending
  <1> QED
    BY <1>1, <1>3 DEF p

\* p is what is left of q from its row a on.
Rest(p, q, a) ==
    /\ a \in 1..(Len(q) + 1) /\ Len(p) = Len(q) - a + 1
    /\ \A i \in 1..Len(p) : p[i] = q[a + i - 1]

\* SubSeq up to the end is such a rest.
LEMMA RestIs ==
    ASSUME NEW q \in Lists, NEW a \in 1..(Len(q) + 1)
    PROVE  SubSeq(q, a, Len(q)) \in Lists /\ Rest(SubSeq(q, a, Len(q)), q, a)
  <1> DEFINE p == SubSeq(q, a, Len(q))
  <1>1. p \in Lists /\ Len(p) = Len(q) - a + 1 /\ \A i \in 1..(Len(q) - a + 1) : p[i] = q[a + i - 1]
    BY DEF Lists
  <1> HIDE DEF p
  <1>2. p \in Lists /\ Rest(p, q, a)
    BY <1>1 DEF Rest
  <1> QED
    BY <1>2 DEF p

\* The rest is well formed if none of its answers is to a call before it.
LEMMA RestFormed ==
    ASSUME NEW q \in Lists, NEW p \in Lists, NEW a, Rest(p, q, a),
           NEW m \in Nat, m <= Len(q), a <= m + 1, FormedTo(q, m),
           \A i \in a..m : \A j \in 1..(a - 1) : IsTool(q[i]) /\ HasCalls(q[j]) => i - j > q[j].n
    PROVE  FormedTo(p, m - a + 1)
  <1>1. p \in Lists /\ Len(p) = Len(q) - a + 1 /\ Len(q) \in Nat /\ a \in 1..(Len(q) + 1)
        /\ \A i \in 1..(Len(q) - a + 1) : p[i] = q[a + i - 1]
    BY DEF Lists, Rest
  <1>2. \A j \in 1..m : q[j].n \in Nat
    BY <1>1, RowFacts DEF Lists
  <1>3. ASSUME NEW j \in 1..(m - a + 1), HasCalls(p[j]), NEW k \in 1..p[j].n
        PROVE  j + k <= m - a + 1 /\ IsTool(p[j + k]) /\ p[j + k].round = p[j].round /\ p[j + k].n = k
    <2>1. a + j - 1 \in 1..m /\ p[j] = q[a + j - 1]
      <3>1. j \in 1..(Len(q) - a + 1) /\ a + j - 1 \in 1..m
        BY <1>1
      <3> QED
        BY <1>1, <3>1
    <2>2. (a + j - 1) + k <= m /\ IsTool(q[(a + j - 1) + k])
          /\ q[(a + j - 1) + k].round = p[j].round /\ q[(a + j - 1) + k].n = k
      BY <1>3, <2>1 DEF FormedTo
    <2>3. k \in Nat /\ k >= 1
      BY <1>2, <2>1
    <2>4. j + k \in 1..(Len(q) - a + 1) /\ a + (j + k) - 1 = (a + j - 1) + k /\ j + k <= m - a + 1
      BY <1>1, <2>2, <2>3
    <2>5. p[j + k] = q[(a + j - 1) + k]
      BY <1>1, <2>4
    <2> QED
      BY <2>2, <2>4, <2>5
  <1>4. ASSUME NEW i \in 1..(m - a + 1), IsTool(p[i])
        PROVE  \E j \in 1..(i - 1) : HasCalls(p[j]) /\ i - j <= p[j].n
    <2>1. a + i - 1 \in a..m /\ a + i - 1 \in 1..m /\ p[i] = q[a + i - 1]
      <3>1. i \in 1..(Len(q) - a + 1) /\ a + i - 1 \in a..m /\ a + i - 1 \in 1..m
        BY <1>1
      <3> QED
        BY <1>1, <3>1
    <2>2. PICK j \in 1..(a + i - 2) : HasCalls(q[j]) /\ (a + i - 1) - j <= q[j].n
      <3>1. a + i - 1 \in 1..m /\ IsTool(q[a + i - 1]) /\ (a + i - 1) - 1 = a + i - 2
        BY <1>1, <1>4, <2>1
      <3> QED
        BY <3>1 DEF FormedTo
    <2>3. j \notin 1..(a - 1)
      <3>1. ASSUME j \in 1..(a - 1) PROVE FALSE
        <4>1. j \in 1..m /\ q[j].n \in Nat /\ a \in Nat /\ i \in Nat /\ j \in Nat
          BY <1>1, <1>2, <2>1, <3>1
        <4>2. (a + i - 1) - j > q[j].n
          BY <1>4, <2>1, <2>2, <3>1, <4>1
        <4> QED
          BY <2>2, <4>1, <4>2
      <3> QED
        BY <3>1
    <2>4. j - a + 1 \in 1..(i - 1) /\ j - a + 1 \in 1..(Len(q) - a + 1) /\ a + (j - a + 1) - 1 = j
          /\ i - (j - a + 1) = (a + i - 1) - j
      BY <1>1, <2>3
    <2>5. p[j - a + 1] = q[j]
      BY <1>1, <2>4
    <2> QED
      BY <2>2, <2>4, <2>5
  <1> QED
    BY <1>3, <1>4 DEF FormedTo

\* One step of the budget's trimming leaves a well-formed list.
LEMMA DroppedFormed ==
    ASSUME NEW q \in Lists, WellFormed(q), CanDrop(q), NEW p \in Lists, Rest(p, q, DropSize(q) + 1)
    PROVE  WellFormed(p)
  <1> DEFINE D == DropSize(q)
  <1>1. Len(q) \in Nat /\ Len(q) >= 1 /\ Head(q) = q[1] /\ q[1] \in RowKinds
    BY DEF CanDrop, Lists
  <1>2. D \in Nat /\ D >= 1 /\ D <= Len(q) /\ (HasCalls(q[1]) => D = 1 + q[1].n) /\ (~ HasCalls(q[1]) => D = 1)
    BY <1>1, RowFacts DEF CanDrop, DropSize
  <1>3. \A i \in 2..D : IsTool(q[i])
    BY DEF CanDrop
  <1>4. FormedTo(q, Len(q)) /\ Rest(p, q, D + 1)
    BY WellFormedIs
  <1> HIDE DEF D
  <1>5. ASSUME NEW i \in (D + 1)..Len(q), NEW j \in 1..((D + 1) - 1), IsTool(q[i]), HasCalls(q[j])
        PROVE  i - j > q[j].n
    <2>1. j = 1
      <3>1. j \in 1..Len(q) /\ q[j] \in RowKinds
        BY <1>2, <1>5 DEF Lists
      <3>2. ~ IsTool(q[j])
        BY <1>5, <3>1, RowFacts
      <3> QED
        BY <1>2, <1>3, <3>2
    <2> QED
      BY <1>1, <1>2, <1>5, <2>1, RowFacts
  <1>6. D + 1 <= Len(q) + 1 /\ Len(q) <= Len(q) /\ Len(q) - (D + 1) + 1 = Len(p)
    BY <1>1, <1>2, <1>4 DEF Rest
  <1>7. FormedTo(p, Len(p))
    BY <1>1, <1>4, <1>5, <1>6, RestFormed
  <1> QED
    BY <1>7, WellFormedIs

\* The compact's row may stand in front.
LEMMA ConsFormed ==
    ASSUME NEW q \in Lists, WellFormed(q)
    PROVE  WellFormed(<<UserRow>> \o q) /\ <<UserRow>> \o q \in Lists
  <1> DEFINE p == <<UserRow>> \o q
  <1>1. UserRow \in RowKinds /\ ~ HasCalls(UserRow) /\ ~ IsTool(UserRow)
    BY DEF UserRow, Row, RowKinds, Rounds, HasCalls, IsTool
  <1>2. p \in Lists /\ Len(p) = Len(q) + 1 /\ Len(q) \in Nat /\ p[1] = UserRow
        /\ \A i \in 1..Len(q) : p[i + 1] = q[i]
    BY <1>1 DEF Lists
  <1>3. FormedTo(q, Len(q))
    BY WellFormedIs
  <1> HIDE DEF p
  <1>4. ASSUME NEW j \in 1..Len(p), HasCalls(p[j]), NEW k \in 1..p[j].n
        PROVE  j + k <= Len(p) /\ IsTool(p[j + k]) /\ p[j + k].round = p[j].round /\ p[j + k].n = k
    <2>1. j - 1 \in 1..Len(q) /\ p[j] = q[j - 1]
      <3>1. j # 1
        BY <1>1, <1>2, <1>4
      <3>2. j - 1 \in 1..Len(q) /\ (j - 1) + 1 = j
        BY <1>2, <3>1
      <3> QED
        BY <1>2, <3>2
    <2>2. (j - 1) + k <= Len(q) /\ IsTool(q[(j - 1) + k])
          /\ q[(j - 1) + k].round = p[j].round /\ q[(j - 1) + k].n = k
      BY <1>3, <1>4, <2>1 DEF FormedTo
    <2>3. q[j - 1].n \in Nat
      BY <2>1, RowFacts DEF Lists
    <2>4. (j - 1) + k \in 1..Len(q) /\ ((j - 1) + k) + 1 = j + k /\ j + k <= Len(p)
      BY <1>2, <2>1, <2>2, <2>3
    <2>5. p[j + k] = q[(j - 1) + k]
      BY <1>2, <2>4
    <2> QED
      BY <2>2, <2>4, <2>5
  <1>5. ASSUME NEW i \in 1..Len(p), IsTool(p[i])
        PROVE  \E j \in 1..(i - 1) : HasCalls(p[j]) /\ i - j <= p[j].n
    <2>1. i - 1 \in 1..Len(q) /\ p[i] = q[i - 1]
      <3>1. i # 1
        BY <1>1, <1>2, <1>5
      <3>2. i - 1 \in 1..Len(q) /\ (i - 1) + 1 = i
        BY <1>2, <3>1
      <3> QED
        BY <1>2, <3>2
    <2>2. PICK j \in 1..(i - 2) : HasCalls(q[j]) /\ (i - 1) - j <= q[j].n
      BY <1>3, <1>5, <2>1 DEF FormedTo
    <2>3. j \in 1..Len(q) /\ j + 1 \in 1..(i - 1) /\ i - (j + 1) = (i - 1) - j
      BY <1>2, <2>1
    <2>4. p[j + 1] = q[j]
      BY <1>2, <2>3
    <2> QED
      BY <2>2, <2>3, <2>4
  <1>6. FormedTo(p, Len(p))
    BY <1>4, <1>5 DEF FormedTo
  <1>7. WellFormed(p)
    BY <1>2, <1>6, WellFormedIs
  <1> QED
    BY <1>2, <1>7 DEF p

\* A batch: the answers behind the calls, in order, and then what the tools deferred.
LEMMA BatchFormed ==
    ASSUME NEW q \in Lists, Pending(q), NEW res \in Lists, NEW notes \in Lists,
           q[Len(q)].n = Len(res),
           \A i \in 1..Len(res) : IsTool(res[i]) /\ res[i].round = q[Len(q)].round /\ res[i].n = i,
           \A i \in 1..Len(notes) : notes[i].role = "note"
    PROVE  WellFormed(q \o res \o notes) /\ q \o res \o notes \in Lists
  <1> DEFINE p == q \o res \o notes
             L == Len(q)
             R == Len(res)
             N == Len(notes)
  <1>1. /\ p \in Lists /\ Len(p) = L + R + N /\ L \in Nat /\ R \in Nat /\ N \in Nat
        /\ \A i \in 1..L : p[i] = q[i]
        /\ \A i \in 1..R : p[L + i] = res[i]
        /\ \A i \in 1..N : p[L + R + i] = notes[i]
    BY DEF Lists
  <1>2. L > 0 /\ HasCalls(q[L]) /\ FormedTo(q, L - 1) /\ q[L].n = R
    BY DEF Pending
  <1>3. \A i \in 1..R : IsTool(res[i]) /\ ~ HasCalls(res[i]) /\ res[i].round = q[L].round /\ res[i].n = i
    BY RowFacts DEF Lists
  <1>4. \A i \in 1..N : ~ IsTool(notes[i]) /\ ~ HasCalls(notes[i])
    BY DEF IsTool, HasCalls
  <1> HIDE DEF p, L, R, N
  <1>5. ASSUME NEW i \in 1..Len(p)
        PROVE  \/ i \in 1..(L - 1) /\ i \in 1..L
               \/ i = L /\ i \in 1..L
               \/ i - L \in 1..R /\ L + (i - L) = i
               \/ i - L - R \in 1..N /\ L + R + (i - L - R) = i
    BY <1>1, <1>2
  <1>6. ASSUME NEW j \in 1..Len(p), HasCalls(p[j]), NEW k \in 1..p[j].n
        PROVE  j + k <= Len(p) /\ IsTool(p[j + k]) /\ p[j + k].round = p[j].round /\ p[j + k].n = k
    <2>1. CASE j \in 1..(L - 1) /\ j \in 1..L
      <3>1. p[j] = q[j] /\ q[j].n \in Nat
        BY <1>1, <2>1, RowFacts DEF Lists, L
      <3>2. j + k <= L - 1 /\ IsTool(q[j + k]) /\ q[j + k].round = q[j].round /\ q[j + k].n = k
        BY <1>2, <1>6, <2>1, <3>1 DEF FormedTo
      <3>3. j + k \in 1..L /\ j + k <= Len(p)
        BY <1>1, <2>1, <3>1, <3>2
      <3> QED
        BY <1>1, <3>1, <3>2, <3>3
    <2>2. CASE j = L /\ j \in 1..L
      <3>1. k \in 1..R /\ p[j] = q[L] /\ j + k = L + k /\ L + k <= Len(p)
        BY <1>1, <1>2, <2>2
      <3> QED
        BY <1>1, <1>3, <3>1
    <2>3. CASE j - L \in 1..R /\ L + (j - L) = j
      BY <1>1, <1>3, <1>6, <2>3
    <2>4. CASE j - L - R \in 1..N /\ L + R + (j - L - R) = j
      BY <1>1, <1>4, <1>6, <2>4
    <2> QED
      BY <1>5, <2>1, <2>2, <2>3, <2>4
  <1>7. ASSUME NEW i \in 1..Len(p), IsTool(p[i])
        PROVE  \E j \in 1..(i - 1) : HasCalls(p[j]) /\ i - j <= p[j].n
    <2>1. CASE i \in 1..(L - 1) /\ i \in 1..L
      <3>1. PICK j \in 1..(i - 1) : HasCalls(q[j]) /\ i - j <= q[j].n
        BY <1>1, <1>2, <1>7, <2>1 DEF FormedTo
      <3>2. j \in 1..L
        BY <2>1, <1>1
      <3> QED
        BY <1>1, <3>1, <3>2
    <2>2. CASE i = L /\ i \in 1..L
      <3>1. q[L] \in RowKinds
        BY <2>2 DEF Lists, L
      <3> QED
        BY <1>1, <1>2, <1>7, <2>2, <3>1, RowFacts
    <2>3. CASE i - L \in 1..R /\ L + (i - L) = i
      <3>1. L \in 1..(i - 1) /\ L \in 1..L /\ i - L <= R
        BY <1>1, <1>2, <2>3
      <3> QED
        BY <1>1, <1>2, <3>1
    <2>4. CASE i - L - R \in 1..N /\ L + R + (i - L - R) = i
      BY <1>1, <1>4, <1>7, <2>4
    <2> QED
      BY <1>5, <2>1, <2>2, <2>3, <2>4
  <1>8. FormedTo(p, Len(p))
    BY <1>6, <1>7 DEF FormedTo
  <1>9. WellFormed(p)
    BY <1>1, <1>8, WellFormedIs
  <1> QED
    BY <1>1, <1>9 DEF p

\* What a nested loop inherits of a list whose last row has the calls under way: the rows from
\* the first one on that is no answer, and the calls at least.
LEMMA InheritedIs ==
    ASSUME NEW q \in Lists, Pending(q)
    PROVE  \E a : /\ Rest(WithoutOrphans(LastRows(q)), q, a) /\ a <= Len(q) /\ ~ IsTool(q[a])
                  /\ WithoutOrphans(LastRows(q)) \in Lists
  <1> DEFINE s == IF Len(q) > InheritCap THEN Len(q) - InheritCap + 1 ELSE 1
             p == LastRows(q)
             heads == {i \in DOMAIN p : ~ IsTool(p[i])}
             c == CHOOSE i \in heads : \A k \in heads : i <= k
             r == WithoutOrphans(p)
  <1>1. Len(q) \in Nat /\ Len(q) > 0 /\ HasCalls(q[Len(q)]) /\ q[Len(q)] \in RowKinds
    BY DEF Pending, Lists
  <1>2. ~ IsTool(q[Len(q)])
    BY <1>1, RowFacts
  <1>3. s \in 1..Len(q) /\ s \in 1..(Len(q) + 1)
    BY <1>1, RunTurnAssumption
  <1>4. p \in Lists /\ Rest(p, q, s)
    BY <1>3, RestIs DEF LastRows
  <1> HIDE DEF s, p
  <1>5. /\ Len(p) = Len(q) - s + 1 /\ Len(p) \in Nat /\ DOMAIN p = 1..Len(p)
        /\ \A i \in 1..Len(p) : p[i] = q[s + i - 1]
    BY <1>4 DEF Rest, Lists
  <1>6. Len(p) \in heads
    <2>1. Len(p) \in 1..Len(p) /\ s + Len(p) - 1 = Len(q)
      BY <1>1, <1>3, <1>5
    <2> QED
      BY <1>2, <1>5, <2>1
  <1>7. c \in heads
    <2>1. heads \in SUBSET Nat /\ heads # {}
      BY <1>5, <1>6
    <2>2. \E i \in heads : \A k \in heads : i <= k
      BY <2>1, LeastNatural
    <2> QED
      BY <2>2
  <1>8. r = SubSeq(p, c, Len(p))
    BY <1>6 DEF WithoutOrphans
  <1>9. c \in 1..Len(p) /\ c \in 1..(Len(p) + 1) /\ ~ IsTool(p[c])
    BY <1>5, <1>7
  <1> HIDE DEF c, r, heads
  <1>10. r \in Lists /\ Rest(r, p, c)
    BY <1>4, <1>8, <1>9, RestIs
  <1> DEFINE a == s + c - 1
  <1>11. a \in 1..Len(q) /\ a \in 1..(Len(q) + 1) /\ ~ IsTool(q[a])
    BY <1>1, <1>3, <1>5, <1>9
  <1>12. Len(r) = Len(q) - a + 1
    BY <1>1, <1>3, <1>5, <1>9, <1>10 DEF Rest
  <1>13. \A i \in 1..Len(r) : r[i] = q[a + i - 1]
    <2> SUFFICES ASSUME NEW i \in 1..Len(r) PROVE r[i] = q[a + i - 1]
      OBVIOUS
    <2>1. c + i - 1 \in 1..Len(p) /\ s + (c + i - 1) - 1 = a + i - 1
      <3>1. Len(r) = Len(p) - c + 1
        BY <1>10 DEF Rest
      <3> QED
        BY <1>1, <1>3, <1>5, <1>9, <3>1
    <2>2. r[i] = p[c + i - 1]
      BY <1>10 DEF Rest
    <2> QED
      BY <1>5, <2>1, <2>2
  <1>14. Rest(r, q, a)
    BY <1>11, <1>12, <1>13 DEF Rest
  <1> QED
    BY <1>10, <1>11, <1>14 DEF r, p

\* It ends in the same calls, and is well formed before them.
LEMMA InheritedPends ==
    ASSUME NEW q \in Lists, Pending(q), NEW p \in Lists, NEW a, Rest(p, q, a), a <= Len(q), ~ IsTool(q[a])
    PROVE  Pending(p)
  <1>1. /\ Len(q) \in Nat /\ Len(q) > 0 /\ HasCalls(q[Len(q)]) /\ FormedTo(q, Len(q) - 1)
        /\ a \in 1..Len(q) /\ Len(p) = Len(q) - a + 1
    BY DEF Pending, Lists, Rest
  <1>2. ASSUME NEW i \in a..(Len(q) - 1), NEW j \in 1..(a - 1), IsTool(q[i]), HasCalls(q[j])
        PROVE  i - j > q[j].n
    <2>1. j \in 1..(Len(q) - 1) /\ j \in 1..Len(q) /\ q[j].n \in Nat
      BY <1>1, RowFacts DEF Lists
    <2>2. ASSUME i - j <= q[j].n PROVE FALSE
      <3>1. a - j \in 1..q[j].n /\ j + (a - j) = a
        BY <1>1, <2>1, <2>2
      <3>2. IsTool(q[j + (a - j)])
        BY <1>1, <1>2, <2>1, <3>1 DEF FormedTo
      <3> QED
        BY <3>1, <3>2
    <2> QED
      BY <1>1, <2>1, <2>2
  <1>3. /\ Len(q) - 1 \in Nat /\ Len(q) - 1 <= Len(q) /\ a <= (Len(q) - 1) + 1
        /\ (Len(q) - 1) - a + 1 = Len(p) - 1
    BY <1>1
  <1>4. FormedTo(p, Len(p) - 1)
    BY <1>1, <1>2, <1>3, RestFormed
  <1>5. Len(p) \in 1..Len(p) /\ a + Len(p) - 1 = Len(q)
    BY <1>1
  <1>6. p[Len(p)] = q[Len(q)]
    BY <1>5 DEF Rest
  <1> QED
    BY <1>1, <1>4, <1>5, <1>6 DEF Pending

\* The last row of a list that is no answer.
LEMMA LastHead ==
    ASSUME NEW q \in Lists, NEW h \in 1..Len(q), ~ IsTool(q[h]), \A i \in (h + 1)..Len(q) : IsTool(q[i])
    PROVE  LET heads == {i \in DOMAIN q : ~ IsTool(q[i])}
           IN  heads # {} /\ (CHOOSE i \in heads : \A k \in heads : k <= i) = h
  <1> DEFINE heads == {i \in DOMAIN q : ~ IsTool(q[i])}
  <1>1. DOMAIN q = 1..Len(q) /\ Len(q) \in Nat
    BY DEF Lists
  <1>2. h \in heads /\ \A k \in heads : k \in Nat /\ k <= h
    BY <1>1
  <1> HIDE DEF heads
  <1>3. \A i \in heads : (\A k \in heads : k <= i) => i = h
    BY <1>2
  <1>4. (CHOOSE i \in heads : \A k \in heads : k <= i) = h
    BY <1>2, <1>3
  <1> QED
    BY <1>2, <1>4 DEF heads

\* Calls that nothing answers are cut off.
LEMMA PendingIsCut ==
    ASSUME NEW q \in Lists, Pending(q)
    PROVE  KeptLen(q) = Len(q) - 1
  <1>1. Len(q) \in Nat /\ Len(q) \in 1..Len(q) /\ HasCalls(q[Len(q)]) /\ q[Len(q)] \in RowKinds
    BY DEF Pending, Lists
  <1>2. ~ IsTool(q[Len(q)]) /\ q[Len(q)].n \in Nat /\ q[Len(q)].n > 0
    BY <1>1, RowFacts
  <1> DEFINE heads == {i \in DOMAIN q : ~ IsTool(q[i])}
             a == CHOOSE i \in heads : \A k \in heads : k <= i
  <1>3. heads # {} /\ a = Len(q)
    BY <1>1, <1>2, LastHead
  <1> HIDE DEF heads, a
  <1>4. Len(q) - a # q[a].n /\ HasCalls(q[a]) /\ a - 1 = Len(q) - 1
    BY <1>1, <1>2, <1>3
  <1> QED
    BY <1>3, <1>4 DEF KeptLen, heads, a

\* A well-formed list is kept whole.
LEMMA FormedIsKept ==
    ASSUME NEW q \in Lists, WellFormed(q)
    PROVE  KeptLen(q) = Len(q)
  <1> DEFINE heads == {i \in DOMAIN q : ~ IsTool(q[i])}
             a == CHOOSE i \in heads : \A k \in heads : k <= i
             answered == {<<q[a + k].round, q[a + k].n>> : k \in 1..(Len(q) - a)}
  <1>1. Len(q) \in Nat /\ DOMAIN q = 1..Len(q) /\ FormedTo(q, Len(q))
    BY WellFormedIs DEF Lists
  <1>2. \A j \in 1..Len(q) : q[j].n \in Nat
    BY RowFacts DEF Lists
  <1>3. CASE heads = {}
    <2>1. ASSUME Len(q) # 0 PROVE FALSE
      <3>1. 1 \in 1..Len(q) /\ IsTool(q[1])
        BY <1>1, <1>3, <2>1
      <3>2. \E j \in 1..(1 - 1) : HasCalls(q[j]) /\ 1 - j <= q[j].n
        BY <1>1, <3>1 DEF FormedTo
      <3> QED
        BY <3>2
    <2> QED
      BY <1>3, <2>1 DEF KeptLen
  <1>4. CASE heads # {}
    <2>1. PICK h \in heads : \A k \in heads : k <= h
      <3> DEFINE S == {Len(q) - i : i \in heads}
      <3>1. S \in SUBSET Nat /\ S # {}
        BY <1>1, <1>4
      <3>2. PICK s \in S : \A t \in S : s <= t
        BY <3>1, LeastNatural
      <3>3. PICK h \in heads : s = Len(q) - h
        BY <3>2
      <3>4. \A k \in heads : Len(q) - h <= Len(q) - k /\ k \in Nat
        BY <1>1, <3>2, <3>3
      <3>5. \A k \in heads : k <= h
        BY <1>1, <3>3, <3>4
      <3> QED
        BY <3>5
    <2>2. h \in 1..Len(q) /\ ~ IsTool(q[h]) /\ \A i \in (h + 1)..Len(q) : IsTool(q[i])
      <3>1. h \in 1..Len(q) /\ ~ IsTool(q[h])
        BY <1>1, <2>1
      <3>2. ASSUME NEW i \in (h + 1)..Len(q), ~ IsTool(q[i]) PROVE FALSE
        <4>1. i \in heads
          BY <1>1, <3>1, <3>2
        <4> QED
          BY <2>1, <3>1, <3>2, <4>1
      <3> QED
        BY <3>1, <3>2
    <2>3. a = h
      BY <2>2, LastHead
    <2> HIDE DEF heads, a
    <2>4. ASSUME NEW i \in (h + 1)..Len(q) PROVE HasCalls(q[h]) /\ i - h <= q[h].n
      <3>1. i \in 1..Len(q) /\ IsTool(q[i])
        BY <2>2
      <3>2. PICK j \in 1..(i - 1) : HasCalls(q[j]) /\ i - j <= q[j].n
        BY <1>1, <3>1 DEF FormedTo
      <3>3. j \in 1..Len(q) /\ q[j] \in RowKinds /\ q[j].n \in Nat /\ ~ IsTool(q[j])
        <4>1. j \in 1..Len(q)
          BY <3>1, <3>2
        <4>2. q[j] \in RowKinds
          BY <4>1 DEF Lists
        <4> QED
          BY <3>2, <4>1, <4>2, RowFacts
      <3>4. j <= h
        BY <2>2, <3>3
      <3>5. CASE j < h
        <4>1. h - j \in 1..q[j].n /\ j + (h - j) = h
          BY <2>2, <3>2, <3>3, <3>5
        <4>2. IsTool(q[j + (h - j)])
          BY <1>1, <3>2, <3>3, <4>1 DEF FormedTo
        <4> QED
          BY <2>2, <4>1, <4>2
      <3> QED
        BY <2>2, <3>2, <3>3, <3>4, <3>5
    <2>5. CASE ~ HasCalls(q[h])
      <3>1. h = Len(q)
        <4>1. ASSUME h # Len(q) PROVE FALSE
          <5>1. h \in 1..Len(q)
            BY <2>2
          <5>2. Len(q) \in Nat
            BY <1>1
          <5>3. Len(q) \in (h + 1)..Len(q)
            BY <4>1, <5>1, <5>2
          <5> QED
            BY <2>4, <2>5, <5>3
        <4> QED
          BY <4>1
      <3>2. KeptLen(q) = a
        BY <1>4, <2>3, <2>5 DEF KeptLen, heads, a
      <3> QED
        BY <2>3, <3>1, <3>2
    <2>6. CASE HasCalls(q[h])
      <3>1. q[h].n \in Nat /\ \A k \in 1..q[h].n : h + k <= Len(q) /\ q[h + k].round = q[h].round /\ q[h + k].n = k
        BY <1>1, <1>2, <2>2, <2>6 DEF FormedTo
      <3>2. q[h].n > 0
        BY <2>6 DEF HasCalls
      <3>3. Len(q) - h = q[h].n
        <4>1. h + q[h].n <= Len(q)
          BY <3>1, <3>2
        <4>2. ASSUME Len(q) - h > q[h].n PROVE FALSE
          <5>1. Len(q) \in (h + 1)..Len(q)
            BY <1>1, <2>2, <3>1, <4>2
          <5> QED
            BY <1>1, <2>2, <2>4, <3>1, <4>2, <5>1
        <4> QED
          BY <1>1, <2>2, <3>1, <4>1, <4>2
      <3>4. answered = {q[h].round} \X (1..q[h].n)
        <4>1. answered = {<<q[h + k].round, q[h + k].n>> : k \in 1..q[h].n}
          BY <2>3, <3>3
        <4>2. \A k \in 1..q[h].n : <<q[h + k].round, q[h + k].n>> = <<q[h].round, k>>
          BY <3>1
        <4> QED
          BY <4>1, <4>2
      <3> HIDE DEF answered
      <3>5. HasCalls(q[a]) /\ Len(q) - a = q[a].n /\ answered = {q[a].round} \X (1..q[a].n)
        BY <2>3, <2>6, <3>3, <3>4
      <3> QED
        BY <1>4, <3>5 DEF KeptLen, heads, a, answered
    <2> QED
      BY <2>5, <2>6
  <1> QED
    BY <1>3, <1>4

\* What is cut off leaves a well-formed list.
LEMMA CutFormed ==
    ASSUME NEW q \in Lists, Pending(q)
    PROVE  /\ SubSeq(q, 1, Len(q) - 1) \in Lists /\ WellFormed(SubSeq(q, 1, Len(q) - 1))
           /\ Len(SubSeq(q, 1, Len(q) - 1)) = Len(q) - 1
           /\ \A i \in 1..(Len(q) - 1) : SubSeq(q, 1, Len(q) - 1)[i] = q[i]
  <1> DEFINE p == SubSeq(q, 1, Len(q) - 1)
  <1>1. Len(q) \in Nat /\ Len(q) > 0 /\ FormedTo(q, Len(q) - 1)
    BY DEF Pending, Lists
  <1>2. p \in Lists /\ Len(p) = Len(q) - 1 /\ \A i \in 1..(Len(q) - 1) : p[i] = q[i]
    <2> DEFINE m == Len(q) - 1
    <2>1. m \in Nat /\ 1..m \subseteq 1..Len(q)
      BY <1>1
    <2> HIDE DEF m
    <2>2. q \in Seq(RowKinds) /\ \A i \in 1..m : q[i] \in RowKinds
      BY <2>1 DEF Lists
    <2>3. SubSeq(q, 1, m) \in Seq(RowKinds)
      BY <2>1, <2>2
    <2>4. Len(SubSeq(q, 1, m)) = m
      BY <2>1, <2>2
    <2>5. \A i \in 1..m : SubSeq(q, 1, m)[i] = q[i]
      BY <2>1, <2>2
    <2> QED
      BY <2>3, <2>4, <2>5 DEF m, Lists
  <1> HIDE DEF p
  <1>3. FormedTo(p, Len(p))
    BY <1>1, <1>2, FormedAlike
  <1>4. WellFormed(p)
    BY <1>2, <1>3, WellFormedIs
  <1> QED
    BY <1>2, <1>4 DEF p

-----------------------------------------------------------------------------
(* The notes.                                                              *)

\* A reply has its note behind it, before the next answer of the model.
Noted(ms) ==
    MergeAsUser => \A i \in 1..Len(ms) : ms[i].role = "reply" =>
        \E k \in (i + 1)..Len(ms) : /\ ms[k] = Row("note", ms[i].round, ms[i].n)
                                    /\ \A m \in i..k : ms[m].role # "assistant"

\* No note is there twice.
NotesOnce(ms) ==
    \A k, m \in 1..Len(ms) : ms[k].role = "note" /\ ms[m] = ms[k] => m = k

\* A note in the list of depth d is of an earlier step of it, or was inherited from the session.
NotesFrom(ms, d, s) ==
    \A k \in 1..Len(ms) : ms[k].role = "note" =>
        \E e \in {0, d}, t \in Nat : ms[k].round = <<e, t>> /\ (e = d => t < s)

NotesAreIn(ms, d, s) == Noted(ms) /\ NotesOnce(ms) /\ NotesFrom(ms, d, s)

\* Rows of users and of the model change nothing.
LEMMA AppendNotes ==
    ASSUME NEW q \in Lists, NEW r \in RowKinds, r.role \in {"user", "assistant"},
           NEW d, NEW s, NotesAreIn(q, d, s)
    PROVE  NotesAreIn(Append(q, r), d, s)
  <1> DEFINE p == Append(q, r)
  <1>1. p \in Lists /\ Len(p) = Len(q) + 1 /\ Len(q) \in Nat /\ p[Len(q) + 1] = r
        /\ \A i \in 1..Len(q) : p[i] = q[i]
    BY DEF Lists
  <1> HIDE DEF p
  <1>2. ASSUME NEW i \in 1..Len(p), p[i].role \in {"reply", "note"} PROVE i \in 1..Len(q)
    BY <1>1, <1>2
  <1>3. Noted(p)
    <2> SUFFICES ASSUME MergeAsUser, NEW i \in 1..Len(p), p[i].role = "reply"
                 PROVE  \E k \in (i + 1)..Len(p) : /\ p[k] = Row("note", p[i].round, p[i].n)
                                                   /\ \A m \in i..k : p[m].role # "assistant"
      BY DEF Noted
    <2>1. i \in 1..Len(q) /\ p[i] = q[i]
      BY <1>1, <1>2
    <2>2. PICK k \in (i + 1)..Len(q) : /\ q[k] = Row("note", p[i].round, p[i].n)
                                       /\ \A m \in i..k : q[m].role # "assistant"
      BY <2>1 DEF NotesAreIn, Noted
    <2>3. k \in (i + 1)..Len(p) /\ k \in 1..Len(q) /\ \A m \in i..k : m \in 1..Len(q)
      BY <1>1, <2>1
    <2> QED
      BY <1>1, <2>2, <2>3
  <1>4. NotesOnce(p)
    <2> SUFFICES ASSUME NEW k \in 1..Len(p), NEW m \in 1..Len(p), p[k].role = "note", p[m] = p[k]
                 PROVE  m = k
      BY DEF NotesOnce
    <2>1. k \in 1..Len(q) /\ m \in 1..Len(q)
      BY <1>2
    <2> QED
      BY <1>1, <2>1 DEF NotesAreIn, NotesOnce
  <1>5. NotesFrom(p, d, s)
    BY <1>1, <1>2 DEF NotesAreIn, NotesFrom
  <1> QED
    BY <1>3, <1>4, <1>5 DEF NotesAreIn, p

\* Nor does the compact's row in front.
LEMMA ConsNotes ==
    ASSUME NEW q \in Lists, NEW d, NEW s, NotesAreIn(q, d, s)
    PROVE  NotesAreIn(<<UserRow>> \o q, d, s)
  <1> DEFINE p == <<UserRow>> \o q
  <1>1. UserRow \in RowKinds /\ UserRow.role = "user"
    BY DEF UserRow, Row, RowKinds, Rounds
  <1>2. p \in Lists /\ Len(p) = Len(q) + 1 /\ Len(q) \in Nat /\ p[1] = UserRow
        /\ \A i \in 1..Len(q) : p[i + 1] = q[i]
    BY <1>1 DEF Lists
  <1> HIDE DEF p
  <1>3. ASSUME NEW i \in 1..Len(p), i # 1 \/ p[i].role \in {"reply", "note"}
        PROVE  i - 1 \in 1..Len(q) /\ p[i] = q[i - 1]
    <2>1. i # 1
      BY <1>1, <1>2, <1>3
    <2>2. i - 1 \in 1..Len(q) /\ (i - 1) + 1 = i
      BY <1>2, <2>1
    <2> QED
      BY <1>2, <2>2
  <1>4. Noted(p)
    <2> SUFFICES ASSUME MergeAsUser, NEW i \in 1..Len(p), p[i].role = "reply"
                 PROVE  \E k \in (i + 1)..Len(p) : /\ p[k] = Row("note", p[i].round, p[i].n)
                                                   /\ \A m \in i..k : p[m].role # "assistant"
      BY DEF Noted
    <2>1. i - 1 \in 1..Len(q) /\ p[i] = q[i - 1]
      BY <1>3
    <2>2. PICK k \in ((i - 1) + 1)..Len(q) : /\ q[k] = Row("note", p[i].round, p[i].n)
                                             /\ \A m \in (i - 1)..k : q[m].role # "assistant"
      BY <2>1 DEF NotesAreIn, Noted
    <2>3. k + 1 \in (i + 1)..Len(p) /\ k \in 1..Len(q) /\ k + 1 \in Nat
      BY <1>2, <2>1
    <2>4. ASSUME NEW m \in i..(k + 1) PROVE p[m].role # "assistant"
      <3>1. m \in 1..Len(p) /\ m # 1 /\ m - 1 \in (i - 1)..k
        BY <1>2, <2>1, <2>3
      <3> QED
        BY <1>3, <2>2, <3>1
    <2> QED
      BY <1>2, <2>2, <2>3, <2>4
  <1>5. NotesOnce(p)
    <2> SUFFICES ASSUME NEW k \in 1..Len(p), NEW m \in 1..Len(p), p[k].role = "note", p[m] = p[k]
                 PROVE  m = k
      BY DEF NotesOnce
    <2>1. k - 1 \in 1..Len(q) /\ m - 1 \in 1..Len(q) /\ p[k] = q[k - 1] /\ p[m] = q[m - 1]
      BY <1>3
    <2>2. m - 1 = k - 1
      BY <2>1 DEF NotesAreIn, NotesOnce
    <2> QED
      BY <2>2
  <1>6. NotesFrom(p, d, s)
    <2> SUFFICES ASSUME NEW k \in 1..Len(p), p[k].role = "note"
                 PROVE  \E e \in {0, d}, t \in Nat : p[k].round = <<e, t>> /\ (e = d => t < s)
      BY DEF NotesFrom
    <2>1. k - 1 \in 1..Len(q) /\ p[k] = q[k - 1]
      BY <1>3
    <2> QED
      BY <2>1 DEF NotesAreIn, NotesFrom
  <1> QED
    BY <1>4, <1>5, <1>6 DEF NotesAreIn, p

\* A note stays with its reply when the front of the list goes.
LEMMA RestNotes ==
    ASSUME NEW q \in Lists, NEW p \in Lists, NEW a, Rest(p, q, a), Noted(q), NotesOnce(q)
    PROVE  /\ Noted(p) /\ NotesOnce(p)
           /\ \A d, s : NotesFrom(q, d, s) => NotesFrom(p, d, s)
  <1>1. Len(q) \in Nat /\ a \in Nat /\ a \in 1..(Len(q) + 1) /\ Len(p) = Len(q) - a + 1 /\ Len(p) \in Nat
    BY DEF Lists, Rest
  <1>2. ASSUME NEW i \in 1..Len(p) PROVE a + i - 1 \in 1..Len(q) /\ p[i] = q[a + i - 1]
    BY <1>1 DEF Rest
  <1>3. Noted(p)
    <2> SUFFICES ASSUME MergeAsUser, NEW i \in 1..Len(p), p[i].role = "reply"
                 PROVE  \E k \in (i + 1)..Len(p) : /\ p[k] = Row("note", p[i].round, p[i].n)
                                                   /\ \A m \in i..k : p[m].role # "assistant"
      BY DEF Noted
    <2>1. a + i - 1 \in 1..Len(q) /\ p[i] = q[a + i - 1]
      BY <1>2
    <2>2. PICK k \in ((a + i - 1) + 1)..Len(q) : /\ q[k] = Row("note", p[i].round, p[i].n)
                                                 /\ \A m \in (a + i - 1)..k : q[m].role # "assistant"
      BY <2>1 DEF Noted
    <2>3. k - a + 1 \in (i + 1)..Len(p) /\ k - a + 1 \in 1..Len(p) /\ a + (k - a + 1) - 1 = k
      BY <1>1, <2>1
    <2>4. ASSUME NEW m \in i..(k - a + 1) PROVE p[m].role # "assistant"
      <3>1. m \in 1..Len(p) /\ a + m - 1 \in (a + i - 1)..k
        BY <1>1, <2>3
      <3> QED
        BY <1>2, <2>2, <3>1
    <2>5. p[k - a + 1] = q[k]
      BY <1>2, <2>3
    <2> QED
      BY <2>2, <2>3, <2>4, <2>5
  <1>4. NotesOnce(p)
    <2> SUFFICES ASSUME NEW k \in 1..Len(p), NEW m \in 1..Len(p), p[k].role = "note", p[m] = p[k]
                 PROVE  m = k
      BY DEF NotesOnce
    <2>1. a + m - 1 = a + k - 1
      BY <1>2 DEF NotesOnce
    <2> QED
      BY <1>1, <2>1
  <1>5. ASSUME NEW d, NEW s, NotesFrom(q, d, s) PROVE NotesFrom(p, d, s)
    BY <1>2, <1>5 DEF NotesFrom
  <1> QED
    BY <1>3, <1>4, <1>5

\* Calls that are cut off take no note with them.
LEMMA CutNotes ==
    ASSUME NEW q \in Lists, NEW p \in Lists, Len(p) = Len(q) - 1, \A i \in 1..(Len(q) - 1) : p[i] = q[i],
           q[Len(q)].role = "assistant", NEW d, NEW s, NotesAreIn(q, d, s)
    PROVE  NotesAreIn(p, d, s)
  <1>1. Len(q) \in Nat /\ Len(p) \in Nat /\ \A i \in 1..Len(p) : i \in 1..Len(q) /\ p[i] = q[i]
    BY DEF Lists
  <1>2. Noted(p)
    <2> SUFFICES ASSUME MergeAsUser, NEW i \in 1..Len(p), p[i].role = "reply"
                 PROVE  \E k \in (i + 1)..Len(p) : /\ p[k] = Row("note", p[i].round, p[i].n)
                                                   /\ \A m \in i..k : p[m].role # "assistant"
      BY DEF Noted
    <2>1. i \in 1..Len(q) /\ p[i] = q[i]
      BY <1>1
    <2>2. PICK k \in (i + 1)..Len(q) : /\ q[k] = Row("note", p[i].round, p[i].n)
                                       /\ \A m \in i..k : q[m].role # "assistant"
      BY <2>1 DEF NotesAreIn, Noted
    <2>3. k # Len(q)
      BY <2>2 DEF Row
    <2>4. k \in (i + 1)..Len(p) /\ \A m \in i..k : m \in 1..Len(p)
      BY <1>1, <2>3
    <2> QED
      BY <1>1, <2>2, <2>4
  <1>3. NotesOnce(p) /\ NotesFrom(p, d, s)
    BY <1>1 DEF NotesAreIn, NotesOnce, NotesFrom
  <1> QED
    BY <1>2, <1>3 DEF NotesAreIn

\* A batch brings a note behind each reply, and no note that was there before.
LEMMA BatchNotes ==
    ASSUME NEW q \in Lists, NEW res \in Lists, NEW notes \in Lists,
           NEW d \in Nat, NEW s \in Nat, NotesAreIn(q, d, s),
           \A i \in 1..Len(res) : IsTool(res[i]) /\ res[i].round = <<d, s>> /\ res[i].n = i,
           \A i \in 1..Len(notes) : notes[i].role = "note" /\ notes[i].round = <<d, s>>,
           \A i, k \in 1..Len(notes) : notes[i] = notes[k] => i = k,
           MergeAsUser => \A i \in 1..Len(res) : res[i].role = "reply" =>
               \E k \in 1..Len(notes) : notes[k] = Row("note", <<d, s>>, i)
    PROVE  NotesAreIn(q \o res \o notes, d, s + 1)
  <1> DEFINE p == q \o res \o notes
             L == Len(q)
             R == Len(res)
             N == Len(notes)
  <1>1. /\ p \in Lists /\ Len(p) = L + R + N /\ L \in Nat /\ R \in Nat /\ N \in Nat
        /\ \A i \in 1..L : p[i] = q[i]
        /\ \A i \in 1..R : p[L + i] = res[i]
        /\ \A i \in 1..N : p[L + R + i] = notes[i]
    BY DEF Lists
  <1>2. \A i \in 1..R : res[i].role \in {"tool", "reply"} /\ res[i].round = <<d, s>> /\ res[i].n = i
    BY DEF IsTool
  <1>3. \A i \in 1..N : notes[i].role = "note" /\ notes[i].round = <<d, s>>
    OBVIOUS
  <1>4. /\ \A i, k \in 1..N : notes[i] = notes[k] => i = k
        /\ MergeAsUser => \A i \in 1..R : res[i].role = "reply" =>
               \E k \in 1..N : notes[k] = Row("note", <<d, s>>, i)
    OBVIOUS
  <1>5. \A i \in 1..L, k \in 1..N : q[i] # notes[k]
    <2> SUFFICES ASSUME NEW i \in 1..L, NEW k \in 1..N, q[i] = notes[k] PROVE FALSE
      OBVIOUS
    <2>1. q[i].role = "note" /\ q[i].round = <<d, s>>
      BY <1>3
    <2>2. PICK e \in {0, d}, t \in Nat : q[i].round = <<e, t>> /\ (e = d => t < s)
      BY <2>1 DEF NotesAreIn, NotesFrom
    <2> QED
      BY <2>1, <2>2
  <1>6. Noted(q) /\ NotesOnce(q) /\ NotesFrom(q, d, s)
    BY DEF NotesAreIn
  <1> HIDE DEF p, L, R, N
  <1>7. ASSUME NEW i \in 1..Len(p)
        PROVE  \/ i \in 1..L
               \/ i - L \in 1..R /\ L + (i - L) = i
               \/ i - L - R \in 1..N /\ L + R + (i - L - R) = i
    BY <1>1
  <1>8. Noted(p)
    <2> SUFFICES ASSUME MergeAsUser, NEW i \in 1..Len(p), p[i].role = "reply"
                 PROVE  \E k \in (i + 1)..Len(p) : /\ p[k] = Row("note", p[i].round, p[i].n)
                                                   /\ \A m \in i..k : p[m].role # "assistant"
      BY DEF Noted
    <2>1. CASE i \in 1..L
      <3>1. p[i] = q[i]
        BY <1>1, <2>1
      <3>2. PICK k \in (i + 1)..L : /\ q[k] = Row("note", p[i].round, p[i].n)
                                    /\ \A m \in i..k : q[m].role # "assistant"
        BY <1>6, <2>1, <3>1 DEF Noted, L
      <3>3. k \in (i + 1)..Len(p) /\ k \in 1..L /\ \A m \in i..k : m \in 1..L
        BY <1>1, <2>1
      <3> QED
        BY <1>1, <3>2, <3>3
    <2>2. CASE i - L \in 1..R /\ L + (i - L) = i
      <3>1. p[i] = res[i - L]
        BY <1>1, <2>2
      <3>2. PICK k \in 1..N : notes[k] = Row("note", <<d, s>>, i - L)
        BY <1>4, <2>2, <3>1
      <3>3. p[L + R + k] = Row("note", p[i].round, p[i].n)
        <4>1. p[i].round = <<d, s>> /\ p[i].n = i - L
          BY <1>2, <2>2, <3>1
        <4>2. p[L + R + k] = notes[k]
          BY <1>1
        <4> QED
          BY <3>2, <4>1, <4>2
      <3>4. ASSUME NEW m \in i..(L + R + k) PROVE p[m].role # "assistant"
        <4>1. m \in 1..Len(p) /\ m \notin 1..L
          BY <1>1, <2>2
        <4>2. CASE m - L \in 1..R /\ L + (m - L) = m
          <5>1. p[L + (m - L)] = res[m - L]
            BY <1>1, <4>2
          <5>2. p[m] = res[m - L] /\ res[m - L].role \in {"tool", "reply"}
            BY <1>2, <4>2, <5>1
          <5> QED
            BY <5>2
        <4>3. CASE m - L - R \in 1..N /\ L + R + (m - L - R) = m
          BY <1>1, <1>3, <4>3
        <4> QED
          BY <1>7, <4>1, <4>2, <4>3
      <3>5. L + R + k \in (i + 1)..Len(p)
        BY <1>1, <2>2
      <3> QED
        BY <3>3, <3>4, <3>5
    <2>3. CASE i - L - R \in 1..N /\ L + R + (i - L - R) = i
      BY <1>1, <1>3, <2>3
    <2> QED
      BY <1>7, <2>1, <2>2, <2>3
  <1>9. ASSUME NEW k \in 1..Len(p), p[k].role = "note"
        PROVE  \/ k \in 1..L /\ p[k] = q[k]
               \/ k - L - R \in 1..N /\ p[k] = notes[k - L - R]
    <2>1. CASE k - L \in 1..R /\ L + (k - L) = k
      <3>1. p[L + (k - L)] = res[k - L]
        BY <1>1, <2>1
      <3>2. p[k] = res[k - L] /\ res[k - L].role \in {"tool", "reply"}
        BY <1>2, <2>1, <3>1
      <3> QED
        BY <1>9, <3>2
    <2>2. CASE k - L - R \in 1..N /\ L + R + (k - L - R) = k
      BY <1>1, <2>2
    <2> QED
      BY <1>1, <1>7, <2>1, <2>2
  <1>10. NotesOnce(p)
    <2> SUFFICES ASSUME NEW k \in 1..Len(p), NEW m \in 1..Len(p), p[k].role = "note", p[m] = p[k]
                 PROVE  m = k
      BY DEF NotesOnce
    <2>1. CASE k \in 1..L /\ p[k] = q[k] /\ m \in 1..L /\ p[m] = q[m]
      BY <1>6, <2>1 DEF NotesOnce, L
    <2>2. CASE k - L - R \in 1..N /\ p[k] = notes[k - L - R] /\ m - L - R \in 1..N /\ p[m] = notes[m - L - R]
      <3>1. k - L - R = m - L - R
        BY <1>4, <2>2
      <3> QED
        BY <1>1, <3>1
    <2> QED
      BY <1>5, <1>9, <2>1, <2>2
  <1>11. NotesFrom(p, d, s + 1)
    <2> SUFFICES ASSUME NEW k \in 1..Len(p), p[k].role = "note"
                 PROVE  \E e \in {0, d}, t \in Nat : p[k].round = <<e, t>> /\ (e = d => t < s + 1)
      BY DEF NotesFrom
    <2>1. CASE k \in 1..L /\ p[k] = q[k]
      <3>1. PICK e \in {0, d}, t \in Nat : p[k].round = <<e, t>> /\ (e = d => t < s)
        BY <1>6, <2>1 DEF NotesFrom, L
      <3> QED
        BY <3>1
    <2>2. CASE k - L - R \in 1..N /\ p[k] = notes[k - L - R]
      <3>1. p[k].round = <<d, s>> /\ s < s + 1
        BY <1>3, <2>2
      <3> QED
        BY <3>1
    <2> QED
      BY <1>9, <2>1, <2>2
  <1> QED
    BY <1>8, <1>10, <1>11 DEF NotesAreIn, p

-----------------------------------------------------------------------------
(* The lists and the batches of a loop.                                    *)

\* The results are of this round, each of the call at its place.
ResultsFit(res, round) ==
    \A i \in 1..Len(res) : res[i] # Missing => IsTool(res[i]) /\ res[i].round = round /\ res[i].n = i

\* What is deferred are notes of this round, one for each reply.
NotesFit(notes, res, round) ==
    /\ \A k \in 1..Len(notes) : \E i \in 1..Len(res) :
           notes[k] = Row("note", round, i) /\ res[i] # Missing
    /\ \A j, k \in 1..Len(notes) : notes[j] = notes[k] => j = k
    /\ MergeAsUser => \A i \in 1..Len(res) : res[i].role = "reply" =>
           \E k \in 1..Len(notes) : notes[k] = Row("note", round, i)

\* The list of a loop, by where the loop is.
ListFits(ms, at, cs, round) ==
    /\ at \in {"budget", "model"} => WellFormed(ms)
    /\ at = "inherit" => WellFormed(ms) \/ Pending(ms)
    /\ at = "tools" => Pending(ms) /\ ms[Len(ms)].round = round /\ ms[Len(ms)].n = Len(cs)

\* A loop d at pc at, in step s.
LoopFits(d, at, s, ms, cs, res, notes) ==
    /\ ms \in Lists /\ notes \in Lists
    /\ ListFits(ms, at, cs, <<d, s>>)
    /\ NotesAreIn(ms, d, s)
    /\ at # "tools" => Len(res) = 0
    /\ ResultsFit(res, <<d, s>>)
    /\ NotesFit(notes, res, <<d, s>>)

\* All loops are in order: what the theorems about the lists need.
ListsInv ==
    /\ DOMAIN deferred = Depths
    /\ \A d \in Depths : LoopFits(d, pc[d], step[d], msgs[d], calls[d], results[d], deferred[d])

\* A list of users and plain answers.
LEMMA PlainFits ==
    ASSUME NEW ms \in Lists, \A i \in 1..Len(ms) : ms[i].role \in {"user", "assistant"} /\ ms[i].n = 0,
           NEW d, NEW s
    PROVE  WellFormed(ms) /\ NotesAreIn(ms, d, s)
  <1>1. \A i \in 1..Len(ms) : ~ HasCalls(ms[i]) /\ ~ IsTool(ms[i])
    BY DEF HasCalls, IsTool
  <1>2. FormedTo(ms, Len(ms))
    BY <1>1 DEF FormedTo
  <1>3. Noted(ms) /\ NotesOnce(ms) /\ NotesFrom(ms, d, s)
    BY DEF Noted, NotesOnce, NotesFrom
  <1> QED
    BY <1>2, <1>3, WellFormedIs DEF NotesAreIn

\* The empty list.
LEMMA EmptyFits ==
    \A d, s : <<>> \in Lists /\ WellFormed(<<>>) /\ NotesAreIn(<<>>, d, s) /\ Len(<<>>) = 0
  <1>1. <<>> \in Lists /\ Len(<<>>) = 0
    BY DEF Lists
  <1> QED
    BY <1>1, PlainFits

\* An empty batch has nothing to fit.
LEMMA EmptyBatch ==
    \A round : ResultsFit(<<>>, round) /\ NotesFit(<<>>, <<>>, round)
  BY DEF ResultsFit, NotesFit

\* A loop that is not among its tools may change its list.
LEMMA NewList ==
    ASSUME NEW d, NEW at, NEW s, NEW ms, NEW cs, NEW res, NEW notes,
           LoopFits(d, at, s, ms, cs, res, notes), at # "tools",
           NEW to, NEW new \in Lists, ListFits(new, to, cs, <<d, s>>), NotesAreIn(new, d, s)
    PROVE  LoopFits(d, to, s, new, cs, res, notes)
  BY DEF LoopFits

\* One loop changes.
LEMMA OneLoop ==
    ASSUME ListsInv, NEW d \in Depths, DOMAIN deferred' = Depths,
           LoopFits(d, pc'[d], step'[d], msgs'[d], calls'[d], results'[d], deferred'[d]),
           \A e \in Depths : e # d =>
               /\ pc'[e] = pc[e] /\ step'[e] = step[e] /\ msgs'[e] = msgs[e]
               /\ calls'[e] = calls[e] /\ results'[e] = results[e] /\ deferred'[e] = deferred[e]
    PROVE  ListsInv'
  <1>1. \A e \in Depths :
            LoopFits(e, pc'[e], step'[e], msgs'[e], calls'[e], results'[e], deferred'[e])
    BY DEF ListsInv
  <1> QED
    BY <1>1 DEF ListsInv

\* The initial state: users and plain answers, and empty lists.
LEMMA ListsInit == Init => ListsInv
  <1> SUFFICES ASSUME Init PROVE ListsInv
    OBVIOUS
  <1>1. PICK h \in Histories : msgs = [d \in Depths |-> IF d = 0 THEN Append(h, UserRow) ELSE <<>>]
    BY DEF Init
  <1> DEFINE first == Append(h, UserRow)
  <1>2. /\ UserRow \in RowKinds /\ UserRow.role = "user" /\ UserRow.n = 0
        /\ Plain \in RowKinds /\ Plain.role = "assistant" /\ Plain.n = 0
    BY DEF UserRow, Plain, Row, RowKinds, Rounds
  <1>3. first \in Lists /\ \A i \in 1..Len(first) : first[i] \in {UserRow, Plain}
    <2>1. h \in Seq({UserRow, Plain})
      BY HistoriesAssumption
    <2>2. first \in Seq({UserRow, Plain})
      BY <2>1
    <2> HIDE DEF first
    <2>3. first \in Seq(RowKinds)
      BY <1>2, <2>2
    <2> QED
      BY <2>2, <2>3 DEF Lists
  <1>4. \A i \in 1..Len(first) : first[i].role \in {"user", "assistant"} /\ first[i].n = 0
    BY <1>2, <1>3
  <1> HIDE DEF first
  <1>5. \A d, s : WellFormed(first) /\ NotesAreIn(first, d, s)
    BY <1>3, <1>4, PlainFits
  <1>6. ASSUME NEW d \in Depths
        PROVE  LoopFits(d, pc[d], step[d], msgs[d], calls[d], results[d], deferred[d])
    <2>1. /\ step[d] = 0 /\ calls[d] = <<>> /\ results[d] = <<>> /\ deferred[d] = <<>>
          /\ pc[d] \in {"budget", "idle"}
          /\ msgs[d] = first \/ msgs[d] = <<>>
      BY <1>1 DEF Init, first
    <2>2. msgs[d] \in Lists /\ WellFormed(msgs[d]) /\ NotesAreIn(msgs[d], d, 0)
      BY <1>3, <1>5, <2>1, EmptyFits
    <2>3. ListFits(msgs[d], pc[d], calls[d], <<d, step[d]>>)
      BY <2>1, <2>2 DEF ListFits
    <2> QED
      BY <2>1, <2>2, <2>3, EmptyFits, EmptyBatch DEF LoopFits
  <1>7. DOMAIN deferred = Depths
    BY DEF Init
  <1> QED
    BY <1>6, <1>7 DEF ListsInv

\* A row of a user or of the model that calls nothing.
LEMMA FreeRows ==
    ASSUME NEW r \in Nat \X Nat
    PROVE  /\ UserRow \in RowKinds /\ ~ HasCalls(UserRow) /\ ~ IsTool(UserRow) /\ UserRow.role = "user"
           /\ Row("assistant", r, 0) \in RowKinds /\ ~ HasCalls(Row("assistant", r, 0))
           /\ ~ IsTool(Row("assistant", r, 0)) /\ Row("assistant", r, 0).role = "assistant"
  <1>1. r \in Rounds
    BY DEF Rounds
  <1> QED
    BY <1>1 DEF UserRow, Row, RowKinds, Rounds, HasCalls, IsTool

\* The steps of a loop outside its tools.
LEMMA OwnLists == ASSUME IInv, ListsInv, NEW d \in Depths, OwnStep(d) PROVE ListsInv'
  <1>1. /\ pc[d] \notin {"idle", "tools"}
        /\ \E new \in PcStates \ {"idle"} : pc' = [pc EXCEPT ![d] = new]
        /\ DOMAIN msgs' = Depths /\ \A e \in Depths : e # d => msgs'[e] = msgs[e]
        /\ UNCHANGED <<step, meta, calls, running, results>>
    BY OwnStepFacts DEF IInv, BatchInv
  <1>2. UNCHANGED deferred
    BY DEF OwnStep, DropOldest, BeginRequest, Cancelled, ModelFails, ModelAnswers, DropTrailing, BeginNested, batch
  <1>3. DOMAIN pc = Depths /\ DOMAIN msgs = Depths /\ step[d] \in Nat /\ d \in Nat
    BY DEF IInv, BatchInv, Shapes, Depths
  <1>4. \A e \in Depths : e # d => pc'[e] = pc[e]
    BY <1>1, <1>3
  <1>5. LoopFits(d, pc[d], step[d], msgs[d], calls[d], results[d], deferred[d])
    BY DEF ListsInv
  <1>6. msgs[d] \in Lists /\ NotesAreIn(msgs[d], d, step[d])
        /\ ListFits(msgs[d], pc[d], calls[d], <<d, step[d]>>)
    BY <1>5 DEF LoopFits
  <1> DEFINE q == msgs[d]
             new == msgs'[d]
             Fits == /\ new \in Lists /\ ListFits(new, pc'[d], calls[d], <<d, step[d]>>)
                     /\ NotesAreIn(new, d, step[d])
  <1>7. ASSUME DropOldest(d) PROVE Fits
    <2>1. pc[d] = "budget" /\ pc'[d] = "budget" /\ CanDrop(q) /\ new = SubSeq(q, DropSize(q) + 1, Len(q))
      BY <1>3, <1>7 DEF DropOldest
    <2>2. WellFormed(q)
      BY <1>6, <2>1 DEF ListFits
    <2>3. DropSize(q) + 1 \in 1..(Len(q) + 1)
      <3>1. Len(q) \in Nat /\ Len(q) >= 1 /\ Head(q) = q[1] /\ q[1] \in RowKinds
        BY <1>6, <2>1 DEF CanDrop, Lists
      <3> QED
        BY <2>1, <3>1, RowFacts DEF CanDrop, DropSize
    <2>4. new \in Lists /\ Rest(new, q, DropSize(q) + 1)
      BY <1>6, <2>1, <2>3, RestIs
    <2>5. WellFormed(new)
      BY <1>6, <2>1, <2>2, <2>4, DroppedFormed
    <2>6. NotesAreIn(new, d, step[d])
      BY <1>6, <2>4, RestNotes DEF NotesAreIn
    <2> QED
      BY <2>1, <2>4, <2>5, <2>6 DEF ListFits
  <1>8. ASSUME BeginRequest(d) PROVE Fits
    <2>1. pc[d] = "budget" /\ pc'[d] = "model" /\ (new = q \/ new = <<UserRow>> \o q)
      BY <1>3, <1>8 DEF BeginRequest, Compacted
    <2>2. WellFormed(q)
      BY <1>6, <2>1 DEF ListFits
    <2>3. new \in Lists /\ WellFormed(new) /\ NotesAreIn(new, d, step[d])
      BY <1>6, <2>1, <2>2, ConsFormed, ConsNotes
    <2> QED
      BY <2>1, <2>3 DEF ListFits
  <1>9. ASSUME Cancelled(d) \/ ModelFails(d) PROVE Fits
    <2>1. pc'[d] = "failed" /\ new = q
      BY <1>3, <1>9 DEF Cancelled, ModelFails
    <2> QED
      BY <1>6, <2>1 DEF ListFits
  <1>10. ASSUME ModelAnswers(d) PROVE Fits
    <2>1. pc[d] = "model" /\ pc'[d] = "done" /\ new = Append(q, Row("assistant", <<d, step[d]>>, 0))
      BY <1>3, <1>10 DEF ModelAnswers, Appended, Round
    <2>2. WellFormed(q)
      BY <1>6, <2>1 DEF ListFits
    <2>3. new \in Lists /\ NotesAreIn(new, d, step[d])
      BY <1>3, <1>6, <2>1, <2>2, FreeRows, AppendFree, AppendNotes
    <2> QED
      BY <2>1, <2>3 DEF ListFits
  <1>11. ASSUME DropTrailing(d) PROVE Fits
    <2>1. /\ pc[d] = "inherit" /\ pc'[d] = "inherit"
          /\ KeptLen(q) < Len(q) /\ new = SubSeq(q, 1, KeptLen(q)) /\ Len(q) \in Nat
      <3>1. pc[d] = "inherit" /\ KeptLen(q) < Len(q) /\ new = SubSeq(q, 1, KeptLen(q)) /\ UNCHANGED pc
        BY <1>3, <1>11 DEF DropTrailing
      <3>2. Len(q) \in Nat
        BY <1>6 DEF Lists
      <3> QED
        BY <3>1, <3>2
    <2>2. Pending(q)
      <3>1. WellFormed(q) \/ Pending(q)
        BY <1>6, <2>1 DEF ListFits
      <3>2. ~ WellFormed(q)
        BY <1>6, <2>1, FormedIsKept
      <3> QED
        BY <3>1, <3>2
    <2>3. new = SubSeq(q, 1, Len(q) - 1)
      BY <1>6, <2>1, <2>2, PendingIsCut
    <2>4. new \in Lists /\ WellFormed(new) /\ Len(new) = Len(q) - 1 /\ \A i \in 1..(Len(q) - 1) : new[i] = q[i]
      BY <1>6, <2>2, <2>3, CutFormed
    <2>5. q[Len(q)].role = "assistant"
      BY <2>2 DEF Pending, HasCalls
    <2>6. NotesAreIn(new, d, step[d])
      BY <1>6, <2>4, <2>5, CutNotes
    <2> QED
      BY <2>1, <2>4, <2>6 DEF ListFits
  <1>12. ASSUME BeginNested(d) PROVE Fits
    <2>1. pc[d] = "inherit" /\ pc'[d] = "budget" /\ KeptLen(q) = Len(q) /\ new = Append(q, UserRow)
          /\ Len(q) \in Nat
      BY <1>3, <1>6, <1>12 DEF BeginNested, Appended, Lists
    <2>2. WellFormed(q)
      <3>1. WellFormed(q) \/ Pending(q)
        BY <1>6, <2>1 DEF ListFits
      <3>2. ~ Pending(q)
        BY <1>6, <2>1, PendingIsCut
      <3> QED
        BY <3>1, <3>2
    <2>3. new \in Lists /\ WellFormed(new) /\ NotesAreIn(new, d, step[d])
      BY <1>3, <1>6, <2>1, <2>2, FreeRows, AppendFree, AppendNotes
    <2> QED
      BY <2>1, <2>3 DEF ListFits
  <1>13. Fits
    BY <1>7, <1>8, <1>9, <1>10, <1>11, <1>12 DEF OwnStep
  <1>14. LoopFits(d, pc'[d], step[d], new, calls[d], results[d], deferred[d])
    BY <1>1, <1>5, <1>13, NewList
  <1> HIDE DEF q, new, Fits
  <1>15. LoopFits(d, pc'[d], step'[d], msgs'[d], calls'[d], results'[d], deferred'[d])
    BY <1>1, <1>2, <1>14 DEF new
  <1>16. DOMAIN deferred' = Depths
    BY <1>2 DEF ListsInv
  <1> QED
    BY <1>1, <1>2, <1>4, <1>15, <1>16, OneLoop

\* The model's calls.
LEMMA CallsLists ==
    ASSUME IInv, ListsInv, NEW d \in Depths, NEW cs \in Answers[d], ModelCalls(d, cs) PROVE ListsInv'
  <1> DEFINE blank == [i \in 1..Len(cs) |-> Missing]
             row == Row("assistant", <<d, step[d]>>, Len(cs))
             q == msgs[d]
             new == Append(q, row)
  <1>1. cs \in Seq(Tools) /\ Len(cs) \in Nat /\ Len(cs) > 0
    BY RunTurnAssumption DEF Depths
  <1>2. DOMAIN pc = Depths /\ DOMAIN msgs = Depths /\ step[d] \in Nat /\ d \in Nat
        /\ DOMAIN calls = Depths /\ DOMAIN results = Depths
    BY DEF IInv, BatchInv, Shapes, Depths
  <1>3. /\ msgs'[d] = new /\ UNCHANGED <<step, deferred>> /\ pc[d] = "model"
        /\ \/ pc'[d] = "tools" /\ calls'[d] = cs /\ results'[d] = blank
           \/ pc'[d] = "failed" /\ UNCHANGED <<calls, results>>
        /\ \A e \in Depths : e # d =>
               /\ pc'[e] = pc[e] /\ msgs'[e] = msgs[e] /\ calls'[e] = calls[e] /\ results'[e] = results[e]
    BY <1>2 DEF ModelCalls, Appended, Round
  <1>4. LoopFits(d, pc[d], step[d], q, calls[d], results[d], deferred[d])
    BY DEF ListsInv
  <1>5. q \in Lists /\ WellFormed(q) /\ NotesAreIn(q, d, step[d]) /\ deferred[d] \in Lists
        /\ Len(results[d]) = 0 /\ NotesFit(deferred[d], results[d], <<d, step[d]>>)
    BY <1>3, <1>4 DEF LoopFits, ListFits
  <1>6. row \in RowKinds /\ HasCalls(row) /\ row.role = "assistant" /\ row.round = <<d, step[d]>> /\ row.n = Len(cs)
    BY <1>1, <1>2 DEF Row, RowKinds, Rounds, HasCalls
  <1> HIDE DEF row
  <1>7. Pending(new) /\ new \in Lists /\ NotesAreIn(new, d, step[d])
    BY <1>5, <1>6, AppendCalls, AppendNotes
  <1>8. new[Len(new)] = row
    BY <1>5 DEF Lists
  <1>9. Len(deferred[d]) = 0
    <2>1. \A k \in 1..Len(deferred[d]) : FALSE
      BY <1>5 DEF NotesFit
    <2>2. Len(deferred[d]) \in Nat
      BY <1>5 DEF Lists
    <2> QED
      BY <2>1, <2>2
  <1> HIDE DEF new
  <1>10. CASE pc'[d] = "failed" /\ UNCHANGED <<calls, results>>
    <2>1. ListFits(new, "failed", calls[d], <<d, step[d]>>)
      BY DEF ListFits
    <2>2. LoopFits(d, pc'[d], step[d], new, calls[d], results[d], deferred[d])
      BY <1>3, <1>4, <1>7, <1>10, <2>1, NewList
    <2>3. LoopFits(d, pc'[d], step'[d], msgs'[d], calls'[d], results'[d], deferred'[d])
      BY <1>3, <1>10, <2>2
    <2> QED
      BY <1>3, <2>3, OneLoop DEF ListsInv
  <1>11. CASE pc'[d] = "tools" /\ calls'[d] = cs /\ results'[d] = blank
    <2>1. Len(blank) = Len(cs) /\ \A i \in 1..Len(cs) : blank[i] = Missing
      BY <1>1
    <2> HIDE DEF blank
    <2>2. ResultsFit(blank, <<d, step[d]>>)
      BY <2>1 DEF ResultsFit
    <2>3. NotesFit(deferred[d], blank, <<d, step[d]>>)
      <3>1. \A i \in 1..Len(blank) : blank[i].role # "reply"
        BY <2>1 DEF Missing, Row
      <3> QED
        BY <1>9, <3>1 DEF NotesFit
    <2>4. ListFits(new, "tools", cs, <<d, step[d]>>)
      BY <1>6, <1>7, <1>8 DEF ListFits
    <2>5. LoopFits(d, "tools", step[d], new, cs, blank, deferred[d])
      BY <1>5, <1>7, <2>2, <2>3, <2>4 DEF LoopFits
    <2>6. LoopFits(d, pc'[d], step'[d], msgs'[d], calls'[d], results'[d], deferred'[d])
      BY <1>3, <1>11, <2>5
    <2> QED
      BY <1>3, <2>6, OneLoop DEF ListsInv
  <1> QED
    BY <1>3, <1>10, <1>11

\* A tool's result, without a note.
LEMMA ToolFits ==
    ASSUME NEW d \in Nat, NEW s \in Nat, NEW ms, NEW cs, NEW res \in Seq(Cells), NEW notes,
           LoopFits(d, "tools", s, ms, cs, res, notes),
           NEW i \in 1..Len(res), res[i] = Missing
    PROVE  LoopFits(d, "tools", s, ms, cs, [res EXCEPT ![i] = Row("tool", <<d, s>>, i)], notes)
  <1> DEFINE row == Row("tool", <<d, s>>, i)
             new == [res EXCEPT ![i] = row]
  <1>1. row.role = "tool" /\ row.round = <<d, s>> /\ row.n = i /\ IsTool(row) /\ row # Missing
    BY DEF Row, IsTool, Missing
  <1> HIDE DEF row
  <1>2. Len(new) = Len(res) /\ new[i] = row /\ \A k \in 1..Len(res) : k # i => new[k] = res[k]
    OBVIOUS
  <1> HIDE DEF new
  <1>3. ResultsFit(new, <<d, s>>)
    BY <1>1, <1>2 DEF LoopFits, ResultsFit
  <1>4. NotesFit(notes, new, <<d, s>>)
    <2>1. NotesFit(notes, res, <<d, s>>)
      BY DEF LoopFits
    <2>2. ASSUME NEW k \in 1..Len(notes)
          PROVE  \E j \in 1..Len(new) : notes[k] = Row("note", <<d, s>>, j) /\ new[j] # Missing
      <3>1. PICK j \in 1..Len(res) : notes[k] = Row("note", <<d, s>>, j) /\ res[j] # Missing
        BY <2>1 DEF NotesFit
      <3>2. j # i /\ j \in 1..Len(new) /\ new[j] = res[j]
        BY <1>2, <3>1
      <3> QED
        BY <3>1, <3>2
    <2>3. \A j \in 1..Len(new) : new[j].role = "reply" => res[j].role = "reply"
      BY <1>1, <1>2
    <2> QED
      BY <1>2, <2>1, <2>2, <2>3 DEF NotesFit
  <1> QED
    BY <1>3, <1>4 DEF LoopFits, new, row

\* A sub-agent's reply, and its note.
LEMMA ReplyFits ==
    ASSUME NEW d \in Nat, NEW s \in Nat, NEW ms, NEW cs, NEW res \in Seq(Cells), NEW notes,
           LoopFits(d, "tools", s, ms, cs, res, notes),
           NEW i \in 1..Len(res), res[i] = Missing
    PROVE  LoopFits(d, "tools", s, ms, cs, [res EXCEPT ![i] = Row("reply", <<d, s>>, i)],
                    IF MergeAsUser THEN Append(notes, Row("note", <<d, s>>, i)) ELSE notes)
  <1> DEFINE row == Row("reply", <<d, s>>, i)
             note == Row("note", <<d, s>>, i)
             new == [res EXCEPT ![i] = row]
             more == IF MergeAsUser THEN Append(notes, note) ELSE notes
  <1>1. row.role = "reply" /\ row.round = <<d, s>> /\ row.n = i /\ IsTool(row) /\ row # Missing
    BY DEF Row, IsTool, Missing
  <1>2. note \in RowKinds
    <2>1. Len(res) \in Nat
      OBVIOUS
    <2>2. i \in Nat /\ <<d, s>> \in Rounds
      BY <2>1 DEF Rounds
    <2> QED
      BY <2>2 DEF Row, RowKinds
  <1>3. notes \in Lists /\ NotesFit(notes, res, <<d, s>>)
    BY DEF LoopFits
  <1>4. \A j : Row("note", <<d, s>>, j) = note => j = i
    BY DEF Row
  <1> HIDE DEF row, note
  <1>5. Len(new) = Len(res) /\ new[i] = row /\ \A k \in 1..Len(res) : k # i => new[k] = res[k]
    OBVIOUS
  <1>6. more \in Lists
    BY <1>2, <1>3 DEF Lists
  <1>7. \/ more = notes /\ ~ MergeAsUser
        \/ /\ MergeAsUser
           /\ Len(more) = Len(notes) + 1 /\ more[Len(notes) + 1] = note /\ Len(notes) \in Nat
           /\ \A k \in 1..Len(notes) : more[k] = notes[k]
    BY <1>2, <1>3, RunTurnAssumption DEF Lists
  <1> HIDE DEF new, more
  <1>8. ResultsFit(new, <<d, s>>)
    BY <1>1, <1>5 DEF LoopFits, ResultsFit
  <1>9. \A k \in 1..Len(notes) : notes[k] # note
    <2> SUFFICES ASSUME NEW k \in 1..Len(notes), notes[k] = note PROVE FALSE
      OBVIOUS
    <2>1. PICK j \in 1..Len(res) : notes[k] = Row("note", <<d, s>>, j) /\ res[j] # Missing
      BY <1>3 DEF NotesFit
    <2> QED
      BY <1>4, <2>1
  <1>10. ASSUME NEW k \in 1..Len(notes)
         PROVE  \E j \in 1..Len(new) : notes[k] = Row("note", <<d, s>>, j) /\ new[j] # Missing
    <2>1. PICK j \in 1..Len(res) : notes[k] = Row("note", <<d, s>>, j) /\ res[j] # Missing
      BY <1>3 DEF NotesFit
    <2>2. j # i /\ j \in 1..Len(new) /\ new[j] = res[j]
      BY <1>5, <2>1
    <2> QED
      BY <2>1, <2>2
  <1>11. NotesFit(more, new, <<d, s>>)
    <2>1. CASE more = notes /\ ~ MergeAsUser
      BY <1>3, <1>10, <2>1 DEF NotesFit
    <2>2. CASE /\ MergeAsUser
               /\ Len(more) = Len(notes) + 1 /\ more[Len(notes) + 1] = note /\ Len(notes) \in Nat
               /\ \A k \in 1..Len(notes) : more[k] = notes[k]
      <3>1. ASSUME NEW k \in 1..Len(more) PROVE k \in 1..Len(notes) \/ k = Len(notes) + 1
        BY <2>2
      <3>2. ASSUME NEW k \in 1..Len(more)
            PROVE  \E j \in 1..Len(new) : more[k] = Row("note", <<d, s>>, j) /\ new[j] # Missing
        <4>1. CASE k \in 1..Len(notes)
          BY <1>10, <2>2, <4>1
        <4>2. CASE k = Len(notes) + 1
          BY <1>1, <1>5, <2>2, <4>2 DEF note
        <4> QED
          BY <3>1, <4>1, <4>2
      <3>3. ASSUME NEW j \in 1..Len(more), NEW k \in 1..Len(more), more[j] = more[k] PROVE j = k
        <4>1. CASE j \in 1..Len(notes) /\ k \in 1..Len(notes)
          BY <1>3, <2>2, <3>3, <4>1 DEF NotesFit
        <4> QED
          BY <1>9, <2>2, <3>1, <3>3, <4>1
      <3>4. ASSUME NEW j \in 1..Len(new), new[j].role = "reply"
            PROVE  \E k \in 1..Len(more) : more[k] = Row("note", <<d, s>>, j)
        <4>1. CASE j = i
          <5>1. Len(notes) + 1 \in 1..Len(more)
            BY <2>2
          <5> QED
            BY <2>2, <4>1, <5>1 DEF note
        <4>2. CASE j # i
          <5>1. PICK k \in 1..Len(notes) : notes[k] = Row("note", <<d, s>>, j)
            BY <1>3, <1>5, <2>2, <3>4, <4>2 DEF NotesFit
          <5> QED
            BY <2>2, <5>1
        <4> QED
          BY <4>1, <4>2
      <3> QED
        BY <3>2, <3>3, <3>4 DEF NotesFit
    <2> QED
      BY <1>7, <2>1, <2>2
  <1> QED
    BY <1>6, <1>8, <1>11 DEF LoopFits, new, more, row, note

\* A loop that begins or ends may have any list, and any count of steps.
LEMMA FreshList ==
    ASSUME NEW d, NEW at, NEW s, NEW ms, NEW cs, NEW res, NEW notes,
           LoopFits(d, at, s, ms, cs, res, notes), at # "tools",
           NEW to \in {"inherit", "idle"}, NEW fresh,
           NEW new \in Lists, ListFits(new, to, cs, <<d, fresh>>), NotesAreIn(new, d, fresh)
    PROVE  LoopFits(d, to, fresh, new, cs, res, notes)
  <1>1. Len(res) = 0 /\ notes \in Lists /\ NotesFit(notes, res, <<d, s>>)
    BY DEF LoopFits
  <1>2. Len(notes) = 0
    <2>1. \A k \in 1..Len(notes) : FALSE
      BY <1>1 DEF NotesFit
    <2>2. Len(notes) \in Nat
      BY <1>1 DEF Lists
    <2> QED
      BY <2>1, <2>2
  <1>3. ResultsFit(res, <<d, fresh>>) /\ NotesFit(notes, res, <<d, fresh>>)
    BY <1>1, <1>2 DEF ResultsFit, NotesFit
  <1> QED
    BY <1>1, <1>3 DEF LoopFits

\* A tool that is no nested loop ends.
LEMMA ToolLists ==
    ASSUME IInv, ListsInv, NEW d \in Depths, NEW i, ToolEnds(d, i) PROVE ListsInv'
  <1>1. /\ d \in Nat /\ step[d] \in Nat /\ results[d] \in Seq(Cells) /\ DOMAIN results = Depths
        /\ i \in 1..Len(results[d]) /\ results[d][i] = Missing /\ pc[d] = "tools"
    BY DEF ToolEnds, IInv, BatchInv, Shapes, RunningIsOpen, Depths
  <1>2. LoopFits(d, "tools", step[d], msgs[d], calls[d], results[d], deferred[d])
    BY <1>1 DEF ListsInv
  <1>3. results' = [results EXCEPT ![d] = [results[d] EXCEPT ![i] = Row("tool", <<d, step[d]>>, i)]]
    BY DEF ToolEnds, FillIn, Round
  <1>4. results'[d] = [results[d] EXCEPT ![i] = Row("tool", <<d, step[d]>>, i)]
        /\ \A e \in Depths : e # d => results'[e] = results[e]
    BY <1>1, <1>3
  <1>5. UNCHANGED <<pc, step, msgs, calls, deferred>>
    BY DEF ToolEnds
  <1>6. LoopFits(d, "tools", step[d], msgs[d], calls[d], results'[d], deferred[d])
    BY <1>1, <1>2, <1>4, ToolFits
  <1>7. LoopFits(d, pc'[d], step'[d], msgs'[d], calls'[d], results'[d], deferred'[d])
    BY <1>1, <1>5, <1>6
  <1> QED
    BY <1>4, <1>5, <1>7, OneLoop DEF ListsInv

\* A batch is collected.
LEMMA CollectLists == ASSUME IInv, ListsInv, NEW d \in Depths, Collect(d) PROVE ListsInv'
  <1> DEFINE q == msgs[d]
             res == results[d]
             notes == deferred[d]
             s == step[d]
             new == q \o res \o notes
  <1>1. /\ d \in Nat /\ s \in Nat /\ s + 1 \in Nat /\ res \in Seq(Cells) /\ pc[d] = "tools"
        /\ Len(res) = Len(calls[d])
        /\ DOMAIN pc = Depths /\ DOMAIN step = Depths /\ DOMAIN msgs = Depths /\ DOMAIN calls = Depths
        /\ DOMAIN results = Depths /\ DOMAIN deferred = Depths
    BY DEF Collect, IInv, BatchInv, Shapes, RunningIsOpen, Depths, ListsInv
  <1>2. LoopFits(d, "tools", s, q, calls[d], res, notes)
    BY <1>1 DEF ListsInv
  <1>3. /\ q \in Lists /\ notes \in Lists /\ Pending(q) /\ q[Len(q)].round = <<d, s>> /\ q[Len(q)].n = Len(res)
        /\ NotesAreIn(q, d, s) /\ ResultsFit(res, <<d, s>>) /\ NotesFit(notes, res, <<d, s>>)
    BY <1>1, <1>2 DEF LoopFits, ListFits
  <1>4. \A i \in 1..Len(res) : res[i] # Missing
    BY <1>1 DEF Collect
  <1>5. \A i \in 1..Len(res) : IsTool(res[i]) /\ res[i].round = <<d, s>> /\ res[i].n = i
    BY <1>3, <1>4 DEF ResultsFit
  <1>6. res \in Lists
    <2>1. ASSUME NEW i \in 1..Len(res) PROVE res[i] \in RowKinds
      <3>1. res[i] \in Cells
        BY <1>1
      <3>2. res[i].role \in {"tool", "reply"}
        BY <1>5 DEF IsTool
      <3> QED
        BY <3>1, <3>2 DEF Cells, RowKinds
    <2> QED
      BY <1>1, <2>1 DEF Lists
  <1>7. \A i \in 1..Len(notes) : notes[i].role = "note" /\ notes[i].round = <<d, s>>
    <2> SUFFICES ASSUME NEW i \in 1..Len(notes)
                 PROVE  notes[i].role = "note" /\ notes[i].round = <<d, s>>
      OBVIOUS
    <2>1. PICK j \in 1..Len(res) : notes[i] = Row("note", <<d, s>>, j)
      BY <1>3 DEF NotesFit
    <2> QED
      BY <2>1 DEF Row
  <1>8. /\ \A i, k \in 1..Len(notes) : notes[i] = notes[k] => i = k
        /\ MergeAsUser => \A i \in 1..Len(res) : res[i].role = "reply" =>
               \E k \in 1..Len(notes) : notes[k] = Row("note", <<d, s>>, i)
    BY <1>3 DEF NotesFit
  <1> HIDE DEF q, res, notes, s
  <1>9. new \in Lists /\ WellFormed(new)
    BY <1>3, <1>5, <1>6, <1>7, BatchFormed
  <1>10. NotesAreIn(new, d, s + 1)
    BY <1>1, <1>3, <1>5, <1>6, <1>7, <1>8, BatchNotes
  <1>11. /\ msgs'[d] = new /\ step'[d] = s + 1 /\ pc'[d] \in {"budget", "failed"}
         /\ calls'[d] = <<>> /\ results'[d] = <<>> /\ deferred'[d] = <<>> /\ DOMAIN deferred' = Depths
         /\ \A e \in Depths : e # d =>
               /\ pc'[e] = pc[e] /\ step'[e] = step[e] /\ msgs'[e] = msgs[e]
               /\ calls'[e] = calls[e] /\ results'[e] = results[e] /\ deferred'[e] = deferred[e]
    BY <1>1 DEF Collect, q, res, notes, s
  <1> HIDE DEF new
  <1>12. LoopFits(d, pc'[d], s + 1, new, <<>>, <<>>, <<>>)
    <2>1. ListFits(new, pc'[d], <<>>, <<d, s + 1>>)
      BY <1>9, <1>11 DEF ListFits
    <2> QED
      BY <1>9, <1>10, <2>1, EmptyFits, EmptyBatch DEF LoopFits
  <1>13. LoopFits(d, pc'[d], step'[d], msgs'[d], calls'[d], results'[d], deferred'[d])
    BY <1>11, <1>12
  <1> QED
    BY <1>11, <1>13, OneLoop

\* A nested loop begins, with rows of the session's list or with none.
LEMMA NestedLists ==
    ASSUME IInv, ListsInv, NEW d \in Depths, NEW i, NEW inherit, StartNested(d, i, inherit) PROVE ListsInv'
  <1> DEFINE e == d + 1
             q == msgs[0]
             new == IF inherit THEN WithoutOrphans(LastRows(q)) ELSE <<>>
  <1>1. d \in Nat /\ e \in Depths /\ e \in Nat /\ e # 0 /\ d < e /\ 0 \in Depths
    BY RunTurnAssumption DEF StartNested, Depths
  <1>2. pc[e] = "idle" /\ pc[d] = "tools"
    BY <1>1, NestedStartsBelow DEF StartNested, CanStart
  <1>3. pc[0] = "tools"
    BY <1>1, <1>2 DEF IInv, CallersWait
  <1>4. /\ DOMAIN pc = Depths /\ DOMAIN step = Depths /\ DOMAIN msgs = Depths /\ DOMAIN deferred = Depths
    BY DEF IInv, BatchInv, Shapes, ListsInv
  <1>5. /\ LoopFits(0, pc[0], step[0], msgs[0], calls[0], results[0], deferred[0])
        /\ LoopFits(e, pc[e], step[e], msgs[e], calls[e], results[e], deferred[e])
    BY <1>1 DEF ListsInv
  <1>6. /\ msgs'[e] = new /\ step'[e] = 0 /\ pc'[e] = "inherit" /\ UNCHANGED <<calls, results, deferred>>
        /\ \A b \in Depths : b # e => pc'[b] = pc[b] /\ step'[b] = step[b] /\ msgs'[b] = msgs[b]
    BY <1>1, <1>4 DEF StartNested
  <1>7. new \in Lists /\ (WellFormed(new) \/ Pending(new)) /\ NotesAreIn(new, e, 0)
    <2>1. CASE ~ inherit
      BY <2>1, EmptyFits
    <2>2. CASE inherit
      <3>1. q \in Lists /\ Pending(q) /\ NotesAreIn(q, 0, step[0])
        BY <1>3, <1>5 DEF LoopFits, ListFits
      <3>2. new = WithoutOrphans(LastRows(q))
        BY <2>2
      <3> HIDE DEF new, q, e
      <3>3. PICK a : Rest(new, q, a) /\ a <= Len(q) /\ ~ IsTool(q[a]) /\ new \in Lists
        BY <3>1, <3>2, InheritedIs
      <3>4. Pending(new)
        BY <3>1, <3>3, InheritedPends
      <3>5. Noted(new) /\ NotesOnce(new) /\ NotesFrom(new, 0, step[0])
        BY <3>1, <3>3, RestNotes DEF NotesAreIn
      <3>6. NotesFrom(new, e, 0)
        <4> SUFFICES ASSUME NEW k \in 1..Len(new), new[k].role = "note"
                     PROVE  \E b \in {0, e}, t \in Nat : new[k].round = <<b, t>> /\ (b = e => t < 0)
          BY DEF NotesFrom
        <4>1. PICK b \in {0, 0}, t \in Nat : new[k].round = <<b, t>>
          BY <3>5 DEF NotesFrom
        <4> QED
          BY <1>1, <4>1
      <3> QED
        BY <3>3, <3>4, <3>5, <3>6 DEF NotesAreIn
    <2> QED
      BY <2>1, <2>2
  <1> HIDE DEF new, q, e
  <1>8. ListFits(new, "inherit", calls[e], <<e, 0>>)
    BY <1>7 DEF ListFits
  <1>9. LoopFits(e, "inherit", 0, new, calls[e], results[e], deferred[e])
    BY <1>2, <1>5, <1>7, <1>8, FreshList
  <1>10. LoopFits(e, pc'[e], step'[e], msgs'[e], calls'[e], results'[e], deferred'[e])
    BY <1>6, <1>9
  <1> QED
    BY <1>1, <1>4, <1>6, <1>10, OneLoop

\* A nested loop ends: its caller's batch gets its reply and its note, and its list goes.
LEMMA EndLists ==
    ASSUME IInv, ListsInv, NEW d \in Depths, NEW i, EndNested(d, i) PROVE ListsInv'
  <1> DEFINE e == d + 1
  <1>1. /\ d \in Nat /\ e \in Depths /\ e # d /\ step[d] \in Nat /\ results[d] \in Seq(Cells)
        /\ i \in 1..Len(results[d]) /\ results[d][i] = Missing /\ pc[d] = "tools" /\ pc[e] \in {"done", "failed"}
    BY DEF EndNested, Returned, IInv, BatchInv, Shapes, RunningIsOpen, Depths
  <1>2. /\ DOMAIN pc = Depths /\ DOMAIN step = Depths /\ DOMAIN msgs = Depths /\ DOMAIN deferred = Depths
        /\ DOMAIN results = Depths
    BY DEF IInv, BatchInv, Shapes, ListsInv
  <1>3. /\ LoopFits(d, "tools", step[d], msgs[d], calls[d], results[d], deferred[d])
        /\ LoopFits(e, pc[e], step[e], msgs[e], calls[e], results[e], deferred[e])
    BY <1>1 DEF ListsInv
  <1>4. /\ results'[d] = [results[d] EXCEPT ![i] = Row(IF pc[e] = "done" THEN "reply" ELSE "tool", <<d, step[d]>>, i)]
        /\ deferred'[d] = IF pc[e] = "done" THEN WithNote(d, i) ELSE deferred[d]
        /\ DOMAIN deferred' = Depths
        /\ \A b \in Depths : b # d => results'[b] = results[b] /\ deferred'[b] = deferred[b]
    BY <1>2 DEF EndNested, FillIn, Round
  <1>5. /\ pc'[e] = "idle" /\ msgs'[e] = <<>> /\ step'[e] = 0 /\ UNCHANGED calls
        /\ \A b \in Depths : b # e => pc'[b] = pc[b] /\ step'[b] = step[b] /\ msgs'[b] = msgs[b]
    BY <1>1, <1>2 DEF EndNested
  <1> HIDE DEF e
  <1>6. LoopFits(d, "tools", step[d], msgs[d], calls[d], results'[d], deferred'[d])
    <2>1. CASE pc[e] = "done"
      BY <1>1, <1>3, <1>4, <2>1, ReplyFits DEF WithNote, Round
    <2>2. CASE pc[e] # "done"
      BY <1>1, <1>3, <1>4, <2>2, ToolFits
    <2> QED
      BY <2>1, <2>2
  <1>7. LoopFits(e, "idle", 0, <<>>, calls[e], results[e], deferred[e])
    <2>1. ListFits(<<>>, "idle", calls[e], <<e, 0>>)
      BY DEF ListFits
    <2> QED
      BY <1>1, <1>3, <2>1, EmptyFits, FreshList
  <1>8. ASSUME NEW b \in Depths
        PROVE  LoopFits(b, pc'[b], step'[b], msgs'[b], calls'[b], results'[b], deferred'[b])
    <2>1. CASE b = d
      BY <1>1, <1>5, <1>6, <2>1
    <2>2. CASE b = e
      BY <1>1, <1>4, <1>5, <1>7, <2>2
    <2>3. CASE b \notin {d, e}
      BY <1>4, <1>5, <2>3 DEF ListsInv
    <2> QED
      BY <2>1, <2>2, <2>3
  <1> QED
    BY <1>4, <1>8 DEF ListsInv

\* Every step keeps the invariant.
LEMMA ListsNext == IInv /\ ListsInv /\ [Next]_vars => ListsInv'
  <1> SUFFICES ASSUME IInv, ListsInv, [Next]_vars PROVE ListsInv'
    OBVIOUS
  <1>1. ASSUME UNCHANGED <<pc, step, msgs, calls, results, deferred>> PROVE ListsInv'
    BY <1>1 DEF ListsInv
  <1>2. CASE UNCHANGED vars
    BY <1>1, <1>2 DEF vars
  <1>3. CASE CancelTurn \/ Terminated
    BY <1>1, <1>3 DEF CancelTurn, Terminated, vars, batch
  <1>4. CASE \E d \in Depths : Loop(d) \/ ModelReturns(d) \/ ToolReturns(d)
    <2>1. PICK d \in Depths :
              \/ OwnStep(d)
              \/ \E cs \in Answers[d] : ModelCalls(d, cs)
              \/ Collect(d)
              \/ \E i : \/ StartTool(d, i) \/ ToolEnds(d, i) \/ EndNested(d, i)
                        \/ \E inherit : StartNested(d, i, inherit)
      BY <1>4 DEF Loop, ModelReturns, ToolReturns, OwnStep
    <2>2. ASSUME NEW i, StartTool(d, i) PROVE ListsInv'
      BY <1>1, <2>2 DEF StartTool
    <2> QED
      BY <2>1, <2>2, OwnLists, CallsLists, CollectLists, ToolLists, EndLists, NestedLists
  <1> QED
    BY <1>2, <1>3, <1>4 DEF Next

\* The lists are in order throughout.
LEMMA ListsAlways == Spec => [](IInv /\ ListsInv)
  <1>1. Init => IInv /\ ListsInv
    BY InitIInv, ListsInit
  <1>2. IInv /\ ListsInv /\ [Next]_vars => (IInv /\ ListsInv)'
    BY NextKeeps, ListsNext
  <1> QED
    BY <1>1, <1>2, PTL DEF Spec

-----------------------------------------------------------------------------
(* The theorems.                                                           *)

\* Unsafe calls overlap nothing of their answer and keep the order of the calls, for any answers
\* (loop/tool_batches.go, executeToolBatches).
THEOREM UnsafeRunsAlone == Spec => []UnsafeAlone
  <1>1. ASSUME BatchInv PROVE UnsafeAlone
    <2> SUFFICES ASSUME NEW d \in Depths, NEW i \in running[d], ~ Safe(calls[d][i])
                 PROVE  /\ running[d] = {i}
                        /\ \A k \in DOMAIN calls[d] : results[d][k] # Missing <=> k < i
      BY DEF UnsafeAlone
    <2>1. /\ i \in 1..Len(calls[d]) /\ DOMAIN calls[d] = 1..Len(calls[d])
          /\ Len(calls[d]) \in Nat
          /\ running[d] \subseteq 1..Len(calls[d])
          /\ \A k \in running[d] : results[d][k] = Missing
      BY <1>1 DEF BatchInv, Shapes, RunningIsOpen
    <2>2. \A k \in 1..Len(calls[d]) : k < i => results[d][k] # Missing
      <3> SUFFICES ASSUME NEW k \in 1..Len(calls[d]), k < i PROVE results[d][k] # Missing
        OBVIOUS
      <3>1. k \in 1..(i - 1) /\ ~ SameBatch(calls[d], k, i)
        BY <2>1, BatchIsSafe
      <3> QED
        BY <1>1, <2>1, <3>1 DEF BatchInv, BatchOrder
    <2>3. \A k \in 1..Len(calls[d]) : i < k => k \notin running[d] /\ results[d][k] = Missing
      <3> SUFFICES ASSUME NEW k \in 1..Len(calls[d]), i < k
                   PROVE  k \notin running[d] /\ results[d][k] = Missing
        OBVIOUS
      <3>1. i \in 1..(k - 1) /\ ~ SameBatch(calls[d], i, k)
        BY <2>1, BatchIsSafe
      <3> QED
        BY <1>1, <2>1, <3>1 DEF BatchInv, BatchOrder
    <2>4. running[d] = {i}
      BY <2>1, <2>2, <2>3
    <2>5. \A k \in 1..Len(calls[d]) : results[d][k] # Missing <=> k < i
      BY <2>1, <2>2, <2>3
    <2> QED
      BY <2>1, <2>4, <2>5
  <1> QED
    BY <1>1, InvAlways, PTL DEF IInv

\* Nesting ends at the second level, whatever the depth limit is (subagent/run.go,
\* stripMetaForNested).
THEOREM NestingBounded == Spec => []NestingIsBounded
  <1>1. IInv => NestingIsBounded
    BY DEF IInv, Shallow, NestingIsBounded
  <1> QED
    BY <1>1, InvAlways, PTL

\* While a nested loop is active no step changes the list of a loop above it: the trimming of the
\* inherited rows and the rows of the nested turn stay in a list of their own (subagent/run.go).
THEOREM ListUntouched == Spec => CallersListIsUntouched
  <1> DEFINE Untouched ==
        \A d, e \in Depths : d < e /\ pc[e] # "idle" => msgs'[d] = msgs[d]
  <1>1. ASSUME IInv, Next PROVE Untouched
    <2> SUFFICES ASSUME NEW b \in Depths, NEW e \in Depths, b < e, pc[e] # "idle"
                 PROVE  msgs'[b] = msgs[b]
      OBVIOUS
    <2>1. pc[b] = "tools" /\ running[b] # {}
      BY <1>1 DEF IInv, CallersWait
    <2>2. ASSUME NEW d \in Depths, OwnStep(d) PROVE msgs'[b] = msgs[b]
      BY <1>1, <2>1, <2>2, OwnStepFacts DEF IInv, BatchInv
    <2>3. ASSUME NEW d \in Depths, NEW cs \in Answers[d], ModelCalls(d, cs)
          PROVE  msgs'[b] = msgs[b]
      BY <1>1, <2>1, <2>3 DEF ModelCalls, Appended, IInv, BatchInv, Shapes
    <2>4. ASSUME NEW d \in Depths, Collect(d) PROVE msgs'[b] = msgs[b]
      <3>1. running[d] = {}
        <4>1. \A i \in running[d] : i \in DOMAIN results[d] /\ results[d][i] = Missing
          BY <1>1 DEF IInv, BatchInv, Shapes, RunningIsOpen
        <4> QED
          BY <2>4, <4>1 DEF Collect
      <3> QED
        BY <1>1, <2>1, <2>4, <3>1 DEF Collect, IInv, BatchInv, Shapes
    <2>5. ASSUME NEW d \in Depths, NEW i, StartTool(d, i) \/ ToolEnds(d, i)
          PROVE  msgs'[b] = msgs[b]
      BY <2>5 DEF StartTool, ToolEnds
    <2>6. ASSUME NEW d \in Depths, NEW i, EndNested(d, i) PROVE msgs'[b] = msgs[b]
      <3>1. d + 1 # b
        BY <2>1, <2>6 DEF EndNested, Returned
      <3> QED
        BY <1>1, <2>6, <3>1 DEF EndNested, IInv, BatchInv, Shapes
    <2>7. ASSUME NEW d \in Depths, NEW i, NEW inherit, StartNested(d, i, inherit)
          PROVE  msgs'[b] = msgs[b]
      <3>1. d + 1 \in Depths /\ d < d + 1
        BY <2>7, RunTurnAssumption DEF StartNested, Depths
      <3>2. pc[d + 1] = "idle"
        BY <1>1, <2>7, <3>1, NestedStartsBelow DEF StartNested
      <3> QED
        BY <1>1, <2>1, <2>7, <3>2 DEF StartNested, IInv, BatchInv, Shapes
    <2> QED
      BY <1>1, <2>2, <2>3, <2>4, <2>5, <2>6, <2>7, NextCases
  <1>2. IInv /\ [Next]_vars => [Untouched]_vars
    BY <1>1
  <1> QED
    BY <1>2, InvAlways, PTL DEF Spec, CallersListIsUntouched

\* Every request at every depth is well formed, whatever the models answer, whenever the tools end,
\* however much the budget drops and wherever the inherited rows are cut (loop/runner.go, RunTurn;
\* loop/history_budget.go, TrimMessagesToBudget; subagent/run.go, trimInheritedParentMessages).
THEOREM RequestsAreFormed == Spec => []RequestWellFormed
  <1>1. ListsInv => RequestWellFormed
    BY DEF ListsInv, LoopFits, ListFits, RequestWellFormed
  <1> QED
    BY <1>1, ListsAlways, PTL

\* A reply of a sub-agent and the note of its side chain stay together, in every list they ever are
\* in (subagent/run.go, applySidechainMerge; loop/runner.go, DeferredUserAfterToolBatch).
THEOREM RepliesKeepNotes == Spec => []RepliesAreNoted
  <1>1. ASSUME ListsInv PROVE RepliesAreNoted
    <2> SUFFICES ASSUME NEW d \in Depths, NEW i \in DOMAIN msgs[d], MergeAsUser, msgs[d][i].role = "reply"
                 PROVE  \E k \in DOMAIN msgs[d] :
                            /\ k > i /\ msgs[d][k] = Row("note", msgs[d][i].round, msgs[d][i].n)
                            /\ \A m \in i..k : msgs[d][m].role # "assistant"
                            /\ \A m \in DOMAIN msgs[d] : msgs[d][m] = msgs[d][k] => m = k
      BY DEF RepliesAreNoted
    <2> DEFINE ms == msgs[d]
    <2>1. ms \in Lists /\ Noted(ms) /\ NotesOnce(ms)
      BY <1>1 DEF ListsInv, LoopFits, NotesAreIn
    <2>2. DOMAIN ms = 1..Len(ms) /\ Len(ms) \in Nat
      BY <2>1 DEF Lists
    <2> HIDE DEF ms
    <2>3. i \in 1..Len(ms) /\ ms[i].role = "reply"
      BY <2>2 DEF ms
    <2>4. PICK k \in (i + 1)..Len(ms) : /\ ms[k] = Row("note", ms[i].round, ms[i].n)
                                        /\ \A m \in i..k : ms[m].role # "assistant"
      BY <2>1, <2>3 DEF Noted
    <2>5. k \in 1..Len(ms) /\ k > i /\ ms[k].role = "note"
      BY <2>2, <2>3, <2>4 DEF Row
    <2>6. \A m \in 1..Len(ms) : ms[m] = ms[k] => m = k
      BY <2>1, <2>5 DEF NotesOnce
    <2> QED
      BY <2>2, <2>4, <2>5, <2>6 DEF ms
  <1> QED
    BY <1>1, ListsAlways, PTL

=============================================================================
