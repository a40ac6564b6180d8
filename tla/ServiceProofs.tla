---------------------------- MODULE ServiceProofs ----------------------------
(***************************************************************************)
(* The parts around the turns: maintenance, the MCP manager, the lists in  *)
(* the workspace, the usage ledger, the read caches and command output,    *)
(* each for any values of its constants and by itself (they share no       *)
(* state).                                                                 *)
(***************************************************************************)
EXTENDS MaintainPipeline, McpManager, WorkspaceLists, UsageLedger, ReadCache, ExecRuns, SequenceFacts, TLAPS

-----------------------------------------------------------------------------
(* The passes over one digest exclude each other from the read to the      *)
(* write, for any number of turns, any answers of the models and any       *)
(* number of failures and crashes.                                         *)

\* The passes between taking the mutex and giving it back.
Holding == {p \in Passes : pc[p] \in {"ask", "write", "persist"}}

PassStates == {"idle", "wait", "ask", "write", "persist", "done"}

\* What local[p].snap needs to have a meaning.
Shape ==
    /\ pc \in [Passes -> PassStates] /\ DOMAIN local = Passes
    /\ \A p \in Passes : "snap" \in DOMAIN local[p]

\* Only the holder of the mutex is inside, whatever is to be written included; what it has
\* read is the file, unless a tool has written it since.
HolderOnly == \A p \in Holding : mu = p
SnapshotHolds == \A p \in Open : p \in stale \/ local[p].snap = digest

MaintInv == Shape /\ HolderOnly /\ SnapshotHolds

\* Nobody is inside at the start.
LEMMA MaintInitInv == MaintInit => MaintInv
BY DEF MaintInit, MaintInv, Shape, PassStates, HolderOnly, SnapshotHolds, Holding, Open, Nothing

\* A pass that ends, on any path, leaves nobody inside.
LEMMA LeaveKeepsInv ==
    ASSUME MaintInv, NEW p \in Holding, Leave(p), stale' = stale
    PROVE  MaintInv'
<1>1. \A q \in Passes : q # p => q \notin Holding
    BY DEF MaintInv, HolderOnly, Holding
<1>2. \A q \in Passes : pc'[q] \notin {"ask", "write", "persist"}
    BY <1>1 DEF Leave, Over, MaintInv, Shape, PassStates, Holding
<1>3. Shape'
    BY DEF Leave, Over, MaintInv, Shape, PassStates, Nothing, Holding
<1> QED
    BY <1>2, <1>3 DEF MaintInv, HolderOnly, SnapshotHolds, Holding, Open

\* A pass takes a free mutex, or has too little to do and ends at once.
LEMMA EnterKeepsInv ==
    ASSUME MaintInv, NEW p \in Passes, Enter(p)
    PROVE  MaintInv'
<1>1. \A q \in Passes : q \notin Holding
    BY MaintainAssumption DEF Enter, Free, MaintInv, HolderOnly, Holding, Passes
<1>2. CASE digest' = digest /\ mu' = p /\ pc' = [pc EXCEPT ![p] = "ask"]
           /\ \E l : local' = [local EXCEPT ![p] = l] /\ l.snap = digest /\ "snap" \in DOMAIN l
    <2>1. \A q \in Passes : pc'[q] \in {"ask", "write", "persist"} => q = p
        BY <1>1, <1>2 DEF MaintInv, Shape, PassStates, Holding
    <2>2. Shape' /\ local'[p].snap = digest'
        BY <1>2 DEF MaintInv, Shape, PassStates
    <2> QED
        BY <1>2, <2>1, <2>2 DEF MaintInv, HolderOnly, SnapshotHolds, Holding, Open
<1>3. CASE Over(p) /\ mu' = mu
    <2>1. \A q \in Passes : pc'[q] \notin {"ask", "write", "persist"}
        BY <1>1, <1>3 DEF Over, MaintInv, Shape, PassStates, Holding
    <2>2. Shape'
        BY <1>3 DEF Over, MaintInv, Shape, PassStates, Nothing
    <2> QED
        BY <2>1, <2>2 DEF MaintInv, HolderOnly, SnapshotHolds, Holding, Open
<1>4. \/ mu' = p /\ pc' = [pc EXCEPT ![p] = "ask"]
         /\ \E l : local' = [local EXCEPT ![p] = l] /\ l.snap = digest /\ "snap" \in DOMAIN l
      \/ Over(p) /\ mu' = mu
    <2> DEFINE l == [Nothing EXCEPT !.snap = digest, !.rules = rules, !.tries = Tries(p),
                                    !.lines = IF p = Loop THEN InWindow(now) ELSE {}]
    <2>1. l.snap = digest /\ "snap" \in DOMAIN l
        BY DEF Nothing
    <2>2. \/ mu' = p /\ pc' = [pc EXCEPT ![p] = "ask"] /\ local' = [local EXCEPT ![p] = l]
          \/ Over(p) /\ mu' = mu
        BY DEF Enter
    <2> HIDE DEF l
    <2> QED
        BY <2>1, <2>2
<1>5. digest' = digest
    BY DEF Enter, textVars
<1> QED
    BY <1>2, <1>3, <1>4, <1>5

\* What leaves the passes, the mutex and the digest alone.
LEMMA OthersKeepInv ==
    ASSUME MaintInv, UNCHANGED <<mu, digest, local>>, stale \subseteq stale',
           pc' \in [Passes -> PassStates],
           \A p \in Passes : pc'[p] \in {"ask", "write", "persist"} => pc'[p] = pc[p]
    PROVE  MaintInv'
BY DEF MaintInv, Shape, PassStates, HolderOnly, SnapshotHolds, Holding, Open

\* A pass that is inside goes on: nobody else is, and what it writes changes the file only
\* when it no longer needs what it has read.
LEMMA InsideKeepsInv ==
    ASSUME MaintInv, NEW p \in Holding, mu' = mu, stale' = stale,
           NEW l, local' = [local EXCEPT ![p] = l], "snap" \in DOMAIN l,
           NEW where \in {"ask", "write", "persist"}, pc' = [pc EXCEPT ![p] = where],
           where = "persist" \/ (p \in Open /\ l.snap = local[p].snap /\ digest' = digest)
    PROVE  MaintInv'
<1>1. \A q \in Passes : q # p => q \notin Holding
    BY DEF MaintInv, HolderOnly, Holding
<1>2. Shape' /\ local'[p] = l /\ pc'[p] = where
    BY DEF MaintInv, Shape, PassStates, Holding
<1>3. \A q \in Passes : q # p => pc'[q] \notin {"ask", "write", "persist"}
    BY <1>1 DEF MaintInv, Shape, PassStates, Holding
<1> QED
    BY <1>2, <1>3 DEF MaintInv, HolderOnly, SnapshotHolds, Holding, Open

\* Every step of a pass keeps the invariant.
LEMMA PassKeepsInv ==
    ASSUME MaintInv, NEW p \in Passes, Pass(p)
    PROVE  MaintInv'
<1>1. CASE Enter(p)
    BY <1>1, EnterKeepsInv
<1>2. CASE NoAnswer(p)
    <2>1. p \in Holding /\ p \in Open /\ "snap" \in DOMAIN local[p]
        BY <1>2 DEF NoAnswer, Holding, Open, MaintInv, Shape, PassStates
    <2>2. CASE Leave(p)
        BY <1>2, <2>1, <2>2, LeaveKeepsInv DEF NoAnswer, histVars
    <2>3. CASE local' = [local EXCEPT ![p].tries = Tail(@)] /\ mu' = mu /\ pc' = pc
        <3> DEFINE l == [local[p] EXCEPT !.tries = Tail(@)]
        <3>1. l.snap = local[p].snap /\ "snap" \in DOMAIN l
            BY <2>1
        <3>2. local' = [local EXCEPT ![p] = l] /\ pc' = [pc EXCEPT ![p] = "ask"]
            BY <1>2, <2>3 DEF NoAnswer, MaintInv, Shape, PassStates
        <3> HIDE DEF l
        <3> QED
            BY <1>2, <2>1, <2>3, <3>1, <3>2, InsideKeepsInv DEF NoAnswer, textVars, histVars
    <2> QED
        BY <1>2, <2>2, <2>3 DEF NoAnswer
<1>3. ASSUME NEW section \in Sections, Answer(p, section) PROVE MaintInv'
    <2>1. p \in Holding /\ p \in Open /\ "snap" \in DOMAIN local[p]
        BY <1>3 DEF Answer, Holding, Open, MaintInv, Shape, PassStates
    <2>2. UNCHANGED <<mu, digest, stale>>
        BY <1>3 DEF Answer, textVars, histVars
    <2>3. \E where \in {"write", "persist"} : \E l :
             /\ pc' = [pc EXCEPT ![p] = where]
             /\ local' = [local EXCEPT ![p] = l] /\ l.snap = local[p].snap /\ "snap" \in DOMAIN l
        <3> DEFINE same == [local[p] EXCEPT !.given = Given(local[p], section)]
                   new  == [local[p] EXCEPT !.out = NewSection(local[p], section),
                                !.cut = Dropped(local[p], section),
                                !.given = Given(local[p], section)]
        <3>1. same.snap = local[p].snap /\ "snap" \in DOMAIN same
            BY <2>1
        <3>2. new.snap = local[p].snap /\ "snap" \in DOMAIN new
            BY <2>1
        <3>3. \/ pc' = [pc EXCEPT ![p] = "persist"] /\ local' = [local EXCEPT ![p] = same]
              \/ pc' = [pc EXCEPT ![p] = "write"] /\ local' = [local EXCEPT ![p] = new]
            BY <1>3 DEF Answer
        <3> HIDE DEF same, new
        <3> QED
            BY <3>1, <3>2, <3>3
    <2> QED
        BY <2>1, <2>2, <2>3, InsideKeepsInv
<1>4. CASE Write(p)
    <2>1. p \in Holding /\ "snap" \in DOMAIN local[p]
        BY <1>4 DEF Write, Holding, MaintInv, Shape, PassStates
    <2> DEFINE l == [local[p] EXCEPT !.given = @ \ local[p].cut]
    <2>2. "snap" \in DOMAIN l
        BY <2>1
    <2>3. local' = [local EXCEPT ![p] = l] /\ pc' = [pc EXCEPT ![p] = "persist"]
          /\ mu' = mu /\ stale' = stale
        BY <1>4 DEF Write
    <2> HIDE DEF l
    <2> QED
        BY <2>1, <2>2, <2>3, InsideKeepsInv
<1>5. CASE WriteFails(p)
    BY <1>5, LeaveKeepsInv DEF WriteFails, Holding
<1>6. CASE Persist(p)
    BY <1>6, LeaveKeepsInv DEF Persist, Holding
<1> QED
    BY <1>1, <1>2, <1>3, <1>4, <1>5, <1>6 DEF Pass

\* Every step keeps the invariant.
LEMMA MaintKeepsInv == MaintInv /\ [MaintNext]_mpVars => MaintInv'
<1> SUFFICES ASSUME MaintInv, [MaintNext]_mpVars PROVE MaintInv'
    OBVIOUS
<1>1. ASSUME NEW t \in Turns, EndTurn(t) PROVE MaintInv'
    BY <1>1, OthersKeepInv DEF EndTurn, textVars, MaintInv, Shape, PassStates, Passes
<1>2. CASE LoopWakes
    BY <1>2, OthersKeepInv DEF LoopWakes, textVars, histVars, MaintInv, Shape, PassStates, Passes
<1>3. CASE Tick
    BY <1>3, OthersKeepInv DEF Tick, textVars, histVars, MaintInv, Shape
<1>4. CASE Crash
    <2>1. \A q \in Passes : pc'[q] \in {"idle", "done"}
        BY <1>4 DEF Crash
    <2>2. Shape'
        BY <1>4 DEF Crash, Shape, PassStates, Nothing
    <2> QED
        BY <2>1, <2>2 DEF MaintInv, HolderOnly, SnapshotHolds, Holding, Open
<1>5. ASSUME NEW p \in Passes, Pass(p) PROVE MaintInv'
    BY <1>5, PassKeepsInv
<1>6. ASSUME NEW k \in ToolKeys, ToolWrites(k) PROVE MaintInv'
    <2>1. UNCHANGED <<mu, pc, local>>
        BY <1>6 DEF ToolWrites
    <2>2. \/ stale' = stale \cup Open
          \/ stale' = stale /\ digest' = digest
        BY <1>6 DEF ToolWrites
    <2> QED
        BY <2>1, <2>2 DEF MaintInv, Shape, PassStates, HolderOnly, SnapshotHolds, Holding, Open
<1>7. CASE UNCHANGED mpVars
    BY <1>7, OthersKeepInv DEF mpVars, histVars, MaintInv, Shape
<1> QED
    BY <1>1, <1>2, <1>3, <1>4, <1>5, <1>6, <1>7 DEF MaintNext

\* Between its read and its write a pass has the mutex, and its copy of the digest is the
\* file, unless a tool has written the file since (runDistill, maintain_run.go:142-400).
THEOREM PassesExclude == MaintSpec => []SnapshotIsCurrent
<1>1. MaintInv => SnapshotIsCurrent
    BY DEF MaintInv, HolderOnly, SnapshotHolds, Holding, Open, SnapshotIsCurrent
<1> QED
    BY MaintInitInv, MaintKeepsInv, <1>1, PTL DEF MaintSpec

-----------------------------------------------------------------------------
(* The bullets of a text, and the operations on it.                        *)

\* The bullets of a text are those of its elements.
LEMMA BulletElems ==
    ASSUME NEW S, NEW q \in Seq(S)
    PROVE  BulletsOf(q) = {l \in Elems(q) : IsBullet(l)}
<1>1. DOMAIN q = 1 .. Len(q)
    OBVIOUS
<1>2. ToSet(q) = Elems(q)
    BY <1>1 DEF ToSet, Elems
<1> QED
    BY <1>2 DEF BulletsOf

\* The keys of two texts put together.
LEMMA ConcatKeys ==
    ASSUME NEW S, NEW a \in Seq(S), NEW b \in Seq(S)
    PROVE  a \o b \in Seq(S) /\ KeysOf(a \o b) = KeysOf(a) \cup KeysOf(b)
<1>1. a \o b \in Seq(S)
    BY ConcatProperties
<1>2. Elems(a \o b) = Elems(a) \cup Elems(b)
    BY ConcatElems
<1> QED
    BY <1>1, <1>2, BulletElems DEF KeysOf

\* The bullets of a text whose keys are not among the older ones.
Fresh(l, older) == IsBullet(l) /\ l.of \notin older
FreshIn(q, older) == {l \in Elems(q) : Fresh(l, older)}

Distinct(q) == \A i \in 1 .. Len(q) : \A j \in 1 .. Len(q) : q[i] = q[j] => i = j

\* Take has the fresh bullets, each once, those of the first lines first.
LEMMA TakeFacts ==
    ASSUME NEW S, NEW q \in Seq(S), NEW older
    PROVE  /\ Take(q, older) \in Seq(S)
           /\ Elems(Take(q, older)) = FreshIn(q, older)
           /\ Distinct(Take(q, older))
           /\ \A m \in 1 .. Len(q) : Fresh(q[m], older) => Take(q, older)[1] \in {q[i] : i \in 1 .. m}
<1> DEFINE fresh == {i \in 1 .. Len(q) :
                     /\ IsBullet(q[i]) /\ q[i].of \notin older
                     /\ \A j \in 1 .. i - 1 : q[j] # q[i]}
           idx == [i \in 1 .. Len(q) |-> i]
           sel == Kept(idx, fresh)
           t == [n \in 1 .. Len(sel) |-> q[sel[n]]]
<1>1. Take(q, older) = t
    BY DEF Take
<1>2. idx \in Seq(Nat) /\ Len(idx) = Len(q) /\ Len(q) \in Nat /\ Elems(idx) = 1 .. Len(q) /\ Rising(idx)
    <2>1. Len(q) \in Nat /\ idx \in Seq(Nat) /\ Len(idx) = Len(q)
        OBVIOUS
    <2> QED
        BY <2>1 DEF Elems, Rising
<1> HIDE DEF idx
<1>3. sel \in Seq(Nat) /\ Len(sel) \in Nat /\ Elems(sel) = fresh /\ Rising(sel)
    <2>1. sel \in Seq(Nat) /\ Rising(sel)
        BY <1>2, KeptType, KeptIsRising
    <2>2. Elems(sel) = Elems(idx) \cap fresh
        BY <1>2, KeptElements
    <2>3. fresh \subseteq 1 .. Len(q)
        OBVIOUS
    <2> HIDE DEF sel, fresh
    <2>4. Len(sel) \in Nat
        BY <2>1
    <2> QED
        BY <1>2, <2>1, <2>2, <2>3, <2>4
<1> HIDE DEF sel
<1>4. \A n \in 1 .. Len(sel) : sel[n] \in fresh
    BY <1>3 DEF Elems
<1>5. \A i \in fresh : \E n \in 1 .. Len(sel) : sel[n] = i
    BY <1>3 DEF Elems
<1>6. \A i \in fresh : i \in 1 .. Len(q) /\ i \in Nat /\ Fresh(q[i], older) /\ \A j \in 1 .. i - 1 : q[j] # q[i]
    BY DEF Fresh
<1>7. \A m \in 1 .. Len(q) : Fresh(q[m], older) => \E i \in fresh : i <= m /\ q[i] = q[m]
    <2> SUFFICES ASSUME NEW m \in 1 .. Len(q), Fresh(q[m], older)
                 PROVE  \E i \in fresh : i <= m /\ q[i] = q[m]
        OBVIOUS
    <2>1. PICK i \in {k \in 1 .. Len(q) : q[k] = q[m]} : \A k \in {n \in 1 .. Len(q) : q[n] = q[m]} : i <= k
        <3> DEFINE U == {k \in 1 .. Len(q) : q[k] = q[m]}
        <3>1. U \in SUBSET Nat /\ U # {}
            BY <1>2
        <3> HIDE DEF U
        <3>2. \E i \in U : \A k \in U : i <= k
            BY <3>1, LeastNatural
        <3> QED
            BY <3>2 DEF U
    <2>2. i <= m /\ i \in Nat
        BY <1>2, <2>1
    <2>3. \A j \in 1 .. i - 1 : q[j] # q[i]
        <3> SUFFICES ASSUME NEW j \in 1 .. i - 1, q[j] = q[i] PROVE FALSE
            OBVIOUS
        <3>1. j \in 1 .. Len(q) /\ j < i
            BY <1>2, <2>1, <2>2
        <3> QED
            BY <2>1, <2>2, <3>1
    <2> QED
        BY <2>1, <2>2, <2>3 DEF Fresh
<1> HIDE DEF fresh
<1>8. Len(t) = Len(sel) /\ t \in Seq(S) /\ \A n \in 1 .. Len(sel) : t[n] = q[sel[n]]
    <2>1. \A n \in 1 .. Len(sel) : q[sel[n]] \in S
        BY <1>4, <1>6
    <2> QED
        BY <1>3, <2>1
<1> HIDE DEF t
<1>9. Elems(t) = {l \in Elems(q) : Fresh(l, older)}
    <2>1. \A n \in 1 .. Len(sel) : t[n] \in Elems(q) /\ Fresh(t[n], older)
        BY <1>4, <1>6, <1>8 DEF Elems
    <2>2. \A m \in 1 .. Len(q) : Fresh(q[m], older) => \E n \in 1 .. Len(sel) : t[n] = q[m]
        BY <1>5, <1>7, <1>8
    <2>3. Elems(t) = {t[n] : n \in 1 .. Len(sel)} /\ Elems(q) = {q[m] : m \in 1 .. Len(q)}
        BY <1>8 DEF Elems
    <2>4. \A l \in Elems(t) : l \in Elems(q) /\ Fresh(l, older)
        BY <2>1, <2>3
    <2>5. ASSUME NEW l \in Elems(q), Fresh(l, older) PROVE l \in Elems(t)
        <3>1. PICK m \in 1 .. Len(q) : l = q[m]
            BY <2>3
        <3> QED
            BY <2>2, <2>3, <2>5, <3>1
    <2> QED
        BY <2>4, <2>5
<1>10. Distinct(t)
    <2>1. ASSUME NEW i \in 1 .. Len(sel), NEW j \in 1 .. Len(sel), i < j PROVE t[i] # t[j]
        <3>1. sel[i] < sel[j] /\ sel[i] \in fresh /\ sel[j] \in fresh
            BY <1>3, <1>4, <2>1 DEF Rising
        <3>2. sel[i] \in 1 .. sel[j] - 1
            BY <1>2, <1>6, <3>1
        <3> QED
            BY <1>6, <1>8, <3>1, <3>2
    <2>2. \A i \in 1 .. Len(sel), j \in 1 .. Len(sel) : i = j \/ i < j \/ j < i
        BY <1>3
    <2> QED
        BY <1>8, <2>1, <2>2 DEF Distinct
<1>11. ASSUME NEW m \in 1 .. Len(q), Fresh(q[m], older) PROVE t[1] \in {q[i] : i \in 1 .. m}
    <2>1. PICK i \in fresh : i <= m
        BY <1>7, <1>11
    <2>2. PICK n \in 1 .. Len(sel) : sel[n] = i
        BY <1>5
    <2>3. 1 \in 1 .. Len(sel) /\ sel[1] \in Nat /\ sel[1] <= sel[n]
        <3>1. 1 \in 1 .. Len(sel) /\ (n = 1 \/ 1 < n)
            BY <1>3
        <3> QED
            BY <1>3, <1>4, <1>6, <3>1 DEF Rising
    <2>4. sel[1] \in 1 .. m /\ t[1] = q[sel[1]]
        BY <1>2, <1>4, <1>6, <1>8, <2>1, <2>2, <2>3
    <2> QED
        BY <2>4
<1> QED
    BY <1>1, <1>8, <1>9, <1>10, <1>11 DEF FreshIn

\* The least element is in the set.
LEMMA MinFacts ==
    ASSUME NEW T \in SUBSET Nat, T # {}
    PROVE  Min(T) \in T /\ \A n \in T : Min(T) <= n
<1>1. \E n \in T : \A m \in T : n <= m
    BY LeastNatural
<1> QED
    BY <1>1 DEF Min

\* Where a day's block is.
LEMMA SpanFacts ==
    ASSUME NEW S, NEW md \in Seq(S), NEW d
    PROVE  LET s == Span(md, d) IN
           /\ s.found \in BOOLEAN /\ s.from \in Nat /\ s.to \in Nat
           /\ 1 <= s.from /\ s.from <= s.to /\ s.to <= Len(md) + 1
           /\ IF s.found THEN s.from < s.to ELSE s.from = 1 /\ s.to = 1
<1> DEFINE I == {i \in 1 .. Len(md) : md[i] = Header(d)}
           first == IF I # {} THEN Min(I) ELSE 0
           ends == {i \in first + 1 .. Len(md) : IsHeader(md[i]) /\ md[i] # Header(d)}
           to == IF ends = {} THEN Len(md) + 1 ELSE CHOOSE i \in ends : \A j \in ends : i <= j
<1>1. Len(md) \in Nat
    OBVIOUS
<1>2. SelectInSeq(md, LAMBDA l : l = Header(d)) = first
    BY DEF SelectInSeq
<1>3. Span(md, d) = IF first = 0 THEN [found |-> FALSE, from |-> 1, to |-> 1]
                    ELSE [found |-> TRUE, from |-> first, to |-> to]
    BY <1>2 DEF Span
<1>4. first \in Nat /\ (first # 0 => first \in 1 .. Len(md))
    <2>1. I \in SUBSET Nat
        OBVIOUS
    <2>2. I # {} => Min(I) \in I
        BY <2>1, MinFacts
    <2> QED
        BY <2>2
<1> HIDE DEF first
<1>5. to \in Nat /\ (first # 0 => first < to) /\ to <= Len(md) + 1
    <2>1. CASE ends = {}
        BY <1>1, <1>4, <2>1
    <2>2. CASE ends # {}
        <3>1. ends \in SUBSET Nat
            BY <1>4
        <3>2. \E i \in ends : \A j \in ends : i <= j
            <4> HIDE DEF ends
            <4> QED
                BY <2>2, <3>1, LeastNatural
        <3>3. to \in ends
            <4> HIDE DEF ends
            <4> QED
                BY <2>2, <3>2
        <3> QED
            BY <1>1, <1>4, <3>3
    <2> QED
        BY <2>1, <2>2
<1> HIDE DEF to
<1>6. CASE first = 0
    BY <1>1, <1>3, <1>6
<1>7. CASE first # 0
    BY <1>1, <1>3, <1>4, <1>5, <1>7
<1> QED
    BY <1>6, <1>7

\* A text is its block and what is before and after it.
LEMMA PartFacts ==
    ASSUME NEW S, NEW md \in Seq(S), NEW d
    PROVE  LET s == Span(md, d) IN
           /\ Block(md, s) \in Seq(S) /\ Before(md, s) \in Seq(S) /\ After(md, s) \in Seq(S)
           /\ Without(md, s) \in Seq(S)
           /\ KeysOf(md) = KeysOf(Without(md, s)) \cup KeysOf(Block(md, s))
           /\ KeysOf(Without(md, s)) = KeysOf(Before(md, s)) \cup KeysOf(After(md, s))
           /\ s.found <=> Block(md, s) # <<>>
<1> DEFINE s == Span(md, d)
<1>1. /\ s.found \in BOOLEAN /\ s.from \in Nat /\ s.to \in Nat
      /\ 1 <= s.from /\ s.from <= s.to /\ s.to <= Len(md) + 1
      /\ IF s.found THEN s.from < s.to ELSE s.from = 1 /\ s.to = 1
    BY SpanFacts
<1> HIDE DEF s
<1>2. Len(md) \in Nat
    OBVIOUS
<1>3. /\ s.from \in Nat \ {0} /\ s.to \in Nat \ {0} /\ s.from - 1 \in Int /\ s.to - 1 \in Int
      /\ s.from - 1 <= Len(md) /\ s.to - 1 <= Len(md)
    BY <1>1, <1>2
<1>4. Block(md, s) \in Seq(S) /\ Before(md, s) \in Seq(S) /\ After(md, s) \in Seq(S)
    BY <1>2, <1>3, PartElems DEF Block, Before, After
<1>5. Elems(md) = Elems(Before(md, s)) \cup Elems(Block(md, s)) \cup Elems(After(md, s))
    BY <1>1, CutElems DEF Block, Before, After
<1>6. Without(md, s) \in Seq(S) /\ KeysOf(Without(md, s)) = KeysOf(Before(md, s)) \cup KeysOf(After(md, s))
    BY <1>4, ConcatKeys DEF Without
<1>7. KeysOf(md) = KeysOf(Before(md, s)) \cup KeysOf(Block(md, s)) \cup KeysOf(After(md, s))
    BY <1>4, <1>5, BulletElems DEF KeysOf
<1>8. s.found <=> Block(md, s) # <<>>
    <2>1. Len(Block(md, s)) = IF s.from <= s.to - 1 THEN s.to - 1 - s.from + 1 ELSE 0
        <3>1. \A i \in s.from .. s.to - 1 : md[i] \in S
            BY <1>1, <1>2
        <3> QED
            BY <1>3, <3>1, SubSeqProperties DEF Block
    <2>2. Block(md, s) = <<>> <=> Len(Block(md, s)) = 0
        BY <1>4, EmptySeq
    <2> QED
        BY <1>1, <2>1, <2>2
<1> QED
    BY <1>4, <1>6, <1>7, <1>8 DEF s

\* What stands behind a block begins with a header.
LEMMA BehindFacts ==
    ASSUME NEW S, NEW md \in Seq(S), NEW d, Span(md, d).found, After(md, Span(md, d)) # <<>>
    PROVE  IsHeader(Head(After(md, Span(md, d))))
<1> DEFINE I == {i \in 1 .. Len(md) : md[i] = Header(d)}
           first == IF I # {} THEN Min(I) ELSE 0
           ends == {i \in first + 1 .. Len(md) : IsHeader(md[i]) /\ md[i] # Header(d)}
           to == IF ends = {} THEN Len(md) + 1 ELSE CHOOSE i \in ends : \A j \in ends : i <= j
           s == Span(md, d)
           z == After(md, s)
<1>1. Len(md) \in Nat
    OBVIOUS
<1>2. SelectInSeq(md, LAMBDA l : l = Header(d)) = first
    BY DEF SelectInSeq
<1>3. s = IF first = 0 THEN [found |-> FALSE, from |-> 1, to |-> 1]
          ELSE [found |-> TRUE, from |-> first, to |-> to]
    BY <1>2 DEF Span
<1>4. first \in Nat
    <2>1. I \in SUBSET Nat
        OBVIOUS
    <2>2. I # {} => Min(I) \in I
        BY <2>1, MinFacts
    <2> QED
        BY <2>2
<1>5. s.found /\ z # <<>>
    OBVIOUS
<1> HIDE DEF first
<1>6. s.to = to
    BY <1>3, <1>5
<1>7. z = SubSeq(md, s.to, Len(md))
    BY DEF After
<1> HIDE DEF s, z
<1>8. CASE ends = {}
    <2>1. s.to = Len(md) + 1
        BY <1>6, <1>8
    <2>2. SubSeq(md, Len(md) + 1, Len(md)) = <<>>
        BY <1>1
    <2> QED
        BY <1>5, <1>7, <2>1, <2>2
<1>9. CASE ends # {}
    <2>1. ends \in SUBSET Nat
        BY <1>4
    <2>2. to \in ends
        <3> HIDE DEF ends
        <3>1. \E i \in ends : \A j \in ends : i <= j
            BY <1>9, <2>1, LeastNatural
        <3> QED
            BY <1>9, <3>1
    <2>3. s.to \in 1 .. Len(md) /\ IsHeader(md[s.to])
        BY <1>1, <1>4, <1>6, <2>2
    <2>4. Len(z) = Len(md) - s.to + 1 /\ z[1] = md[s.to]
        BY <1>1, <1>7, <2>3
    <2>5. Head(z) = md[s.to]
        BY <1>1, <2>3, <2>4
    <2> QED
        BY <2>3, <2>5 DEF z, s
<1> QED
    BY <1>8, <1>9

\* A block joined to the rest of a file loses its last bullet at most, and of the rest only
\* the header.
LEMMA JoinedFacts ==
    ASSUME NEW S, Bullet(Garbled) \in S, NEW front \in Seq(S), NEW rest \in Seq(S),
           rest # <<>> => IsHeader(Head(rest))
    PROVE  /\ Joined(front, rest) \in Seq(S)
           /\ KeysOf(rest) \subseteq KeysOf(Joined(front, rest))
           /\ KeysOf(front) \subseteq KeysOf(Joined(front, rest)) \cup (IF rest = <<>> THEN {} ELSE {Last(front).of})
<1>1. CASE rest = <<>>
    <2>1. Joined(front, rest) = front /\ KeysOf(rest) = {}
        <3>1. BulletsOf(rest) = {}
            BY <1>1, BulletElems, EmptyElems
        <3> QED
            BY <1>1, <3>1 DEF Joined, KeysOf
    <2> QED
        BY <1>1, <2>1
<1>2. CASE rest # <<>>
    <2> DEFINE a == Front(front)
               g == <<Bullet(Garbled)>>
               z == Tail(rest)
    <2>1. Len(front) \in Nat /\ Len(front) - 1 \in Int /\ Len(front) - 1 <= Len(front)
        OBVIOUS
    <2>2. a \in Seq(S) /\ Elems(a) = {front[i] : i \in 1 .. Len(front) - 1}
        BY <2>1, PartElems DEF Front
    <2>3. z \in Seq(S) /\ Elems(rest) = Elems(z) \cup {Head(rest)}
        BY <1>2, TailFacts
    <2>4. g \in Seq(S)
        OBVIOUS
    <2>5. Joined(front, rest) = (a \o g) \o z
        BY <1>2 DEF Joined
    <2> HIDE DEF a, g, z
    <2> DEFINE w == a \o g
    <2>6. w \in Seq(S) /\ KeysOf(w) = KeysOf(a) \cup KeysOf(g)
        BY <2>2, <2>4, ConcatKeys
    <2> HIDE DEF w
    <2>7. w \o z \in Seq(S) /\ KeysOf(w \o z) = KeysOf(w) \cup KeysOf(z)
        BY <2>3, <2>6, ConcatKeys
    <2>8. Joined(front, rest) = w \o z
        BY <2>5 DEF w
    <2>9. KeysOf(rest) = KeysOf(z)
        <3>1. ~ IsBullet(Head(rest))
            BY <1>2 DEF IsBullet, IsHeader
        <3>2. BulletsOf(rest) = BulletsOf(z)
            BY <2>3, <3>1, BulletElems
        <3> QED
            BY <3>2 DEF KeysOf
    <2>10. KeysOf(front) \subseteq KeysOf(a) \cup {Last(front).of}
        <3>1. Elems(front) \subseteq Elems(a) \cup {Last(front)}
            <4>1. \A i \in 1 .. Len(front) : i \in 1 .. Len(front) - 1 \/ i = Len(front)
                BY <2>1
            <4>2. Last(front) = front[Len(front)]
                BY DEF Last
            <4> QED
                BY <2>2, <4>1, <4>2 DEF Elems
        <3>2. BulletsOf(front) \subseteq BulletsOf(a) \cup {Last(front)}
            BY <2>2, <3>1, BulletElems
        <3> QED
            BY <3>2 DEF KeysOf
    <2> QED
        BY <1>2, <2>6, <2>7, <2>8, <2>9, <2>10
<1> QED
    BY <1>1, <1>2

\* A section whose first bullet is the one for nothing has that bullet.
LEMMA NothingIsAKey ==
    ASSUME NEW S, NEW q \in Seq(S), OnlyNoDurable(q)
    PROVE  NoDurable \in KeysOf(q)
<1> DEFINE I == {i \in 1 .. Len(q) : IsBullet(q[i])}
           first == IF I # {} THEN Min(I) ELSE 0
<1>1. SelectInSeq(q, IsBullet) = first
    BY DEF SelectInSeq
<1>2. first # 0 => first \in I
    <2>1. I \in SUBSET Nat
        OBVIOUS
    <2> HIDE DEF I
    <2> QED
        BY <2>1, MinFacts
<1> HIDE DEF first
<1>3. first \in I /\ q[first] = Bullet(NoDurable)
    BY <1>1, <1>2 DEF OnlyNoDurable
<1>4. q[first] \in Elems(q) /\ IsBullet(q[first]) /\ q[first].of = NoDurable
    BY <1>3 DEF Elems, Bullet
<1> QED
    BY <1>4, BulletElems DEF KeysOf

\* A section is one line and bullets behind it.
AllBullets(q) == \A l \in Elems(q) : IsBullet(l)
Section(h, b) == <<h>> \o b

\* The elements and keys of a section.
LEMMA SectionFacts ==
    ASSUME NEW S, NEW h \in S, NEW b \in Seq(S), AllBullets(b)
    PROVE  /\ Section(h, b) \in Seq(S) /\ Section(h, b) # <<>>
           /\ Head(Section(h, b)) = h /\ Tail(Section(h, b)) = b /\ Len(Section(h, b)) = Len(b) + 1
           /\ Elems(Section(h, b)) = {h} \cup Elems(b)
           /\ KeysOf(b) \subseteq KeysOf(Section(h, b))
           /\ ~ IsBullet(h) => KeysOf(Section(h, b)) = KeysOf(b)
           /\ KeysOf(b) = {l.of : l \in Elems(b)}
<1>1. /\ <<h>> \o b \in Seq(S) /\ Elems(<<h>> \o b) = {h} \cup Elems(b)
      /\ <<h>> \o b # <<>> /\ Head(<<h>> \o b) = h /\ Tail(<<h>> \o b) = b
    BY PushFacts, ConsFacts
<1>2. Len(<<h>> \o b) = Len(b) + 1
    OBVIOUS
<1>3. BulletsOf(b) = Elems(b)
    BY BulletElems DEF AllBullets
<1>4. BulletsOf(<<h>> \o b) = IF IsBullet(h) THEN {h} \cup Elems(b) ELSE Elems(b)
    BY <1>1, BulletElems DEF AllBullets
<1> QED
    BY <1>1, <1>2, <1>3, <1>4 DEF KeysOf, Section

\* The bullet for nothing stands in for no bullets.
LEMMA OrNothingFacts ==
    ASSUME NEW S, NEW b \in Seq(S), AllBullets(b), Bullet(NoDurable) \in S
    PROVE  /\ OrNothing(b) \in Seq(S) /\ AllBullets(OrNothing(b))
           /\ Elems(b) \subseteq Elems(OrNothing(b))
           /\ b # <<>> => OrNothing(b) = b
<1>1. CASE b # <<>>
    BY <1>1 DEF OrNothing
<1>2. CASE b = <<>>
    <2>1. OrNothing(b) = <<Bullet(NoDurable)>> /\ <<Bullet(NoDurable)>> \in Seq(S)
        BY <1>2 DEF OrNothing
    <2>2. Elems(<<Bullet(NoDurable)>>) = {Bullet(NoDurable)} /\ IsBullet(Bullet(NoDurable)) /\ Elems(b) = {}
        BY <1>2, EmptyElems DEF Elems, IsBullet, Bullet
    <2> QED
        BY <1>2, <2>1, <2>2 DEF AllBullets
<1> QED
    BY <1>1, <1>2

\* What is taken of a text are bullets, and the fresh ones are not lost.
LEMMA TakenFacts ==
    ASSUME NEW S, NEW q \in Seq(S), NEW older, Bullet(NoDurable) \in S
    PROVE  LET t == Take(q, older) IN
           /\ OrNothing(t) \in Seq(S) /\ AllBullets(OrNothing(t))
           /\ FreshIn(q, older) \subseteq Elems(OrNothing(t))
           /\ FreshIn(q, older) # {} => OrNothing(t) = t
<1> DEFINE t == Take(q, older)
<1>1. t \in Seq(S) /\ Elems(t) = FreshIn(q, older)
    BY TakeFacts
<1> HIDE DEF t
<1>2. AllBullets(t)
    BY <1>1 DEF AllBullets, FreshIn, Fresh
<1>3. FreshIn(q, older) # {} => t # <<>>
    BY <1>1, EmptyElems
<1> QED
    BY <1>1, <1>2, <1>3, OrNothingFacts DEF t

\* What the day's header stands in front of is the body.
LEMMA BodyFacts ==
    ASSUME NEW S, NEW d, Header(d) \in S, NEW b \in Seq(S), AllBullets(b)
    PROVE  Body(Section(Header(d), b), d) = b
<1> DEFINE q == Section(Header(d), b)
           I == {i \in 1 .. Len(q) : q[i] = Header(d)}
           J == {i \in 1 .. Len(q) : IsHeader(q[i]) /\ q[i] # Header(d)}
           start == IF I # {} THEN Min(I) ELSE 0
           stop == IF J # {} THEN Min(J) ELSE 0
<1>1. q \in Seq(S) /\ Len(q) = Len(b) + 1 /\ Len(b) \in Nat /\ Elems(q) = {Header(d)} \cup Elems(b)
      /\ q # <<>> /\ Head(q) = Header(d) /\ Tail(q) = b
    BY SectionFacts
<1>2. Body(q, d) = IF start = 0 THEN <<>> ELSE SubSeq(q, start + 1, IF stop = 0 THEN Len(q) ELSE stop - 1)
    <2>1. SelectInSeq(q, LAMBDA l : l = Header(d)) = start
        BY DEF SelectInSeq
    <2>2. SelectInSeq(q, LAMBDA l : IsHeader(l) /\ l # Header(d)) = stop
        BY DEF SelectInSeq
    <2> HIDE DEF start, stop, q
    <2> QED
        BY <2>1, <2>2 DEF Body
<1> HIDE DEF q
<1>3. start = 1
    <2>1. 1 \in I /\ I \in SUBSET Nat
        <3>1. q[1] = Header(d) /\ 1 \in 1 .. Len(q)
            BY <1>1
        <3> QED
            BY <3>1
    <2> HIDE DEF I
    <2>2. Min(I) \in Nat /\ Min(I) <= 1 /\ Min(I) \in I
        BY <2>1, MinFacts
    <2>3. Min(I) # 0
        BY <2>2 DEF I
    <2> QED
        BY <2>1, <2>2, <2>3
<1>4. stop = 0
    <2>1. \A i \in 1 .. Len(q) : q[i] = Header(d) \/ q[i] \in Elems(b)
        BY <1>1 DEF Elems
    <2>2. \A l \in Elems(b) : ~ IsHeader(l)
        BY DEF AllBullets, IsBullet, IsHeader
    <2> QED
        BY <2>1, <2>2
<1> HIDE DEF start, stop
<1>5. Body(q, d) = SubSeq(q, 2, Len(q))
    BY <1>2, <1>3, <1>4
<1>6. Tail(q) = SubSeq(q, 2, Len(q))
    BY <1>1, TailIsSubSeq
<1> QED
    BY <1>1, <1>5, <1>6 DEF q

\* The body is a list of lines.
LEMMA BodyType ==
    ASSUME NEW S, NEW q \in Seq(S), NEW d
    PROVE  Body(q, d) \in Seq(S)
<1> DEFINE I == {i \in 1 .. Len(q) : q[i] = Header(d)}
           J == {i \in 1 .. Len(q) : IsHeader(q[i]) /\ q[i] # Header(d)}
           start == IF I # {} THEN Min(I) ELSE 0
           stop == IF J # {} THEN Min(J) ELSE 0
           last == IF stop = 0 THEN Len(q) ELSE stop - 1
<1>1. Body(q, d) = IF start = 0 THEN <<>> ELSE SubSeq(q, start + 1, last)
    <2>1. SelectInSeq(q, LAMBDA l : l = Header(d)) = start
        BY DEF SelectInSeq
    <2>2. SelectInSeq(q, LAMBDA l : IsHeader(l) /\ l # Header(d)) = stop
        BY DEF SelectInSeq
    <2> HIDE DEF start, stop
    <2> QED
        BY <2>1, <2>2 DEF Body
<1>2. Len(q) \in Nat
    OBVIOUS
<1>3. start \in Nat /\ stop \in Nat /\ stop <= Len(q)
    <2>1. I \in SUBSET Nat /\ J \in SUBSET Nat
        OBVIOUS
    <2>2. (I # {} => Min(I) \in I) /\ (J # {} => Min(J) \in J)
        BY <2>1, MinFacts
    <2> QED
        BY <1>2, <2>2
<1> HIDE DEF start, stop
<1>4. start + 1 \in Nat \ {0} /\ last \in Int /\ last <= Len(q)
    BY <1>2, <1>3
<1> HIDE DEF last
<1>5. SubSeq(q, start + 1, last) \in Seq(S)
    BY <1>4, PartElems
<1> QED
    BY <1>1, <1>5

\* Duplicates left out, a section is its first line and bullets, the fresh ones among them.
LEMMA DedupeFacts ==
    ASSUME NEW S, NEW q \in Seq(S), q # <<>>, NEW older, Bullet(NoDurable) \in S
    PROVE  \E b \in Seq(S) :
              /\ AllBullets(b) /\ Dedupe(q, older) = Section(Head(q), b)
              /\ FreshIn(Tail(q), older) \subseteq Elems(b)
              /\ FreshIn(Tail(q), older) # {} => b = Take(Tail(q), older)
<1>1. Head(q) \in S /\ Tail(q) \in Seq(S) /\ Len(Tail(q)) = Len(q) - 1 /\ Len(q) \in Nat \ {0}
    <2>1. Len(q) \in Nat \ {0}
        OBVIOUS
    <2> QED
        BY <2>1, TailFacts
<1>2. CASE Len(q) <= 1
    <2>1. Tail(q) = <<>> /\ q = <<Head(q)>> \o <<>>
        <3>1. Tail(q) = <<>>
            BY <1>1, <1>2, EmptySeq
        <3>2. q = <<Head(q)>> \o Tail(q)
            BY <1>1
        <3> QED
            BY <3>1, <3>2
    <2>2. Dedupe(q, older) = Section(Head(q), <<>>)
        BY <1>2, <2>1 DEF Dedupe, Section
    <2>3. <<>> \in Seq(S) /\ AllBullets(<<>>) /\ Elems(Tail(q)) = {}
        <3>1. <<>> \in Seq(S)
            OBVIOUS
        <3>2. \A l \in Elems(<<>>) : IsBullet(l)
            BY EmptyElems
        <3> QED
            BY <2>1, <3>1, <3>2, EmptyElems DEF AllBullets
    <2> QED
        BY <2>2, <2>3 DEF FreshIn
<1>3. CASE ~ Len(q) <= 1
    <2>1. Dedupe(q, older) = Section(Head(q), OrNothing(Take(Tail(q), older)))
        BY <1>3 DEF Dedupe, Section
    <2> QED
        BY <1>1, <2>1, TakenFacts
<1> QED
    BY <1>2, <1>3

\* Merged, a section is one line and bullets; the fresh ones of the old block are among
\* them, and so are those of the new section behind the day's header.
LEMMA MergeFacts ==
    ASSUME NEW S, NEW block \in Seq(S), block # <<>>, NEW h \in S, NEW t \in Seq(S), AllBullets(t),
           NEW d, NEW older, Bullet(NoDurable) \in S, Header(d) \in S
    PROVE  \E b \in Seq(S) :
              /\ AllBullets(b) /\ Merge(block, Section(h, t), d, older) = Section(Header(d), b)
              /\ FreshIn(block, older) \subseteq Elems(b)
              /\ h = Header(d) =>
                    /\ FreshIn(t, older) \subseteq Elems(b)
                    /\ FreshIn(t, older) # {} => b = Take(block \o t, older)
<1> DEFINE new == Section(h, t)
           body == Body(new, d)
           b == OrNothing(Take(block \o body, older))
<1>1. new \in Seq(S)
    BY SectionFacts
<1>2. body \in Seq(S) /\ (h = Header(d) => body = t)
    BY <1>1, BodyType, BodyFacts
<1>3. Merge(block, new, d, older) = Section(Header(d), b)
    BY DEF Merge, Section
<1> HIDE DEF new, body
<1>4. block \o body \in Seq(S) /\ Elems(block \o body) = Elems(block) \cup Elems(body)
    BY <1>2, ConcatProperties, ConcatElems
<1>5. /\ b \in Seq(S) /\ AllBullets(b)
      /\ FreshIn(block \o body, older) \subseteq Elems(b)
      /\ FreshIn(block \o body, older) # {} => b = Take(block \o body, older)
    BY <1>4, TakenFacts
<1> HIDE DEF b
<1>6. FreshIn(block, older) \subseteq Elems(b)
    BY <1>4, <1>5 DEF FreshIn
<1>7. ASSUME h = Header(d)
      PROVE  /\ FreshIn(t, older) \subseteq Elems(b)
             /\ FreshIn(t, older) # {} => b = Take(block \o t, older)
    BY <1>2, <1>4, <1>5, <1>7 DEF FreshIn
<1> QED
    BY <1>3, <1>5, <1>6, <1>7 DEF new

\* The first bullet that stays when the size cap cuts a section.
CutFrom(b, max) == Len(b) - max + 2

\* The size cap leaves a section that is short enough alone, and else the day's header and
\* the last bullets.
LEMMA TrimFacts ==
    ASSUME NEW S, NEW h \in S, NEW b \in Seq(S), AllBullets(b), NEW d, Header(d) \in S, NEW max \in Nat \ {0, 1}
    PROVE  /\ Trim(Section(h, b), d, max) \in Seq(S)
           /\ h = Header(d) =>
                 \/ Trim(Section(h, b), d, max) = Section(h, b)
                 \/ /\ CutFrom(b, max) \in 2 .. Len(b)
                    /\ Trim(Section(h, b), d, max) = Section(h, SubSeq(b, CutFrom(b, max), Len(b)))
<1> DEFINE q == Section(h, b)
           from == CutFrom(b, max)
           K == BulletsOf(q)
<1>1. /\ q \in Seq(S) /\ q # <<>> /\ Head(q) = h /\ Tail(q) = b
      /\ Elems(q) = {h} \cup Elems(b) /\ Len(q) = Len(b) + 1 /\ Len(b) \in Nat
    BY SectionFacts
<1>2. ~ IsBullet(Header(d))
    BY DEF IsBullet, Header
<1> HIDE DEF q
<1>3. K = {l \in Elems(q) : IsBullet(l)}
    BY <1>1, BulletElems
<1> HIDE DEF K
<1>4. h = Header(d) => Kept(q, K) = b
    <2> SUFFICES ASSUME h = Header(d) PROVE Kept(q, K) = b
        OBVIOUS
    <2>1. Head(q) \notin K
        BY <1>1, <1>2, <1>3
    <2>2. b \in Seq(K)
        <3>1. \A i \in 1 .. Len(b) : b[i] \in K
            BY <1>1, <1>3 DEF Elems, AllBullets
        <3> QED
            BY <3>1
    <2>3. Kept(q, K) = Kept(Tail(q), K)
        BY <1>1, <2>1, KeptOfTail
    <2> QED
        BY <1>1, <2>2, <2>3, KeptWhole
<1>5. Contains(q, Header(d)) => h = Header(d)
    <2>1. Contains(q, Header(d)) => Header(d) \in Elems(q)
        BY DEF Contains, Elems
    <2> QED
        BY <1>1, <1>2, <2>1 DEF AllBullets
<1>6. h = Header(d) => Contains(q, Header(d))
    <2>1. q[1] = h /\ 1 \in 1 .. Len(q)
        BY <1>1
    <2> QED
        BY <2>1 DEF Contains
<1>7. Trim(q, d, max) = IF Len(q) <= max THEN q
                        ELSE IF ~ Contains(q, Header(d)) THEN SubSeq(q, 1, max)
                        ELSE <<Header(d)>> \o SubSeq(Kept(q, K), Len(Kept(q, K)) - max + 2, Len(Kept(q, K)))
    BY DEF Trim, K
<1>8. CASE Len(q) <= max
    BY <1>1, <1>7, <1>8 DEF q
<1>9. CASE ~ Len(q) <= max /\ ~ Contains(q, Header(d))
    <2>1. 1 \in Nat \ {0} /\ max \in Int /\ max <= Len(q)
        BY <1>1, <1>9
    <2>2. SubSeq(q, 1, max) \in Seq(S)
        BY <1>1, <2>1, PartElems
    <2> QED
        BY <1>6, <1>7, <1>9, <2>2 DEF q
<1>10. CASE ~ Len(q) <= max /\ Contains(q, Header(d))
    <2>1. Trim(q, d, max) = Section(h, SubSeq(b, from, Len(b)))
        BY <1>4, <1>5, <1>7, <1>10 DEF CutFrom, Section
    <2>2. from \in 2 .. Len(b) /\ from \in Nat \ {0} /\ Len(b) \in Int /\ Len(b) <= Len(b)
        BY <1>1, <1>10 DEF CutFrom
    <2> HIDE DEF from
    <2>3. SubSeq(b, from, Len(b)) \in Seq(S)
        BY <2>2, PartElems
    <2>4. Section(h, SubSeq(b, from, Len(b))) \in Seq(S)
        BY <2>3, PushFacts DEF Section
    <2> QED
        BY <2>1, <2>2, <2>4 DEF q, from
<1> QED
    BY <1>8, <1>9, <1>10

\* A block that has lost its oldest bullets to the cap is not the one it was: its first
\* bullet would have to be one of the later ones.
LEMMA CutChanges ==
    ASSUME NEW S, NEW block \in Seq(S), NEW t \in Seq(S), NEW older, NEW d, Header(d) \in S,
           NEW from \in 2 .. Len(Take(block \o t, older)),
           block = Section(Header(d), SubSeq(Take(block \o t, older), from, Len(Take(block \o t, older))))
    PROVE  FALSE
<1> DEFINE all == block \o t
           b == Take(all, older)
           c == SubSeq(b, from, Len(b))
<1>1. /\ all \in Seq(S) /\ Len(all) = Len(block) + Len(t)
      /\ \A i \in 1 .. Len(block) : all[i] = block[i]
    BY ConcatProperties
<1>2. Len(block) \in Nat /\ Len(t) \in Nat
    OBVIOUS
<1> HIDE DEF all
<1>3. /\ b \in Seq(S) /\ Distinct(b)
      /\ Elems(b) = FreshIn(all, older)
      /\ \A m \in 1 .. Len(all) : Fresh(all[m], older) => b[1] \in {all[i] : i \in 1 .. m}
    BY <1>1, TakeFacts
<1> HIDE DEF b
<1>4. Len(b) \in Nat /\ from \in Nat \ {0} /\ from <= Len(b)
    BY <1>3 DEF b, all
<1>5. c \in Seq(S) /\ Elems(c) = {b[i] : i \in from .. Len(b)}
    <2>1. Len(b) \in Int /\ Len(b) <= Len(b)
        BY <1>4
    <2> QED
        BY <1>3, <1>4, <2>1, PartElems
<1>6. block = Section(Header(d), c)
    BY DEF all, b
<1> HIDE DEF c
<1>7. Elems(block) = {Header(d)} \cup Elems(c)
    BY <1>5, <1>6, PushFacts DEF Section
<1>8. \A l \in Elems(b) : Fresh(l, older) /\ l # Header(d)
    BY <1>3 DEF FreshIn, Fresh, IsBullet, Header
<1>9. b[from] \in Elems(block) /\ Fresh(b[from], older)
    <2>1. from \in from .. Len(b) /\ from \in 1 .. Len(b)
        BY <1>4
    <2>2. b[from] \in Elems(c) /\ b[from] \in Elems(b)
        BY <1>5, <2>1 DEF Elems
    <2> QED
        BY <1>7, <1>8, <2>2
<1>10. PICK m \in 1 .. Len(block) : block[m] = b[from]
    BY <1>9 DEF Elems
<1>11. m \in 1 .. Len(all) /\ all[m] = b[from]
    BY <1>1, <1>2, <1>10
<1>12. b[1] \in Elems(block)
    <2>1. b[1] \in {all[i] : i \in 1 .. m}
        BY <1>3, <1>9, <1>11
    <2>2. \A i \in 1 .. m : i \in 1 .. Len(block)
        BY <1>2, <1>10
    <2> QED
        BY <1>1, <2>1, <2>2 DEF Elems
<1>13. b[1] \in Elems(c)
    <2>1. b[1] \in Elems(b)
        BY <1>4 DEF Elems
    <2> QED
        BY <1>7, <1>8, <1>12, <2>1
<1>14. PICK i \in from .. Len(b) : b[1] = b[i]
    BY <1>5, <1>13
<1>15. i \in 1 .. Len(b) /\ 1 \in 1 .. Len(b) /\ i # 1
    BY <1>4, <1>14
<1> QED
    BY <1>3, <1>14, <1>15 DEF Distinct

\* The lines a pass writes itself are lines.
LEMMA LineFacts ==
    /\ Header(Today) \in Lines /\ Header(Elsewhere) \in Lines
    /\ Bullet(NoDurable) \in Lines /\ Bullet(Garbled) \in Lines /\ \A k \in Keys : Bullet(k) \in Lines
BY DEF Lines, Header, Bullet

\* Today's block in what the pass has read, and the new bullets of an answer.
OldBlock(l) == Block(l.snap, Span(l.snap, Today))
FreshOf(q, l) == FreshIn(q, Older(l))

\* What a pass makes of an answer is one line and bullets b.  A fresh bullet of today's block
\* is among them.
IsMerged(l, section, h, b) ==
    /\ AllBullets(b) /\ Merged(l, section) = Section(h, b)
    /\ FreshOf(OldBlock(l), l) \subseteq Elems(b)

\* If the answer begins with today's header, its fresh bullets are too; if there are some,
\* b has no others, and begins with those of the block.
IsFull(l, section, h, b) ==
    /\ h = Header(Today)
    /\ FreshOf(Tail(section), l) \subseteq Elems(b)
    /\ FreshOf(Tail(section), l) # {} =>
          /\ Elems(b) \subseteq FreshOf(OldBlock(l), l) \cup FreshOf(Tail(section), l)
          /\ OldBlock(l) # <<>> => \E t \in Seq(Lines) : b = Take(OldBlock(l) \o t, Older(l))

\* What dedupe and merge leave.
LEMMA MergedFacts ==
    ASSUME NEW l, l.snap \in Seq(Lines), NEW section \in Sections
    PROVE  \E h \in Lines : \E b \in Seq(Lines) :
              /\ IsMerged(l, section, h, b)
              /\ Head(section) = Header(Today) => IsFull(l, section, h, b)
<1> DEFINE block == OldBlock(l)
           older == Older(l)
           news == FreshOf(Tail(section), l)
           first == Head(section)
<1>1. section \in Seq(Lines) /\ section # <<>> /\ Header(Today) \in Lines /\ Bullet(NoDurable) \in Lines
    BY MaintainAssumption, LineFacts
<1>2. first \in Lines /\ Tail(section) \in Seq(Lines)
    BY <1>1, TailFacts
<1>3. block \in Seq(Lines)
    BY PartFacts DEF OldBlock
<1>4. Merged(l, section) = Merge(block, Dedupe(section, older), Today, older)
    BY DEF Merged, OldBlock
<1>5. news = FreshIn(Tail(section), older)
    BY DEF FreshOf
<1>6. FreshOf(OldBlock(l), l) = FreshIn(block, older)
    BY DEF FreshOf
<1> HIDE DEF block, older, news, first
<1>7. PICK t \in Seq(Lines) :
         /\ AllBullets(t) /\ Dedupe(section, older) = Section(first, t)
         /\ news \subseteq Elems(t)
         /\ news # {} => t = Take(Tail(section), older)
    <2>1. \E t \in Seq(Lines) :
             /\ AllBullets(t) /\ Dedupe(section, older) = Section(Head(section), t)
             /\ FreshIn(Tail(section), older) \subseteq Elems(t)
             /\ FreshIn(Tail(section), older) # {} => t = Take(Tail(section), older)
        BY <1>1, DedupeFacts
    <2> QED
        BY <1>5, <2>1 DEF first
<1>8. news # {} => Elems(t) = news
    BY <1>2, <1>5, <1>7, TakeFacts
<1>9. news = FreshIn(Tail(section), older) /\ \A x \in news : Fresh(x, older)
    BY <1>5 DEF FreshIn
<1> DEFINE new == Section(first, t)
<1>10. Merged(l, section) = Merge(block, new, Today, older)
    BY <1>4, <1>7
<1>11. CASE block = <<>>
    <2>1. Merge(block, new, Today, older) = new
        BY <1>11 DEF Merge
    <2>2. FreshOf(OldBlock(l), l) = {}
        BY <1>6, <1>11, EmptyElems DEF FreshIn
    <2>3. IsMerged(l, section, first, t)
        BY <1>7, <1>10, <2>1, <2>2 DEF IsMerged
    <2>4. first = Header(Today) => IsFull(l, section, first, t)
        BY <1>7, <1>8, <1>11 DEF IsFull, news, block
    <2> QED
        BY <1>2, <2>3, <2>4 DEF first
<1>12. CASE block # <<>>
    <2>1. PICK b \in Seq(Lines) :
             /\ AllBullets(b) /\ Merge(block, new, Today, older) = Section(Header(Today), b)
             /\ FreshIn(block, older) \subseteq Elems(b)
             /\ first = Header(Today) =>
                   /\ FreshIn(t, older) \subseteq Elems(b)
                   /\ FreshIn(t, older) # {} => b = Take(block \o t, older)
        BY <1>1, <1>2, <1>3, <1>7, <1>12, MergeFacts
    <2>2. IsMerged(l, section, Header(Today), b)
        BY <1>6, <1>10, <2>1 DEF IsMerged
    <2>3. ASSUME first = Header(Today) PROVE IsFull(l, section, Header(Today), b)
        <3>1. news \subseteq FreshIn(t, older)
            BY <1>7, <1>9 DEF FreshIn
        <3>2. ASSUME news # {}
              PROVE  /\ Elems(b) \subseteq FreshOf(OldBlock(l), l) \cup news
                     /\ b = Take(block \o t, older)
            <4>1. b = Take(block \o t, older)
                BY <2>1, <2>3, <3>1, <3>2
            <4>2. block \o t \in Seq(Lines) /\ Elems(block \o t) = Elems(block) \cup Elems(t)
                BY <1>3, ConcatProperties, ConcatElems
            <4>3. Elems(b) = FreshIn(block \o t, older)
                BY <4>1, <4>2, TakeFacts
            <4> QED
                BY <1>6, <1>8, <3>2, <4>1, <4>2, <4>3 DEF FreshIn
        <3> QED
            BY <2>1, <2>3, <3>1, <3>2 DEF IsFull, news, block, older
    <2> QED
        BY <1>1, <2>2, <2>3 DEF first
<1> QED
    BY <1>11, <1>12

\* What is to be written are lines.
LEMMA NewSectionType ==
    ASSUME NEW l, l.snap \in Seq(Lines), NEW section \in Sections
    PROVE  NewSection(l, section) \in Seq(Lines) /\ Merged(l, section) \in Seq(Lines)
<1>1. PICK h \in Lines, b \in Seq(Lines) : IsMerged(l, section, h, b)
    BY MergedFacts
<1>2. AllBullets(b) /\ Merged(l, section) = Section(h, b)
    BY <1>1 DEF IsMerged
<1>3. Trim(Section(h, b), Today, MaxLines) \in Seq(Lines)
    BY <1>2, MaintainAssumption, LineFacts, TrimFacts
<1>4. Section(h, b) \in Seq(Lines)
    BY PushFacts DEF Section
<1> QED
    BY <1>2, <1>3, <1>4 DEF NewSection

\* A fact of today's block, or of a well-formed answer, has an older key or is in the merged
\* section.
LEMMA FactsAreMerged ==
    ASSUME NEW l, l.snap \in Seq(Lines), NEW section \in Sections
    PROVE  KeysOf(OldBlock(l)) \cup Given(l, section) \subseteq Older(l) \cup KeysOf(Merged(l, section))
<1>1. PICK h \in Lines, b \in Seq(Lines) :
         IsMerged(l, section, h, b) /\ (Head(section) = Header(Today) => IsFull(l, section, h, b))
    BY MergedFacts
<1>2. AllBullets(b) /\ Merged(l, section) = Section(h, b) /\ FreshOf(OldBlock(l), l) \subseteq Elems(b)
    BY <1>1 DEF IsMerged
<1>3. {x.of : x \in Elems(b)} \subseteq KeysOf(Merged(l, section))
    BY <1>2, SectionFacts
<1>4. OldBlock(l) \in Seq(Lines)
    BY PartFacts DEF OldBlock
<1>5. ASSUME NEW k \in KeysOf(OldBlock(l)), k \notin Older(l) PROVE k \in KeysOf(Merged(l, section))
    <2>1. PICK x \in Elems(OldBlock(l)) : IsBullet(x) /\ x.of = k
        BY <1>4, BulletElems DEF KeysOf
    <2>2. x \in FreshOf(OldBlock(l), l)
        BY <1>5, <2>1 DEF FreshOf, FreshIn, Fresh
    <2> QED
        BY <1>2, <1>3, <2>1, <2>2
<1>6. ASSUME NEW k \in Given(l, section), k \notin Older(l) PROVE k \in KeysOf(Merged(l, section))
    <2>1. Head(section) = Header(Today) /\ k \in KeysOf(section)
        BY <1>6 DEF Given
    <2>2. section \in Seq(Lines) /\ section # <<>>
        BY MaintainAssumption
    <2>3. PICK x \in Elems(section) : IsBullet(x) /\ x.of = k
        BY <2>1, <2>2, BulletElems DEF KeysOf
    <2>4. x \in Elems(Tail(section))
        <3>1. Elems(section) = Elems(Tail(section)) \cup {Header(Today)}
            BY <2>1, <2>2, TailFacts
        <3> QED
            BY <2>3, <3>1 DEF IsBullet, Header
    <2>5. x \in FreshOf(Tail(section), l)
        BY <1>6, <2>3, <2>4 DEF FreshOf, FreshIn, Fresh
    <2> QED
        BY <1>1, <1>3, <2>1, <2>3, <2>5 DEF IsFull
<1> QED
    BY <1>5, <1>6

\* When a pass finds nothing new in a well-formed answer, its facts were in the rules or in
\* the file.
LEMMA NothingIsLost ==
    ASSUME NEW l, l.snap \in Seq(Lines), NEW section \in Sections, NothingNew(l, section)
    PROVE  Given(l, section) \subseteq l.rules \cup KeysOf(l.snap)
<1> SUFFICES ASSUME NEW k \in Given(l, section), k \notin l.rules \cup KeysOf(l.snap) PROVE FALSE
    OBVIOUS
<1> DEFINE block == OldBlock(l)
           older == Older(l)
           news == FreshOf(Tail(section), l)
           new == NewSection(l, section)
<1>1. /\ Head(section) = Header(Today) /\ k \in KeysOf(section)
      /\ NoDurable \notin KeysOf(section) \cup KeysOf(l.snap)
    BY DEF Given
<1>2. section \in Seq(Lines) /\ section # <<>> /\ Header(Today) \in Lines /\ Bullet(NoDurable) \in Lines
    BY MaintainAssumption, LineFacts
<1>3. Tail(section) \in Seq(Lines) /\ Elems(section) = Elems(Tail(section)) \cup {Header(Today)}
    BY <1>1, <1>2, TailFacts
<1>4. /\ block \in Seq(Lines) /\ KeysOf(block) \subseteq KeysOf(l.snap)
      /\ older \subseteq l.rules \cup KeysOf(l.snap)
    BY PartFacts DEF OldBlock, Older
<1>5. PICK x \in Elems(section) : IsBullet(x) /\ x.of = k
    BY <1>1, <1>2, BulletElems DEF KeysOf
<1>6. x \in news
    <2>1. x \in Elems(Tail(section))
        BY <1>3, <1>5 DEF IsBullet, Header
    <2> QED
        BY <1>4, <1>5, <2>1 DEF FreshOf, FreshIn, Fresh
<1>7. PICK h \in Lines, b \in Seq(Lines) :
         IsMerged(l, section, h, b) /\ IsFull(l, section, h, b)
    BY <1>1, MergedFacts
<1>8. /\ AllBullets(b) /\ Merged(l, section) = Section(Header(Today), b)
      /\ Elems(b) \subseteq FreshOf(block, l) \cup news /\ x \in Elems(b)
      /\ block # <<>> => \E t \in Seq(Lines) : b = Take(block \o t, older)
    BY <1>6, <1>7 DEF IsMerged, IsFull
<1>9. \A y \in FreshOf(block, l) \cup news : y.of # NoDurable
    <2>1. ASSUME NEW y \in FreshOf(block, l) PROVE y.of \in KeysOf(block)
        BY <1>4, <2>1, BulletElems DEF FreshOf, FreshIn, Fresh, KeysOf
    <2>2. ASSUME NEW y \in news PROVE y.of \in KeysOf(section)
        BY <1>2, <1>3, <2>2, BulletElems DEF FreshOf, FreshIn, Fresh, KeysOf
    <2> QED
        BY <1>1, <1>4, <2>1, <2>2
<1> DEFINE from == CutFrom(b, MaxLines)
           rest == SubSeq(b, from, Len(b))
<1>10. \/ new = Section(Header(Today), b)
       \/ from \in 2 .. Len(b) /\ new = Section(Header(Today), rest)
    <2>1. MaxLines \in Nat \ {0, 1} /\ Len(b) \in Nat
        BY MaintainAssumption
    <2>2. \/ Trim(Section(Header(Today), b), Today, MaxLines) = Section(Header(Today), b)
          \/ from \in 2 .. Len(b) /\ Trim(Section(Header(Today), b), Today, MaxLines) = Section(Header(Today), rest)
        BY <1>2, <1>8, <2>1, TrimFacts
    <2> QED
        BY <1>8, <2>2 DEF NewSection
<1> HIDE DEF block, older, news, new, from
<1>11. ~ OnlyNoDurable(Dedupe(section, Older(l)))
    <2>1. PICK t \in Seq(Lines) :
             /\ AllBullets(t) /\ Dedupe(section, Older(l)) = Section(Head(section), t)
             /\ FreshIn(Tail(section), Older(l)) # {} => t = Take(Tail(section), Older(l))
        BY <1>2, DedupeFacts
    <2>2. t = Take(Tail(section), Older(l))
        BY <1>6, <2>1 DEF news, FreshOf
    <2>3. Elems(t) = news
        BY <1>3, <2>2, TakeFacts DEF news, FreshOf
    <2>4. KeysOf(Section(Header(Today), t)) = {y.of : y \in Elems(t)} /\ Section(Header(Today), t) \in Seq(Lines)
        <3>1. ~ IsBullet(Header(Today))
            BY DEF IsBullet, Header
        <3> QED
            BY <1>2, <2>1, <3>1, SectionFacts
    <2>5. NoDurable \notin KeysOf(Section(Header(Today), t))
        BY <1>9, <2>3, <2>4
    <2> QED
        BY <1>1, <2>1, <2>4, <2>5, NothingIsAKey
<1>12. ~ OnlyNoDurable(new)
    <2> SUFFICES ASSUME NEW c \in Seq(Lines), Elems(c) \subseteq Elems(b) PROVE ~ OnlyNoDurable(Section(Header(Today), c))
        <3>1. CASE from \in 2 .. Len(b) /\ new = Section(Header(Today), rest)
            <4>1. from \in Nat \ {0} /\ Len(b) \in Int /\ Len(b) <= Len(b)
                BY <3>1
            <4>2. rest \in Seq(Lines) /\ Elems(rest) = {b[i] : i \in from .. Len(b)}
                BY <4>1, PartElems
            <4>3. \A i \in from .. Len(b) : i \in 1 .. Len(b)
                BY <3>1
            <4>4. Elems(rest) \subseteq Elems(b)
                BY <4>2, <4>3 DEF Elems
            <4> QED
                BY <3>1, <4>2, <4>4
        <3> QED
            BY <1>10, <3>1
    <2>1. ~ IsBullet(Header(Today)) /\ AllBullets(c)
        BY <1>8 DEF IsBullet, Header, AllBullets
    <2>2. KeysOf(Section(Header(Today), c)) = {y.of : y \in Elems(c)} /\ Section(Header(Today), c) \in Seq(Lines)
        BY <1>2, <2>1, SectionFacts
    <2>3. NoDurable \notin KeysOf(Section(Header(Today), c))
        BY <1>8, <1>9, <2>2 DEF block
    <2> QED
        BY <2>2, <2>3, NothingIsAKey
<1>13. block # <<>> /\ new = block
    <2>1. Span(l.snap, Today).found /\ NewSection(l, section) = Block(l.snap, Span(l.snap, Today))
        BY <1>11, <1>12 DEF NothingNew, new
    <2> QED
        BY <2>1, PartFacts DEF OldBlock, block, new
<1>14. CASE new = Section(Header(Today), b)
    <2>1. Elems(block) = {Header(Today)} \cup Elems(b)
        BY <1>2, <1>13, <1>14, PushFacts DEF Section
    <2>2. k \in KeysOf(block)
        BY <1>4, <1>5, <1>8, <2>1, BulletElems DEF KeysOf
    <2> QED
        BY <1>4, <2>2
<1>15. CASE from \in 2 .. Len(b) /\ new = Section(Header(Today), rest)
    <2>1. PICK t \in Seq(Lines) : b = Take(block \o t, older)
        BY <1>8, <1>13
    <2> QED
        BY <1>2, <1>4, <1>13, <1>15, <2>1, CutChanges
<1> QED
    BY <1>10, <1>14, <1>15

-----------------------------------------------------------------------------
(* No fact is lost, whatever the models answer and whoever writes.         *)

\* The texts and keys a pass has.
LocalTypes(l) ==
    /\ {"snap", "rules", "out", "given", "cut"} \subseteq DOMAIN l
    /\ l.snap \in Seq(Lines) /\ l.out \in Seq(Lines)

FactTypes == digest \in Seq(Lines) /\ \A p \in Passes : LocalTypes(local[p])

\* What a pass has read is still in the files, but for what tools have taken out since, and
\* what must be kept was there when it read.
ReadIsThere(l) ==
    /\ KeysOf(l.snap) \subseteq KeysOf(digest) \cup taken /\ l.rules \subseteq rules \cup taken
    /\ kept \subseteq KeysOf(l.snap) \cup rules
    /\ kept \cap taken = {}

\* The text a pass is about to write has what must be kept and what it was given, but for
\* what the cap and the join have cut and what tools have taken out.
TextHasAll(l) == kept \cup l.given \subseteq KeysOf(NewText(l)) \cup rules \cup l.cut \cup taken

Safe(p) ==
    /\ pc[p] \in {"ask", "write"} => ReadIsThere(local[p])
    /\ pc[p] = "write" => TextHasAll(local[p])
    /\ pc[p] = "persist" => local[p].given \subseteq KeysOf(digest) \cup rules \cup taken

FactsInv == MaintInv /\ FactTypes /\ FactsAreKept /\ \A p \in Passes : Safe(p)

\* At the start nothing must be kept.
LEMMA FactsInitInv == MaintInit => FactsInv
<1> SUFFICES ASSUME MaintInit PROVE FactsInv
    OBVIOUS
<1>1. MaintInv
    BY MaintInitInv
<1>2. \A p \in Passes : local[p] = Nothing /\ pc[p] = "idle"
    BY DEF MaintInit
<1>3. digest = <<>> /\ kept = {} /\ <<>> \in Seq(Lines)
    BY DEF MaintInit
<1>4. LocalTypes(Nothing)
    BY <1>3 DEF LocalTypes, Nothing
<1> QED
    BY <1>1, <1>2, <1>3, <1>4 DEF FactsInv, FactTypes, FactsAreKept, Safe

\* The text to be written: lines, with the block replaced or the file in front.
LEMMA NewTextFacts ==
    ASSUME FactTypes, NEW l, LocalTypes(l)
    PROVE  /\ NewText(l) \in Seq(Lines)
           /\ KeysOf(l.out) \subseteq KeysOf(NewText(l)) \cup RunTogether(l, l.out)
           /\ IF Span(l.snap, Today).found THEN KeysOf(Without(l.snap, Span(l.snap, Today))) \subseteq KeysOf(NewText(l))
              ELSE KeysOf(digest) \subseteq KeysOf(NewText(l))
<1> DEFINE s == Span(l.snap, Today)
           a == Before(l.snap, s)
           z == After(l.snap, s)
<1>1. l.snap \in Seq(Lines) /\ l.out \in Seq(Lines) /\ digest \in Seq(Lines)
    BY DEF LocalTypes, FactTypes
<1>2. a \in Seq(Lines) /\ z \in Seq(Lines) /\ KeysOf(Without(l.snap, s)) = KeysOf(a) \cup KeysOf(z)
    BY <1>1, PartFacts
<1> DEFINE w == Joined(l.out, z)
<1>3. NewText(l) = IF s.found THEN a \o w ELSE digest \o l.out
    BY DEF NewText
<1>4. /\ RunTogether(l, l.out) = IF s.found /\ z # <<>> THEN {Last(l.out).of} ELSE {}
      /\ s.found /\ z # <<>> => IsHeader(Head(z))
    BY <1>1, BehindFacts DEF RunTogether, Behind
<1> HIDE DEF s, a, z
<1>5. ASSUME s.found
      PROVE  /\ a \o w \in Seq(Lines) /\ KeysOf(a \o w) = KeysOf(a) \cup KeysOf(w)
             /\ KeysOf(z) \subseteq KeysOf(w) /\ KeysOf(l.out) \subseteq KeysOf(w) \cup RunTogether(l, l.out)
    <2>1. /\ w \in Seq(Lines) /\ KeysOf(z) \subseteq KeysOf(w)
          /\ KeysOf(l.out) \subseteq KeysOf(w) \cup (IF z = <<>> THEN {} ELSE {Last(l.out).of})
        <3>1. z # <<>> => IsHeader(Head(z))
            BY <1>4, <1>5
        <3> QED
            BY <1>1, <1>2, <3>1, LineFacts, JoinedFacts
    <2> HIDE DEF w
    <2> QED
        BY <1>2, <1>4, <1>5, <2>1, ConcatKeys
<1> HIDE DEF w
<1>6. digest \o l.out \in Seq(Lines) /\ KeysOf(digest \o l.out) = KeysOf(digest) \cup KeysOf(l.out)
    BY <1>1, ConcatKeys
<1> QED
    BY <1>2, <1>3, <1>5, <1>6 DEF s

\* A bullet behind a text.
LEMMA AppendKeys ==
    ASSUME NEW q \in Seq(Lines), NEW k \in Keys
    PROVE  /\ Append(q, Bullet(k)) \in Seq(Lines)
           /\ KeysOf(Append(q, Bullet(k))) = KeysOf(q) \cup {k}
<1>1. Bullet(k) \in Lines
    BY LineFacts
<1>2. Append(q, Bullet(k)) \in Seq(Lines) /\ Elems(Append(q, Bullet(k))) = Elems(q) \cup {Bullet(k)}
    BY <1>1, AppendFacts
<1>3. IsBullet(Bullet(k)) /\ Bullet(k).of = k
    BY DEF IsBullet, Bullet
<1>4. /\ KeysOf(q) = {l.of : l \in {x \in Elems(q) : IsBullet(x)}}
      /\ KeysOf(Append(q, Bullet(k))) = {l.of : l \in {x \in Elems(Append(q, Bullet(k))) : IsBullet(x)}}
    BY <1>2, BulletElems DEF KeysOf
<1> DEFINE r == Append(q, Bullet(k))
           x == Bullet(k)
<1>5. Elems(r) = Elems(q) \cup {x} /\ IsBullet(x) /\ x.of = k
    BY <1>2, <1>3
<1> HIDE DEF r, x
<1>6. KeysOf(r) = KeysOf(q) \cup {k}
    BY <1>4, <1>5 DEF r, x
<1> QED
    BY <1>2, <1>6 DEF r, x

\* An answer that brings nothing new, or a text with all that must be kept.
LEMMA AnswerIsSafe ==
    ASSUME FactTypes, FactsAreKept, NEW l, LocalTypes(l), ReadIsThere(l), NEW section \in Sections
    PROVE  /\ NothingNew(l, section) => Given(l, section) \subseteq KeysOf(digest) \cup rules \cup taken
           /\ \A m : /\ LocalTypes(m) /\ m.snap = l.snap /\ m.out = NewSection(l, section)
                     /\ m.cut = Dropped(l, section)
                     /\ m.given = Given(l, section)
                     => TextHasAll(m)
<1>1. l.snap \in Seq(Lines)
    BY DEF LocalTypes
<1>2. NothingNew(l, section) => Given(l, section) \subseteq KeysOf(digest) \cup rules \cup taken
    BY <1>1, NothingIsLost DEF ReadIsThere
<1>3. ASSUME NEW m, LocalTypes(m), m.snap = l.snap, m.out = NewSection(l, section),
             m.cut = Dropped(l, section),
             m.given = Given(l, section)
      PROVE  TextHasAll(m)
    <2> DEFINE s == Span(l.snap, Today)
    <2>1. KeysOf(OldBlock(l)) \cup Given(l, section) \subseteq Older(l) \cup KeysOf(Merged(l, section))
        BY <1>1, FactsAreMerged
    <2>2. Older(l) = l.rules \cup KeysOf(Without(l.snap, s))
        BY DEF Older
    <2>3. /\ KeysOf(l.snap) = KeysOf(Without(l.snap, s)) \cup KeysOf(OldBlock(l))
          /\ ~ s.found => OldBlock(l) = <<>>
        BY <1>1, PartFacts DEF OldBlock
    <2>4. /\ KeysOf(m.out) \subseteq KeysOf(NewText(m)) \cup m.cut
          /\ IF s.found THEN KeysOf(Without(l.snap, s)) \subseteq KeysOf(NewText(m))
             ELSE KeysOf(digest) \subseteq KeysOf(NewText(m))
        <3>1. RunTogether(m, m.out) \subseteq m.cut
            BY <1>3 DEF Dropped, RunTogether, Behind
        <3> QED
            BY <1>3, <3>1, NewTextFacts
    <2>5. KeysOf(Without(l.snap, s)) \subseteq KeysOf(NewText(m)) \cup taken
        BY <2>3, <2>4 DEF ReadIsThere
    <2>6. ASSUME NEW k \in Older(l) \cup KeysOf(Merged(l, section)), k \notin m.cut
          PROVE  k \in KeysOf(NewText(m)) \cup rules \cup taken
        <3>1. k \in KeysOf(Merged(l, section)) => k \in KeysOf(m.out)
            BY <1>3, <2>6 DEF Dropped
        <3> QED
            BY <2>2, <2>4, <2>5, <2>6, <3>1 DEF ReadIsThere
    <2>7. ASSUME NEW k \in kept, k \notin m.cut PROVE k \in KeysOf(NewText(m)) \cup rules \cup taken
        <3>1. k \in rules \/ k \in KeysOf(Without(l.snap, s)) \/ k \in KeysOf(OldBlock(l))
            BY <2>3 DEF ReadIsThere
        <3> QED
            BY <2>1, <2>5, <2>6, <2>7, <3>1
    <2> QED
        BY <1>3, <2>1, <2>6, <2>7 DEF TextHasAll
<1> QED
    BY <1>2, <1>3

\* What one pass alone does: the others are outside, and hold nothing.
LEMMA OneMoves ==
    ASSUME FactsInv, NEW p \in Passes, \A q \in Passes : q # p => q \notin Holding,
           NEW where, pc' = [pc EXCEPT ![p] = where],
           NEW l, local' = [local EXCEPT ![p] = l], LocalTypes(l),
           digest' \in Seq(Lines), FactsAreKept', Safe(p)'
    PROVE  (FactTypes /\ FactsAreKept /\ \A q \in Passes : Safe(q))'
<1>1. \A q \in Passes : q # p => pc'[q] \notin {"ask", "write", "persist"}
    BY DEF FactsInv, MaintInv, Shape, PassStates, Holding
<1>2. \A q \in Passes : LocalTypes(local'[q])
    BY DEF FactsInv, FactTypes, MaintInv, Shape
<1>3. \A q \in Passes : q # p => Safe(q)'
    BY <1>1 DEF Safe
<1> QED
    BY <1>2, <1>3 DEF FactTypes, LocalTypes

\* A pass that ends.
LEMMA OverIsSafe ==
    ASSUME FactsInv, NEW p \in Passes, \A q \in Passes : q # p => q \notin Holding,
           Over(p), digest' \in Seq(Lines), FactsAreKept'
    PROVE  (FactTypes /\ FactsAreKept /\ \A q \in Passes : Safe(q))'
<1>1. LocalTypes(Nothing)
    <2>1. <<>> \in Seq(Lines)
        OBVIOUS
    <2> QED
        BY <2>1 DEF LocalTypes, Nothing
<1>2. pc' = [pc EXCEPT ![p] = IF p = Loop THEN "idle" ELSE "done"] /\ local' = [local EXCEPT ![p] = Nothing]
    BY DEF Over
<1>3. pc'[p] \in {"idle", "done"}
    BY <1>2 DEF FactsInv, MaintInv, Shape
<1>4. Safe(p)'
    BY <1>3 DEF Safe
<1> QED
    BY <1>1, <1>2, <1>4, OneMoves

\* A file that is cut short: what is gone with it need not be kept.
LEMMA TornIsSafe ==
    ASSUME FactsInv, NEW p \in Passes, Torn(p), rules' = rules
    PROVE  digest' \in Seq(Lines) /\ FactsAreKept'
<1>1. NewText(local[p]) \in Seq(Lines)
    BY NewTextFacts DEF FactsInv, FactTypes
<1> DEFINE t == NewText(local[p])
<1> HIDE DEF t
<1>2. PICK n \in 0 .. Len(t) : digest' = SubSeq(t, 1, n)
    BY DEF Torn, t
<1>3. digest' \in Seq(Lines)
    BY <1>1, <1>2, PartElems DEF t
<1>4. kept' = kept \cap (KeysOf(digest') \cup rules)
    BY DEF Torn
<1> QED
    BY <1>3, <1>4 DEF FactsAreKept

\* A pass with the mutex is alone.
LEMMA InsideAlone ==
    ASSUME MaintInv, NEW p \in Holding
    PROVE  \A q \in Passes : q # p => q \notin Holding
BY DEF MaintInv, HolderOnly, Holding

\* Every step of a pass.
LEMMA PassKeepsFacts ==
    ASSUME FactsInv, NEW p \in Passes, Pass(p)
    PROVE  (FactTypes /\ FactsAreKept /\ \A q \in Passes : Safe(q))'
<1> USE DEF FactsInv
<1>0. /\ digest \in Seq(Lines) /\ LocalTypes(local[p]) /\ Safe(p) /\ FactsAreKept
      /\ local[p].given = local[p].given
    BY DEF FactTypes
<1>1. CASE Enter(p)
    <2>1. \A q \in Passes : q # p => q \notin Holding
        BY <1>1, MaintainAssumption DEF Enter, Free, MaintInv, HolderOnly, Holding, Passes
    <2>2. UNCHANGED <<digest, rules, kept>>
        BY <1>1 DEF Enter, textVars
    <2>3. FactsAreKept'
        BY <1>0, <2>2 DEF FactsAreKept
    <2>6. Over(p) \/ taken' = {}
        BY <1>1 DEF Enter
    <2> DEFINE l == [Nothing EXCEPT !.snap = digest, !.rules = rules, !.tries = Tries(p),
                                    !.lines = IF p = Loop THEN InWindow(now) ELSE {}]
    <2>4. CASE Over(p)
        BY <1>0, <2>1, <2>2, <2>3, <2>4, OverIsSafe
    <2>5. CASE pc' = [pc EXCEPT ![p] = "ask"] /\ local' = [local EXCEPT ![p] = l] /\ taken' = {}
        <3>1. l.snap = digest /\ l.rules = rules /\ l.out = <<>> /\ {"snap", "rules", "out", "given", "cut"} \subseteq DOMAIN l
            BY DEF Nothing
        <3> HIDE DEF l
        <3>2. <<>> \in Seq(Lines)
            OBVIOUS
        <3>3. LocalTypes(l)
            BY <1>0, <3>1, <3>2 DEF LocalTypes
        <3>4. pc'[p] = "ask" /\ local'[p] = l
            BY <2>5 DEF MaintInv, Shape
        <3>5. Safe(p)'
            BY <1>0, <2>2, <2>5, <3>1, <3>4 DEF Safe, ReadIsThere, FactsAreKept
        <3> QED
            BY <1>0, <2>1, <2>2, <2>3, <2>5, <3>3, <3>5, OneMoves
    <2> QED
        BY <1>1, <2>4, <2>5 DEF Enter
<1>2. CASE NoAnswer(p)
    <2>1. p \in Holding /\ pc[p] = "ask"
        BY <1>2 DEF NoAnswer, Holding
    <2>2. \A q \in Passes : q # p => q \notin Holding
        BY <2>1, InsideAlone
    <2>3. UNCHANGED <<digest, rules, kept, taken>> /\ FactsAreKept'
        BY <1>0, <1>2 DEF NoAnswer, textVars, histVars, FactsAreKept
    <2>4. CASE Leave(p)
        BY <1>0, <2>2, <2>3, <2>4, OverIsSafe DEF Leave
    <2>5. CASE local' = [local EXCEPT ![p].tries = Tail(@)] /\ pc' = pc
        <3> DEFINE l == [local[p] EXCEPT !.tries = Tail(@)]
        <3>1. l.snap = local[p].snap /\ l.rules = local[p].rules /\ l.out = local[p].out /\ DOMAIN l = DOMAIN local[p]
            BY <1>0 DEF LocalTypes
        <3>2. local' = [local EXCEPT ![p] = l] /\ pc' = [pc EXCEPT ![p] = "ask"]
            BY <2>1, <2>5 DEF MaintInv, Shape
        <3> HIDE DEF l
        <3>3. LocalTypes(l)
            BY <1>0, <3>1 DEF LocalTypes
        <3>4. pc'[p] = "ask" /\ local'[p] = l
            BY <3>2 DEF MaintInv, Shape
        <3>5. Safe(p)'
            BY <1>0, <2>1, <2>3, <3>1, <3>4 DEF Safe, ReadIsThere
        <3> QED
            BY <1>0, <2>2, <2>3, <3>2, <3>3, <3>5, OneMoves
    <2> QED
        BY <1>2, <2>4, <2>5 DEF NoAnswer
<1>3. ASSUME NEW section \in Sections, Answer(p, section)
      PROVE  (FactTypes /\ FactsAreKept /\ \A q \in Passes : Safe(q))'
    <2> DEFINE l == local[p]
    <2>1. p \in Holding /\ pc[p] = "ask"
        BY <1>3 DEF Answer, Holding
    <2>2. \A q \in Passes : q # p => q \notin Holding
        BY <2>1, InsideAlone
    <2>3. UNCHANGED <<digest, rules, kept, taken>> /\ FactsAreKept'
        BY <1>0, <1>3 DEF Answer, textVars, histVars, FactsAreKept
    <2>4. ReadIsThere(l)
        BY <1>0, <2>1 DEF Safe
    <2> DEFINE same == [l EXCEPT !.given = Given(l, section)]
               new == [l EXCEPT !.out = NewSection(l, section),
                                !.cut = Dropped(l, section),
                                !.given = Given(l, section)]
    <2>5. \/ NothingNew(l, section) /\ pc' = [pc EXCEPT ![p] = "persist"] /\ local' = [local EXCEPT ![p] = same]
          \/ pc' = [pc EXCEPT ![p] = "write"] /\ local' = [local EXCEPT ![p] = new]
        BY <1>3 DEF Answer
    <2>6. /\ same.snap = l.snap /\ same.out = l.out /\ same.given = Given(l, section) /\ DOMAIN same = DOMAIN l
          /\ new.snap = l.snap /\ new.rules = l.rules /\ new.out = NewSection(l, section) /\ DOMAIN new = DOMAIN l
          /\ new.cut = Dropped(l, section)
          /\ new.given = Given(l, section)
        BY <1>0 DEF LocalTypes
    <2> HIDE DEF l, same, new
    <2>7. LocalTypes(l) /\ NewSection(l, section) \in Seq(Lines)
        <3>1. LocalTypes(l)
            BY <1>0 DEF l
        <3> QED
            BY <3>1, NewSectionType DEF LocalTypes
    <2>8. LocalTypes(same) /\ LocalTypes(new)
        BY <2>6, <2>7 DEF LocalTypes
    <2>9. /\ NothingNew(l, section) => Given(l, section) \subseteq KeysOf(digest) \cup rules \cup taken
          /\ TextHasAll(new)
        BY <1>0, <2>4, <2>6, <2>7, <2>8, AnswerIsSafe
    <2>10. CASE NothingNew(l, section) /\ pc' = [pc EXCEPT ![p] = "persist"] /\ local' = [local EXCEPT ![p] = same]
        <3>1. pc'[p] = "persist" /\ local'[p] = same
            BY <2>10 DEF MaintInv, Shape
        <3>2. Safe(p)'
            BY <2>3, <2>6, <2>9, <2>10, <3>1 DEF Safe
        <3> QED
            BY <1>0, <2>2, <2>3, <2>8, <2>10, <3>2, OneMoves
    <2>11. CASE pc' = [pc EXCEPT ![p] = "write"] /\ local' = [local EXCEPT ![p] = new]
        <3>1. pc'[p] = "write" /\ local'[p] = new
            BY <2>11 DEF MaintInv, Shape
        <3>2. ReadIsThere(new)
            BY <2>4, <2>6 DEF ReadIsThere
        <3>3. Safe(p)'
            BY <2>3, <2>9, <3>1, <3>2 DEF Safe, ReadIsThere, TextHasAll, NewText
        <3> QED
            BY <1>0, <2>2, <2>3, <2>8, <2>11, <3>3, OneMoves
    <2> QED
        BY <2>5, <2>10, <2>11
<1>4. CASE Write(p)
    <2>1. p \in Holding /\ pc[p] = "write"
        BY <1>4 DEF Write, Holding
    <2>2. \A q \in Passes : q # p => q \notin Holding
        BY <2>1, InsideAlone
    <2>3. digest' = NewText(local[p]) /\ digest' \in Seq(Lines) /\ rules' = rules /\ kept' = kept \ local[p].cut /\ taken' = taken
        BY <1>0, <1>4, NewTextFacts DEF Write
    <2>4. TextHasAll(local[p]) /\ kept \cap taken = {}
        BY <1>0, <2>1 DEF Safe, ReadIsThere
    <2>5. FactsAreKept'
        BY <2>3, <2>4 DEF FactsAreKept, TextHasAll
    <2> DEFINE l == [local[p] EXCEPT !.given = @ \ local[p].cut]
    <2>6. /\ l.snap = local[p].snap /\ l.out = local[p].out /\ l.given = local[p].given \ local[p].cut
          /\ DOMAIN l = DOMAIN local[p]
        BY <1>0 DEF LocalTypes
    <2>7. local' = [local EXCEPT ![p] = l] /\ pc' = [pc EXCEPT ![p] = "persist"]
        BY <1>4 DEF Write
    <2> HIDE DEF l
    <2>8. LocalTypes(l)
        BY <1>0, <2>6 DEF LocalTypes
    <2>9. pc'[p] = "persist" /\ local'[p] = l
        BY <2>7 DEF MaintInv, Shape
    <2>10. Safe(p)'
        BY <2>3, <2>4, <2>6, <2>9 DEF Safe, TextHasAll
    <2> QED
        BY <2>2, <2>3, <2>5, <2>7, <2>8, <2>10, OneMoves
<1>5. CASE WriteFails(p)
    <2>1. p \in Holding /\ Over(p) /\ rules' = rules /\ (Torn(p) \/ UNCHANGED <<digest, kept>>)
        BY <1>5 DEF WriteFails, Holding, Leave
    <2>2. \A q \in Passes : q # p => q \notin Holding
        BY <2>1, InsideAlone
    <2>3. digest' \in Seq(Lines) /\ FactsAreKept'
        BY <1>0, <2>1, TornIsSafe DEF FactsAreKept
    <2> QED
        BY <2>1, <2>2, <2>3, OverIsSafe
<1>6. CASE Persist(p)
    <2>1. p \in Holding /\ pc[p] = "persist" /\ Over(p)
        BY <1>6 DEF Persist, Holding, Leave
    <2>2. \A q \in Passes : q # p => q \notin Holding
        BY <2>1, InsideAlone
    <2>3. UNCHANGED <<digest, rules>> /\ kept' = kept \cup (local[p].given \ taken)
        BY <1>6 DEF Persist, textVars
    <2>4. FactsAreKept'
        BY <1>0, <2>1, <2>3 DEF FactsAreKept, Safe
    <2> QED
        BY <1>0, <2>1, <2>2, <2>3, <2>4, OverIsSafe
<1> QED
    BY <1>1, <1>2, <1>3, <1>4, <1>5, <1>6 DEF Pass

\* What leaves the texts and the passes inside alone.
LEMMA QuietIsSafe ==
    ASSUME FactsInv, UNCHANGED <<digest, rules, kept, taken, local>>,
           \A p \in Passes : pc'[p] \in {"ask", "write", "persist"} => pc'[p] = pc[p]
    PROVE  (FactTypes /\ FactsAreKept /\ \A p \in Passes : Safe(p))'
<1>1. \A p \in Passes : Safe(p)'
    BY DEF FactsInv, Safe, ReadIsThere, TextHasAll, NewText
<1> QED
    BY <1>1 DEF FactsInv, FactTypes, LocalTypes, FactsAreKept

\* What a tool leaves behind: lines, with the facts that were there or are taken out.
LEMMA ToolFacts ==
    ASSUME FactsInv, NEW k \in ToolKeys, ToolWrites(k)
    PROVE  /\ UNCHANGED <<pc, local>> /\ digest' \in Seq(Lines) /\ taken \subseteq taken'
           /\ KeysOf(digest) \subseteq KeysOf(digest') \cup taken' /\ rules \subseteq rules' \cup taken'
           /\ FactsAreKept'
           /\ \/ kept' \subseteq kept /\ kept' \cap (taken' \ taken) = {}
              \/ Open = {}
<1> DEFINE gone == (KeysOf(digest) \ KeysOf(digest')) \cup (rules \ rules')
<1>1. k \in Keys /\ digest \in Seq(Lines) /\ Bullet(k) \in Lines /\ Header(Elsewhere) \in Lines
    BY MaintainAssumption, LineFacts DEF FactsInv, FactTypes
<1>2. /\ digest' \in Seq(Lines)
      /\ k \in KeysOf(digest') \cup rules'
    <2>1. CASE digest' = digest /\ rules' \in {rules \cup {k}, {k}}
        BY <1>1, <2>1
    <2>2. CASE digest' = Append(digest, Bullet(k))
        BY <1>1, <2>2, AppendKeys
    <2> DEFINE one == <<Bullet(k)>>
               two == <<Header(Elsewhere), Bullet(k)>>
    <2>3. /\ one \in Seq(Lines) /\ two \in Seq(Lines)
          /\ k \in KeysOf(one) /\ k \in KeysOf(two)
        <3>1. one \in Seq(Lines) /\ two \in Seq(Lines)
            BY <1>1
        <3>2. Bullet(k) \in Elems(one) /\ Bullet(k) \in Elems(two)
            BY DEF Elems
        <3>3. IsBullet(Bullet(k)) /\ Bullet(k).of = k
            BY DEF IsBullet, Bullet
        <3> HIDE DEF one, two
        <3> QED
            BY <3>1, <3>2, <3>3, BulletElems DEF KeysOf
    <2> HIDE DEF one, two
    <2>4. CASE digest' = one
        BY <2>3, <2>4
    <2>5. CASE digest' = digest \o two
        <3>1. digest \o two \in Seq(Lines) /\ KeysOf(digest \o two) = KeysOf(digest) \cup KeysOf(two)
            BY <1>1, <2>3, ConcatKeys
        <3> QED
            BY <2>3, <2>5, <3>1
    <2>6. \/ digest' \in {Append(digest, Bullet(k)), one, digest \o two}
          \/ digest' = digest /\ rules' \in {rules \cup {k}, {k}}
        BY DEF ToolWrites, one, two
    <2> QED
        BY <2>1, <2>2, <2>4, <2>5, <2>6
<1>3. /\ taken' = taken \cup gone
      /\ kept' = (kept \ gone) \cup (IF Open = {} THEN {k} ELSE {})
      /\ UNCHANGED <<pc, local>>
    BY DEF ToolWrites
<1>4. kept \subseteq KeysOf(digest) \cup rules
    BY DEF FactsInv, FactsAreKept
<1>5. FactsAreKept'
    BY <1>2, <1>3, <1>4 DEF FactsAreKept
<1>6. KeysOf(digest) \subseteq KeysOf(digest') \cup taken' /\ rules \subseteq rules' \cup taken'
    BY <1>3
<1>7. Open # {} => kept' \subseteq kept /\ kept' \cap (taken' \ taken) = {}
    BY <1>3
<1> QED
    BY <1>2, <1>3, <1>5, <1>6, <1>7

\* Whatever a tool writes, what a pass has read is there or taken out, and the same holds of
\* the text it is about to write.
LEMMA ToolIsSafe ==
    ASSUME FactsInv, NEW k \in ToolKeys, ToolWrites(k)
    PROVE  (FactTypes /\ FactsAreKept /\ \A p \in Passes : Safe(p))'
<1>1. /\ UNCHANGED <<pc, local>> /\ digest' \in Seq(Lines) /\ taken \subseteq taken'
      /\ KeysOf(digest) \subseteq KeysOf(digest') \cup taken' /\ rules \subseteq rules' \cup taken'
      /\ FactsAreKept'
      /\ (kept' \subseteq kept /\ kept' \cap (taken' \ taken) = {}) \/ Open = {}
    BY ToolFacts
<1>2. digest \in Seq(Lines)
    BY DEF FactsInv, FactTypes
<1>4. FactsAreKept' /\ FactTypes'
    BY <1>1 DEF FactsInv, FactTypes, LocalTypes
<1>5. ASSUME NEW p \in Passes PROVE Safe(p)'
    <2>1. Safe(p) /\ LocalTypes(local[p]) /\ LocalTypes(local[p])'
        BY <1>1 DEF FactsInv, FactTypes, LocalTypes
    <2>2. pc[p] = "persist" => Safe(p)'
        BY <1>1, <2>1 DEF Safe
    <2>3. ASSUME pc[p] \in {"ask", "write"} PROVE Safe(p)'
        <3>1. kept' \subseteq kept /\ kept' \cap (taken' \ taken) = {}
            BY <1>1, <2>3 DEF Open
        <3>2. ReadIsThere(local[p])'
            BY <1>1, <2>1, <2>3, <3>1 DEF Safe, ReadIsThere
        <3>3. KeysOf(NewText(local[p])) \subseteq KeysOf(NewText(local[p]))' \cup taken'
            <4> DEFINE l == local[p]
                       s == Span(l.snap, Today)
            <4>1. l \in {l} /\ local'[p] = l /\ l.out \in Seq(Lines)
                BY <1>1, <2>1 DEF LocalTypes
            <4>2. CASE s.found
                BY <4>1, <4>2 DEF NewText
            <4>3. CASE ~ s.found
                <5>1. NewText(l) = digest \o l.out /\ NewText(l)' = digest' \o l.out
                    BY <4>1, <4>3 DEF NewText
                <5> HIDE DEF l, s
                <5>2. KeysOf(digest \o l.out) = KeysOf(digest) \cup KeysOf(l.out)
                    BY <1>2, <4>1, ConcatKeys
                <5>3. KeysOf(digest' \o l.out) = KeysOf(digest') \cup KeysOf(l.out)
                    BY <1>1, <4>1, ConcatKeys
                <5> QED
                    BY <1>1, <5>1, <5>2, <5>3 DEF l
            <4> QED
                BY <4>2, <4>3
        <3>4. pc[p] = "write" => TextHasAll(local[p])'
            BY <1>1, <2>1, <3>1, <3>3 DEF Safe, TextHasAll
        <3> QED
            BY <1>1, <2>3, <3>2, <3>4 DEF Safe
    <2> QED
        BY <1>1, <2>2, <2>3 DEF Safe
<1> QED
    BY <1>4, <1>5

\* Every step keeps the invariant.
LEMMA FactsKeepsInv == FactsInv /\ [MaintNext]_mpVars => FactsInv'
<1> SUFFICES ASSUME FactsInv, [MaintNext]_mpVars PROVE FactsInv'
    OBVIOUS
<1>1. MaintInv'
    BY MaintKeepsInv DEF FactsInv
<1> SUFFICES (FactTypes /\ FactsAreKept /\ \A p \in Passes : Safe(p))'
    BY <1>1 DEF FactsInv
<1> USE DEF FactsInv
<1>2. ASSUME NEW t \in Turns, EndTurn(t) PROVE (FactTypes /\ FactsAreKept /\ \A p \in Passes : Safe(p))'
    BY <1>2, QuietIsSafe DEF EndTurn, textVars, MaintInv, Shape, PassStates, Passes
<1>3. CASE LoopWakes
    BY <1>3, QuietIsSafe DEF LoopWakes, textVars, histVars, MaintInv, Shape, PassStates, Passes
<1>4. CASE Tick
    BY <1>4, QuietIsSafe DEF Tick, textVars, histVars
<1>5. CASE UNCHANGED mpVars
    BY <1>5, QuietIsSafe DEF mpVars, histVars
<1>6. CASE Crash
    <2>1. \A p \in Passes : pc'[p] \in {"idle", "done"} /\ local'[p] = Nothing
        BY <1>6 DEF Crash
    <2>2. digest' \in Seq(Lines) /\ FactsAreKept'
        BY <1>6, TornIsSafe DEF Crash, FactTypes, FactsAreKept
    <2>3. LocalTypes(Nothing)
        <3>1. <<>> \in Seq(Lines)
            OBVIOUS
        <3> QED
            BY <3>1 DEF LocalTypes, Nothing
    <2>4. FactTypes'
        BY <2>1, <2>2, <2>3 DEF FactTypes, LocalTypes
    <2> QED
        BY <2>1, <2>2, <2>4 DEF Safe
<1>7. ASSUME NEW p \in Passes, Pass(p) PROVE (FactTypes /\ FactsAreKept /\ \A q \in Passes : Safe(q))'
    BY <1>7, PassKeepsFacts
<1>8. ASSUME NEW k \in ToolKeys, ToolWrites(k) PROVE (FactTypes /\ FactsAreKept /\ \A p \in Passes : Safe(p))'
    BY <1>8, ToolIsSafe
<1> QED
    BY <1>2, <1>3, <1>4, <1>5, <1>6, <1>7, <1>8 DEF MaintNext

\* A fact a pass was given in a well-formed answer and has finished with, or a tool wrote
\* while no pass was between its read and its write, is in the digest or the rules, until
\* the cap cuts it, a write is cut short, a tool takes it out of one of the files, or the
\* rewrite of a block makes one line of its last bullet and the next section's header
\* (runDistill, maintain_run.go:142-400; maintain.go:214-218).
THEOREM NoFactIsLost == MaintSpec => []FactsAreKept
<1>1. FactsInv => FactsAreKept
    BY DEF FactsInv
<1> QED
    BY FactsInitInv, FactsKeepsInv, <1>1, PTL DEF MaintSpec

-----------------------------------------------------------------------------
(* Which lines of the daily log the scheduled passes skip.                 *)

\* Stamps are of the past, and of this process.
Stamps ==
    /\ now \in Nat /\ mark \in Nat /\ mark <= now /\ Start <= now /\ high \in {0, High}
    /\ logAt \in [Turns -> Nat] /\ \A t \in Turns : logAt[t] <= now /\ (logAt[t] = 0 \/ Start <= logAt[t])
    /\ pc \in [Passes -> PassStates] /\ DOMAIN local = Passes
    /\ \A p \in Passes : "lines" \in DOMAIN local[p]

\* While the loop's pass is inside, every line is in its window or excused.
LoopHasSeen == pc[Loop] \in {"ask", "write", "persist"} => Logged \subseteq covered \cup excused \cup local[Loop].lines

\* A line older than the mark, less the overlap, was seen, is excused, or is older than the span.
Skipped(t) == high = 0 /\ mark # 0 /\ logAt[t] <= mark - Overlap
MarkedWereSeen == \A t \in Logged \ covered : Skipped(t) => t \in excused \/ logAt[t] <= now - MaxSpan

LinesInv == Stamps /\ LoopHasSeen /\ MarkedWereSeen

\* What a window does not reach is out of reach or older than the mark, less the overlap.
LEMMA WindowCases ==
    ASSUME Overlap # 0, High <= Start, Stamps, NEW t \in Logged
    PROVE  logAt[t] <= WindowStart(now) => t \in OutOfReach(now) \/ Skipped(t)
<1>1. {High, Interval, Overlap, MaxSpan, Start} \subseteq Nat
    BY MaintainAssumption
<1>2. t \in Turns /\ logAt[t] \in Nat /\ Start <= logAt[t]
    BY DEF Stamps, Logged
<1>3. now \in Nat /\ mark \in Nat /\ high \in {0, High}
    BY DEF Stamps
<1> DEFINE base == IF high # 0 THEN high - Overlap ELSE IF mark # 0 THEN mark - Overlap ELSE now - Interval
<1>4. WindowStart(now) = IF base < now - MaxSpan THEN now - MaxSpan ELSE base
    BY DEF WindowStart
<1>5. t \in OutOfReach(now) <=> (logAt[t] <= now - MaxSpan \/ (mark = 0 /\ high = 0 /\ logAt[t] <= now - Interval))
    BY DEF OutOfReach
<1>6. CASE high # 0
    <2>1. base = high - Overlap /\ ~ (logAt[t] <= base)
        BY <1>1, <1>2, <1>3, <1>6
    <2> HIDE DEF base
    <2> QED
        BY <1>4, <1>5, <2>1
<1>7. CASE high = 0 /\ mark # 0
    <2>1. base = mark - Overlap
        BY <1>7
    <2> HIDE DEF base
    <2> QED
        BY <1>4, <1>5, <1>7, <2>1 DEF Skipped
<1>8. CASE high = 0 /\ mark = 0
    <2>1. base = now - Interval
        BY <1>8
    <2> HIDE DEF base
    <2> QED
        BY <1>4, <1>5, <1>8, <2>1
<1> QED
    BY <1>6, <1>7, <1>8

\* No line has been written at the start.
LEMMA LinesInitInv == MaintInit => LinesInv
<1> SUFFICES ASSUME MaintInit PROVE LinesInv
    OBVIOUS
<1>1. Start \in Nat /\ Loop \in Passes
    BY MaintainAssumption DEF Passes
<1>2. Stamps
    BY <1>1 DEF MaintInit, Stamps, Nothing, PassStates
<1> QED
    BY <1>1, <1>2 DEF MaintInit, LinesInv, LoopHasSeen, MarkedWereSeen, Logged

\* The stamps after a step that adds none.
LEMMA StampsKept ==
    ASSUME Stamps, UNCHANGED <<now, logAt>>, mark' \in Nat, mark' <= now, high' \in {0, High},
           NEW p \in Passes, NEW where \in PassStates, pc' = [pc EXCEPT ![p] = where],
           NEW l, local' = [local EXCEPT ![p] = l], "lines" \in DOMAIN l
    PROVE  Stamps'
BY DEF Stamps

\* A pass that is not the loop's, or goes on inside, or leaves without a new mark.
LEMMA LinesKept ==
    ASSUME LinesInv, UNCHANGED <<now, logAt, mark, high>>, covered \subseteq covered', excused \subseteq excused',
           Stamps', pc'[Loop] \in {"ask", "write", "persist"} =>
                        pc[Loop] \in {"ask", "write", "persist"} /\ local'[Loop].lines = local[Loop].lines
    PROVE  LinesInv'
<1>1. Logged' = Logged /\ \A t \in Turns : Skipped(t)' <=> Skipped(t)
    BY DEF Logged, Skipped
<1>2. \A t \in Logged : t \in Turns
    BY DEF Logged
<1> QED
    BY <1>1, <1>2 DEF LinesInv, LoopHasSeen, MarkedWereSeen

\* The pass that ends.
LEMMA OverIsOut ==
    ASSUME Stamps, NEW p \in Passes, Over(p)
    PROVE  \E where \in {"idle", "done"} :
              /\ pc' = [pc EXCEPT ![p] = where] /\ local' = [local EXCEPT ![p] = Nothing]
              /\ "lines" \in DOMAIN Nothing
              /\ (p = Loop => pc'[Loop] = "idle")
              /\ (p # Loop /\ Loop \in Passes => pc'[Loop] = pc[Loop] /\ local'[Loop] = local[Loop])
BY DEF Over, Nothing, Stamps

\* The steps of a pass.
LEMMA PassKeepsLines ==
    ASSUME Overlap # 0, High <= Start, LinesInv, NEW p \in Passes, Pass(p)
    PROVE  LinesInv'
<1>1. Stamps /\ Loop \in Passes /\ mark \in Nat /\ mark <= now /\ now \in Nat /\ high \in {0, High}
    BY DEF LinesInv, Stamps, Passes
<1>2. {"idle", "wait", "ask", "write", "persist", "done"} = PassStates
    BY DEF PassStates
\* The pass ends and the mark stays.
<1>3. ASSUME Over(p), UNCHANGED <<now, logAt, mark, high>>, covered \subseteq covered', excused \subseteq excused' PROVE LinesInv'
    <2>1. PICK where \in {"idle", "done"} :
              /\ pc' = [pc EXCEPT ![p] = where] /\ local' = [local EXCEPT ![p] = Nothing]
              /\ "lines" \in DOMAIN Nothing
              /\ (p = Loop => pc'[Loop] = "idle")
              /\ (p # Loop /\ Loop \in Passes => pc'[Loop] = pc[Loop] /\ local'[Loop] = local[Loop])
        BY <1>1, <1>3, OverIsOut
    <2>2. Stamps'
        BY <1>1, <1>2, <1>3, <2>1, StampsKept
    <2> QED
        BY <1>1, <1>3, <2>1, <2>2, LinesKept
\* The pass goes on inside.
<1>4. ASSUME NEW where \in {"ask", "write", "persist"}, pc' = [pc EXCEPT ![p] = where], pc[p] \in {"ask", "write"},
             NEW l, local' = [local EXCEPT ![p] = l], "lines" \in DOMAIN l, l.lines = local[p].lines,
             UNCHANGED <<now, logAt, mark, high, covered, excused>>
      PROVE  LinesInv'
    <2>1. Stamps'
        BY <1>1, <1>2, <1>4, StampsKept
    <2>2. pc'[Loop] \in {"ask", "write", "persist"} =>
              pc[Loop] \in {"ask", "write", "persist"} /\ local'[Loop].lines = local[Loop].lines
        BY <1>1, <1>4 DEF Stamps
    <2> QED
        BY <1>4, <2>1, <2>2, LinesKept
<1>5. CASE Enter(p)
    <2>1. CASE Over(p) /\ excused' = excused
        BY <1>3, <1>5, <2>1 DEF Enter, logVars, markVars
    <2> DEFINE l == [Nothing EXCEPT !.snap = digest, !.rules = rules, !.tries = Tries(p),
                                    !.lines = IF p = Loop THEN InWindow(now) ELSE {}]
    <2>2. "lines" \in DOMAIN l /\ l.lines = IF p = Loop THEN InWindow(now) ELSE {}
        BY DEF Nothing
    <2>3. \/ Over(p) /\ excused' = excused
          \/ /\ pc' = [pc EXCEPT ![p] = "ask"] /\ local' = [local EXCEPT ![p] = l]
             /\ excused' = IF p = Loop THEN excused \cup OutOfReach(now) ELSE excused
        BY <1>5 DEF Enter
    <2> HIDE DEF l
    <2>4. UNCHANGED <<now, logAt, mark, high, covered>>
        BY <1>5 DEF Enter, logVars, markVars
    <2>5. CASE /\ pc' = [pc EXCEPT ![p] = "ask"] /\ local' = [local EXCEPT ![p] = l]
               /\ excused' = IF p = Loop THEN excused \cup OutOfReach(now) ELSE excused
        <3>1. Stamps'
            BY <1>1, <1>2, <2>2, <2>4, <2>5, StampsKept
        <3>2. CASE p # Loop
            <4>1. pc'[Loop] = pc[Loop] /\ local'[Loop] = local[Loop] /\ excused' = excused
                BY <1>1, <2>5, <3>2 DEF Stamps
            <4> QED
                BY <2>4, <3>1, <4>1, LinesKept
        <3>3. CASE p = Loop
            <4>1. local'[Loop].lines = InWindow(now) /\ excused' = excused \cup OutOfReach(now)
                BY <1>1, <2>2, <2>5, <3>3 DEF Stamps
            <4>2. Logged' = Logged /\ \A t \in Turns : Skipped(t)' <=> Skipped(t)
                BY <2>4 DEF Logged, Skipped
            <4>3. ASSUME NEW t \in Logged PROVE t \in covered \cup excused \cup OutOfReach(now) \cup InWindow(now)
                <5>1. t \in Turns /\ logAt[t] \in Nat /\ logAt[t] <= now
                    BY <1>1 DEF Stamps, Logged
                <5>2. WindowStart(now) \in Int
                    BY <1>1, MaintainAssumption DEF WindowStart
                <5>3. CASE logAt[t] > WindowStart(now)
                    BY <5>1, <5>3 DEF InWindow
                <5>4. CASE logAt[t] <= WindowStart(now)
                    <6>1. t \in OutOfReach(now) \/ Skipped(t)
                        BY <1>1, <5>4, WindowCases
                    <6>2. logAt[t] <= now - MaxSpan => t \in OutOfReach(now)
                        BY DEF OutOfReach
                    <6> QED
                        BY <6>1, <6>2 DEF LinesInv, MarkedWereSeen
                <5> QED
                    BY <5>1, <5>2, <5>3, <5>4
            <4>4. LoopHasSeen'
                BY <2>4, <4>1, <4>2, <4>3 DEF LoopHasSeen
            <4>5. MarkedWereSeen'
                <5>1. \A t \in Logged : t \in Turns
                    BY DEF Logged
                <5> QED
                    BY <2>4, <4>1, <4>2, <5>1 DEF LinesInv, MarkedWereSeen
            <4> QED
                BY <3>1, <4>4, <4>5 DEF LinesInv
        <3> QED
            BY <3>2, <3>3
    <2> QED
        BY <2>1, <2>3, <2>5
<1>6. CASE NoAnswer(p)
    <2>1. pc[p] = "ask" /\ UNCHANGED <<now, logAt, mark, high, covered, excused>>
        BY <1>6 DEF NoAnswer, logVars, markVars, histVars
    <2>2. CASE Leave(p)
        BY <1>3, <2>1, <2>2 DEF Leave
    <2>3. CASE local' = [local EXCEPT ![p].tries = Tail(@)] /\ pc' = pc
        <3> DEFINE l == [local[p] EXCEPT !.tries = Tail(@)]
        <3>1. "lines" \in DOMAIN l /\ l.lines = local[p].lines
            BY <1>1 DEF Stamps
        <3>2. local' = [local EXCEPT ![p] = l] /\ pc' = [pc EXCEPT ![p] = "ask"]
            BY <1>1, <2>1, <2>3 DEF Stamps
        <3> HIDE DEF l
        <3> QED
            BY <1>4, <2>1, <3>1, <3>2
    <2> QED
        BY <1>6, <2>2, <2>3 DEF NoAnswer
<1>7. ASSUME NEW section \in Sections, Answer(p, section) PROVE LinesInv'
    <2>1. pc[p] = "ask" /\ UNCHANGED <<now, logAt, mark, high, covered, excused>>
        BY <1>7 DEF Answer, logVars, markVars, histVars
    <2>2. \E where \in {"write", "persist"} : \E l :
             /\ pc' = [pc EXCEPT ![p] = where] /\ local' = [local EXCEPT ![p] = l]
             /\ "lines" \in DOMAIN l /\ l.lines = local[p].lines
        <3> DEFINE same == [local[p] EXCEPT !.given = Given(local[p], section)]
                   new  == [local[p] EXCEPT !.out = NewSection(local[p], section),
                                !.cut = Dropped(local[p], section),
                                !.given = Given(local[p], section)]
        <3>1. "lines" \in DOMAIN same /\ same.lines = local[p].lines
            BY <1>1 DEF Stamps
        <3>2. "lines" \in DOMAIN new /\ new.lines = local[p].lines
            BY <1>1 DEF Stamps
        <3>3. \/ pc' = [pc EXCEPT ![p] = "persist"] /\ local' = [local EXCEPT ![p] = same]
              \/ pc' = [pc EXCEPT ![p] = "write"] /\ local' = [local EXCEPT ![p] = new]
            BY <1>7 DEF Answer
        <3> HIDE DEF same, new
        <3> QED
            BY <3>1, <3>2, <3>3
    <2> QED
        BY <1>4, <2>1, <2>2
<1>8. CASE Write(p)
    <2> DEFINE l == [local[p] EXCEPT !.given = @ \ local[p].cut]
    <2>1. "lines" \in DOMAIN l /\ l.lines = local[p].lines
        BY <1>1 DEF Stamps
    <2>2. /\ pc[p] = "write" /\ UNCHANGED <<now, logAt, mark, high, covered, excused>>
          /\ local' = [local EXCEPT ![p] = l] /\ pc' = [pc EXCEPT ![p] = "persist"]
        BY <1>8 DEF Write, logVars, markVars
    <2> HIDE DEF l
    <2> QED
        BY <1>4, <2>1, <2>2
<1>9. CASE WriteFails(p)
    BY <1>3, <1>9 DEF WriteFails, Leave, logVars, markVars
<1>10. CASE Persist(p)
    <2>1. /\ pc[p] = "persist" /\ Over(p) /\ UNCHANGED <<now, logAt, excused>> /\ covered' = covered \cup local[p].lines
          /\ \/ UNCHANGED <<mark, high>>
             \/ p = Loop /\ mark' \in {now, 0} /\ high' \in {high, 0}
        BY <1>10 DEF Persist, Leave, markVars
    <2>2. CASE UNCHANGED <<mark, high>>
        BY <1>3, <2>1, <2>2
    <2>3. CASE p = Loop /\ mark' \in {now, 0} /\ high' \in {high, 0}
        <3>1. PICK where \in {"idle", "done"} :
                  /\ pc' = [pc EXCEPT ![p] = where] /\ local' = [local EXCEPT ![p] = Nothing]
                  /\ "lines" \in DOMAIN Nothing /\ pc'[Loop] = "idle"
            BY <1>1, <2>1, <2>3, OverIsOut
        <3>2. Stamps'
            <4>1. mark' \in Nat /\ mark' <= now /\ high' \in {0, High}
                BY <1>1, <2>3 DEF Stamps
            <4> QED
                BY <1>1, <1>2, <2>1, <3>1, <4>1, StampsKept
        <3>3. Logged' = Logged /\ Logged \subseteq covered' \cup excused'
            BY <2>1, <2>3 DEF LinesInv, LoopHasSeen, Logged
        <3> QED
            BY <3>1, <3>2, <3>3 DEF LinesInv, LoopHasSeen, MarkedWereSeen
    <2> QED
        BY <2>1, <2>2, <2>3
<1> QED
    BY <1>5, <1>6, <1>7, <1>8, <1>9, <1>10 DEF Pass

\* Every step keeps the lines.
LEMMA LinesKeepsInv ==
    ASSUME Overlap # 0, High <= Start
    PROVE  LinesInv /\ [MaintNext]_mpVars => LinesInv'
<1> SUFFICES ASSUME LinesInv, [MaintNext]_mpVars PROVE LinesInv'
    OBVIOUS
<1>1. Stamps /\ Loop \in Passes /\ Loop \notin Turns /\ Turns \subseteq Passes
    BY MaintainAssumption DEF LinesInv, Passes
\* A new line is newer than the mark.
<1>2. ASSUME NEW t \in Turns, EndTurn(t) PROVE LinesInv'
    <2>1. /\ logAt' = [logAt EXCEPT ![t] = now] \/ logAt' = logAt
          /\ pc' = [pc EXCEPT ![t] = "wait"]
          /\ excused' = IF pc[Loop] \in {"ask", "write", "persist"} THEN excused \cup {t} ELSE excused
          /\ UNCHANGED <<now, mark, high, local, covered>>
        BY <1>2 DEF EndTurn, markVars
    <2>2. pc'[Loop] = pc[Loop] /\ Logged' \subseteq Logged \cup {t} /\ t \in Passes
        BY <1>1, <2>1 DEF Stamps, Logged
    <2>3. Stamps'
        BY <2>1, <2>2 DEF LinesInv, Stamps, PassStates
    <2>4. LoopHasSeen'
        BY <2>1, <2>2 DEF LinesInv, LoopHasSeen
    <2>5. MarkedWereSeen'
        <3> SUFFICES ASSUME NEW u \in Logged' \ covered', Skipped(u)' PROVE u \in excused' \/ logAt'[u] <= now' - MaxSpan
            BY DEF MarkedWereSeen
        <3>1. CASE logAt'[u] = logAt[u]
            <4>1. u \in Logged \ covered /\ Skipped(u)
                BY <2>1, <3>1 DEF Logged, Skipped
            <4> QED
                BY <2>1, <3>1, <4>1 DEF LinesInv, MarkedWereSeen
        <3>2. CASE logAt'[u] # logAt[u]
            <4>1. u \in Turns /\ logAt'[u] = now
                BY <2>1, <3>2 DEF Logged, LinesInv, Stamps
            <4>2. Overlap \in Nat /\ now \in Nat /\ mark \in Nat /\ mark <= now
                BY <1>1, MaintainAssumption DEF Stamps
            <4>3. ~ (now <= mark - Overlap)
                BY <4>2
            <4> QED
                BY <2>1, <4>1, <4>3 DEF Skipped
        <3> QED
            BY <3>1, <3>2
    <2> QED
        BY <2>3, <2>4, <2>5 DEF LinesInv
<1>3. CASE LoopWakes
    <2>1. /\ pc' \in [Passes -> PassStates] /\ pc'[Loop] \notin {"ask", "write", "persist"}
          /\ UNCHANGED <<now, logAt, mark, high, local, covered, excused>>
        BY <1>1, <1>3 DEF LoopWakes, logVars, markVars, histVars, Stamps, PassStates
    <2>2. Stamps'
        BY <1>1, <2>1 DEF Stamps
    <2> QED
        BY <2>1, <2>2, LinesKept DEF LinesInv
<1>4. CASE Tick
    <2>1. now' = now + 1 /\ UNCHANGED <<logAt, mark, high, local, pc, covered, excused>>
        BY <1>4 DEF Tick, logVars, markVars, histVars
    <2>2. Stamps'
        BY <1>1, <2>1, MaintainAssumption DEF Stamps
    <2>3. Logged' = Logged /\ \A t \in Logged : t \in Turns /\ logAt[t] \in Nat /\ (Skipped(t)' <=> Skipped(t))
        BY <1>1, <2>1 DEF Logged, Skipped, Stamps
    <2>4. MaxSpan \in Nat /\ now \in Nat
        BY <1>1, MaintainAssumption DEF Stamps
    <2> QED
        BY <2>1, <2>2, <2>3, <2>4 DEF LinesInv, LoopHasSeen, MarkedWereSeen
<1>5. CASE Crash
    <2>1. /\ pc' = [p \in Passes |-> IF p = Loop \/ pc[p] = "idle" THEN "idle" ELSE "done"]
          /\ local' = [p \in Passes |-> Nothing] /\ UNCHANGED <<now, logAt, mark, high, covered, excused>>
        BY <1>5 DEF Crash, logVars, markVars
    <2>2. Stamps' /\ pc'[Loop] = "idle"
        BY <1>1, <2>1 DEF Stamps, PassStates, Nothing
    <2> QED
        BY <2>1, <2>2, LinesKept DEF LinesInv
<1>6. ASSUME NEW p \in Passes, Pass(p) PROVE LinesInv'
    BY <1>6, PassKeepsLines
<1>7. ASSUME NEW k \in ToolKeys, ToolWrites(k) PROVE LinesInv'
    <2>1. UNCHANGED <<now, logAt, mark, high, local, pc, covered, excused>>
        BY <1>7 DEF ToolWrites, logVars, markVars
    <2> QED
        BY <1>1, <2>1, LinesKept DEF Stamps, LinesInv
<1>8. CASE UNCHANGED mpVars
    <2>1. UNCHANGED <<now, logAt, mark, high, local, pc, covered, excused>>
        BY <1>8 DEF mpVars, markVars, histVars
    <2> QED
        BY <1>1, <2>1, LinesKept DEF Stamps, LinesInv
<1> QED
    BY <1>2, <1>3, <1>4, <1>5, <1>6, <1>7, <1>8 DEF MaintNext

\* A line of the daily log that the next scheduled pass will not reach was in the window of one
\* that succeeded, came while one was running, or is older than the windows go, which for a
\* state file that no longer reads is the first look-back: failed passes and crashes skip none.  It takes an overlap (incremental_overlap may be set to 0)
\* and an older version's cursor that is not ahead of the clock (incrementalLineMinExclusive,
\* scheduled_incremental.go:132-158).
THEOREM LinesAreReached ==
    (Overlap # 0 /\ High <= Start) => (MaintSpec => []OnlyLateLinesAreSkipped)
<1> SUFFICES ASSUME Overlap # 0, High <= Start PROVE MaintSpec => []OnlyLateLinesAreSkipped
    OBVIOUS
<1>1. LinesInv => OnlyLateLinesAreSkipped
    <2> SUFFICES ASSUME LinesInv, NEW t \in Logged \ covered, logAt[t] <= WindowStart(now)
                 PROVE  t \in excused \cup OutOfReach(now)
        BY DEF OnlyLateLinesAreSkipped
    <2>1. t \in OutOfReach(now) \/ Skipped(t)
        BY WindowCases DEF LinesInv
    <2>2. logAt[t] <= now - MaxSpan => t \in OutOfReach(now)
        BY DEF OutOfReach
    <2> QED
        BY <2>1, <2>2 DEF LinesInv, MarkedWereSeen
<1>2. LinesInv /\ [MaintNext]_mpVars => LinesInv'
    BY LinesKeepsInv
<1> QED
    BY LinesInitInv, <1>1, <1>2, PTL DEF MaintSpec

-----------------------------------------------------------------------------
(* Calls and Close of the MCP manager, for any servers and callers.        *)

Places == {"idle", "checked", "locked", "calling", "refused", "answered"}
Links  == {"dialing", "failed", "open", "dead", "closed"}

McpTypes == at \in [Callers -> Places] /\ link \in [Servers -> Links] /\ servers \subseteq Servers

\* The map has servers with a session only.
ListedAreOpen == \A s \in servers : link[s] \in {"open", "dead"}

\* A call under way is counted.  Unless it is late, Close has not got past its wait, which
\* the count holds up, and so has closed nothing.
CallsAreCounted ==
    \A c \in Callers : at[c] = "calling" =>
        /\ c \in counted
        /\ c \notin late => closer \in {"none", "waiting"} /\ target[c] \in servers

McpInv == McpTypes /\ ListedAreOpen /\ CallsAreCounted

\* No server is listed and no call is counted at the start.
LEMMA McpInitInv == McpInit => McpInv
BY DEF McpInit, McpInv, McpTypes, ListedAreOpen, CallsAreCounted, Places, Links

\* Every step keeps the invariant.
LEMMA McpKeepsInv == McpInv /\ [McpNext]_mcpVars => McpInv'
<1> SUFFICES ASSUME McpInv, [McpNext]_mcpVars PROVE McpInv'
    OBVIOUS
<1> USE DEF McpInv, McpTypes, ListedAreOpen, CallsAreCounted, Places, Links
\* Loading and registering: no call is counted that was not.
<1>1. ASSUME NEW s \in Servers, Dial(s) PROVE McpInv'
    BY <1>1 DEF Dial, callVars
<1>2. ASSUME NEW s \in Servers, RegisterTools(s) PROVE McpInv'
    BY <1>2 DEF RegisterTools, callVars
<1>3. CASE Loaded
    BY <1>3 DEF Loaded, callVars
<1>4. CASE Stop
    BY <1>4 DEF Stop, callVars
\* The steps of a call.
<1>5. ASSUME NEW c \in Callers, NEW n \in Names, BeginCall(c, n) PROVE McpInv'
    <2>1. \A d \in Callers : at'[d] = "calling" => at[d] = "calling" /\ target'[d] = target[d]
        BY <1>5 DEF BeginCall
    <2> QED
        BY <1>5, <2>1 DEF BeginCall, openVars
<1>6. ASSUME NEW c \in Callers, Look(c) PROVE McpInv'
    BY <1>6 DEF Look, openVars
<1>7. ASSUME NEW c \in Callers, Count(c) PROVE McpInv'
    <2>1. \A d \in Callers : at'[d] = "calling" =>
              \/ at[d] = "calling"
              \/ d \in counted' /\ target[d] \in servers /\ (d \notin late' => closer \in {"none", "waiting"})
        BY <1>7 DEF Count
    <2>2. counted \subseteq counted' /\ late \subseteq late'
        BY <1>7 DEF Count
    <2>3. McpTypes' /\ ListedAreOpen'
        BY <1>7 DEF Count, openVars
    <2> QED
        BY <1>7, <2>1, <2>2, <2>3 DEF Count, openVars
<1>8. ASSUME NEW c \in Callers, Return(c) PROVE McpInv'
    BY <1>8 DEF Return, openVars
\* Close.
<1>9. CASE Swap
    BY <1>9 DEF Swap, openVars, callVars
<1>10. CASE WaitReturns
    BY <1>10 DEF WaitReturns, NoneCounted, openVars, callVars
<1>11. CASE TakeLock
    BY <1>11 DEF TakeLock, openVars, callVars
<1>12. ASSUME NEW s \in Servers, CloseSession(s) PROVE McpInv'
    BY <1>12 DEF CloseSession, callVars
<1>13. CASE Unlock
    BY <1>13 DEF Unlock, openVars, callVars
<1>14. CASE UNCHANGED mcpVars
    BY <1>14 DEF mcpVars
<1> QED
    BY <1>1, <1>2, <1>3, <1>4, <1>5, <1>6, <1>7, <1>8, <1>9, <1>10, <1>11, <1>12, <1>13, <1>14
    DEF McpNext

\* A call that Close waited for, or came before it, has its session as long as it runs; only
\* those counted after the wait may lose it (CallTool and Close, manager.go:285-328).
THEOREM CallsKeepTheirSession == McpSpec => []CallsHaveTheirSession
<1>1. McpInv => CallsHaveTheirSession
    BY DEF McpInv, ListedAreOpen, CallsAreCounted, CallsHaveTheirSession
<1> QED
    BY McpInitInv, McpKeepsInv, <1>1, PTL DEF McpSpec

-----------------------------------------------------------------------------
(* The task list and the mutex of its file, for any number of turns and of *)
(* changes.                                                                *)

CopyShape ==
    copy \in [Editors -> [tasks : {copy[e].tasks : e \in Editors}, recent : {copy[e].recent : e \in Editors}]]

\* A turn between its read and its rename has the mutex, and its copy is what is in the file
\* and what the answers say.
TasksInv ==
    /\ doing \in [Editors -> {"idle", "tasks", "recent"}]
    /\ CopyShape
    /\ tasks = said
    /\ \A e \in Editors : doing[e] = "tasks" => fileMu = e /\ copy[e].tasks = tasks

\* Nobody holds a copy at the start.
LEMMA ListsInitInv == ListsInit => TasksInv
BY DEF ListsInit, TasksInv, CopyShape, NoCopy

\* Every step keeps the invariant: the holder of the mutex alone reads and writes.
LEMMA ListsKeepsInv == TasksInv /\ [ListsNext]_wlVars => TasksInv'
<1> SUFFICES ASSUME TasksInv, [ListsNext]_wlVars PROVE TasksInv'
    OBVIOUS
<1> USE DEF TasksInv, CopyShape
<1>1. ASSUME NEW e \in Editors, NEW c \in Creates \cup Updates, ReadTasks(e, c) PROVE TasksInv'
    <2>1. \A f \in Editors : doing[f] # "tasks"
        BY <1>1, ListsAssumption DEF ReadTasks, MutexFree
    <2>2. /\ CopyShape'
          /\ copy'[e].tasks = tasks
        BY <1>1 DEF ReadTasks
    <2> QED
        BY <1>1, <2>1, <2>2 DEF ReadTasks
<1>2. ASSUME NEW e \in Editors, NEW n \in SkillNames, ReadRecent(e, n) PROVE TasksInv'
    <2>1. /\ CopyShape'
          /\ \A f \in Editors \ {e} : copy'[f] = copy[f]
        BY <1>2 DEF ReadRecent
    <2> QED
        BY <1>2, <2>1 DEF ReadRecent
<1>3. ASSUME NEW e \in Editors, AnswerTasks(e) PROVE TasksInv'
    <2>1. \A f \in Editors \ {e} : doing[f] # "tasks"
        BY <1>3 DEF AnswerTasks
    <2>2. tasks' = said'
        BY <1>3 DEF AnswerTasks
    <2>3. CopyShape'
        BY <1>3 DEF AnswerTasks, Rest, NoCopy
    <2> QED
        BY <1>3, <2>1, <2>2, <2>3 DEF AnswerTasks, Rest
<1>4. ASSUME NEW e \in Editors, SaveRecent(e) PROVE TasksInv'
    <2>1. /\ CopyShape'
          /\ \A f \in Editors \ {e} : copy'[f] = copy[f]
        BY <1>4 DEF SaveRecent, Rest, NoCopy
    <2> QED
        BY <1>4, <2>1 DEF SaveRecent, Rest
<1>5. CASE UNCHANGED wlVars
    BY <1>5 DEF wlVars
<1> QED
    BY <1>1, <1>2, <1>3, <1>4, <1>5 DEF ListsNext

-----------------------------------------------------------------------------
(* The skills used last are listed first, for any names and uses.          *)

\* Where a name stands in the list of uses.
Newest(u, n) == SelectInSeq(u, LAMBDA m : m = n)
Ranks(u)     == [n \in SkillNames |-> Newest(u, n)]

\* It is the first place of the name, or zero.
LEMMA NewestFacts ==
    ASSUME NEW S, NEW u \in Seq(S), NEW n
    PROVE  /\ Newest(u, n) \in 0 .. Len(u)
           /\ Newest(u, n) = 0 => \A i \in 1 .. Len(u) : u[i] # n
           /\ Newest(u, n) # 0 => u[Newest(u, n)] = n
           /\ \A i \in 1 .. Len(u) : u[i] = n => Newest(u, n) # 0 /\ Newest(u, n) <= i
<1> DEFINE I == {i \in 1 .. Len(u) : u[i] = n}
<1>1. Newest(u, n) = IF I # {} THEN Min(I) ELSE 0
    BY DEF Newest, SelectInSeq
<1>2. I \in SUBSET Nat
    OBVIOUS
<1>3. I # {} => Min(I) \in I /\ \A i \in I : Min(I) <= i
    <2> HIDE DEF I
    <2> QED
        BY <1>2, MinFacts
<1>4. Len(u) \in Nat /\ \A i : i \in I <=> i \in 1 .. Len(u) /\ u[i] = n
    OBVIOUS
<1> HIDE DEF I
<1>5. CASE I = {}
    <2>1. Newest(u, n) = 0 /\ \A i \in 1 .. Len(u) : u[i] # n
        BY <1>1, <1>4, <1>5
    <2> QED
        BY <1>4, <2>1
<1>6. CASE I # {}
    <2>1. Newest(u, n) \in I /\ \A i \in I : Newest(u, n) <= i
        BY <1>1, <1>3, <1>6
    <2>2. Newest(u, n) \in 1 .. Len(u) /\ u[Newest(u, n)] = n
        BY <1>4, <2>1
    <2> QED
        BY <1>4, <2>1, <2>2
<1> QED
    BY <1>5, <1>6

\* A use puts its name first, and all others one place back.
LEMMA NewestOfUse ==
    ASSUME NEW S, NEW u \in Seq(S), NEW x \in S, NEW n
    PROVE  Newest(<<x>> \o u, n) = IF n = x THEN 1 ELSE IF Newest(u, n) = 0 THEN 0 ELSE Newest(u, n) + 1
<1> DEFINE w == <<x>> \o u
           a == Newest(u, n)
           b == Newest(w, n)
<1>1. w \in Seq(S) /\ Len(w) = Len(u) + 1 /\ w[1] = x /\ Len(u) \in Nat /\ \A i \in 1 .. Len(u) : w[i + 1] = u[i]
    OBVIOUS
<1>2. \A i \in 2 .. Len(w) : i - 1 \in 1 .. Len(u) /\ w[i] = u[i - 1]
    <2>1. \A i \in 2 .. Len(w) : i - 1 \in 1 .. Len(u) /\ (i - 1) + 1 = i
        BY <1>1
    <2> QED
        BY <1>1, <2>1
<1> HIDE DEF w
<1>3. /\ a \in 0 .. Len(u) /\ (a # 0 => u[a] = n)
      /\ \A i \in 1 .. Len(u) : u[i] = n => a # 0 /\ a <= i
    BY NewestFacts
<1>4. /\ b \in 0 .. Len(w) /\ (b # 0 => w[b] = n)
      /\ \A i \in 1 .. Len(w) : w[i] = n => b # 0 /\ b <= i
    BY <1>1, NewestFacts
<1> HIDE DEF a, b
<1>5. CASE n = x
    <2>1. 1 \in 1 .. Len(w) /\ w[1] = n
        BY <1>1, <1>5
    <2>2. b # 0 /\ b <= 1
        BY <1>4, <2>1
    <2>3. b = 1
        BY <1>1, <1>4, <2>2
    <2> QED
        BY <1>5, <2>3 DEF b, w
<1>6. CASE n # x /\ a = 0
    <2>1. b # 0 => b \in 2 .. Len(w)
        BY <1>1, <1>4, <1>6
    <2>2. b # 0 => b - 1 \in 1 .. Len(u) /\ u[b - 1] = n
        BY <1>2, <1>4, <2>1
    <2>3. b = 0
        BY <1>3, <1>6, <2>2
    <2> QED
        BY <1>6, <2>3 DEF a, b, w
<1>7. CASE n # x /\ a # 0
    <2>1. a + 1 \in 1 .. Len(w) /\ w[a + 1] = n
        BY <1>1, <1>3, <1>7
    <2>2. b # 0 /\ b <= a + 1
        BY <1>4, <2>1
    <2>3. b \in 2 .. Len(w)
        BY <1>1, <1>4, <1>7, <2>2
    <2>4. a <= b - 1
        BY <1>2, <1>3, <1>4, <2>2, <2>3
    <2>5. b = a + 1
        BY <1>1, <1>3, <1>4, <2>2, <2>4
    <2> QED
        BY <1>7, <2>5 DEF a, b, w
<1> QED
    BY <1>5, <1>6, <1>7

\* Names in the order of their ranks, the smallest first.
RisingIn(q, v) == \A i \in 1 .. Len(q) : \A j \in 1 .. Len(q) : i < j => v[q[i]] < v[q[j]]

\* What is kept of such a list is in order.
LEMMA KeptIsInOrder ==
    ASSUME NEW S, NEW v \in [S -> Nat], NEW q \in Seq(S), NEW K, RisingIn(q, v)
    PROVE  RisingIn(Kept(q, K), v)
<1> DEFINE T == {p \in Seq(S) : RisingIn(p, v) => RisingIn(Kept(p, K), v)}
<1>1. <<>> \in T
    <2>1. Kept(<<>>, K) = <<>>
        BY KeptOfEmpty
    <2> QED
        BY <2>1
<1>2. ASSUME NEW p \in Seq(S), NEW e \in S, p \in T PROVE Append(p, e) \in T
    <2> DEFINE r == Append(p, e)
               m == Len(p)
    <2>1. r \in Seq(S) /\ Len(r) = m + 1 /\ r[m + 1] = e /\ m \in Nat /\ \A i \in 1 .. m : r[i] = p[i]
        OBVIOUS
    <2> HIDE DEF r, m
    <2> SUFFICES ASSUME RisingIn(r, v) PROVE RisingIn(Kept(r, K), v)
        BY <2>1 DEF r
    <2>2. \A i \in 1 .. m : i \in 1 .. m + 1 /\ i < m + 1
        BY <2>1
    <2>3. m + 1 \in 1 .. m + 1
        BY <2>1
    <2>4. \A i \in 1 .. m : v[p[i]] < v[e]
        BY <2>1, <2>2, <2>3 DEF RisingIn
    <2>5. RisingIn(p, v)
        BY <2>1, <2>2 DEF RisingIn, m
    <2> DEFINE k == Kept(p, K)
    <2>6. k \in Seq(S) /\ RisingIn(k, v)
        BY <1>2, <2>5, KeptType
    <2>7. \A n \in 1 .. Len(k) : v[k[n]] < v[e]
        <3>1. Elems(k) \subseteq Elems(p)
            BY KeptElements
        <3> HIDE DEF k
        <3> QED
            BY <2>4, <3>1 DEF Elems, m
    <2>8. Kept(r, K) = IF e \in K THEN Append(k, e) ELSE k
        BY KeptOfAppend DEF r
    <2> HIDE DEF k
    <2>9. RisingIn(Append(k, e), v)
        <3> DEFINE s == Append(k, e)
        <3>1. Len(s) = Len(k) + 1 /\ s[Len(k) + 1] = e /\ Len(k) \in Nat /\ \A n \in 1 .. Len(k) : s[n] = k[n]
            BY <2>6
        <3> HIDE DEF s
        <3>2. ASSUME NEW i \in 1 .. Len(s), NEW j \in 1 .. Len(s), i < j PROVE v[s[i]] < v[s[j]]
            <4>1. i \in 1 .. Len(k)
                BY <3>1, <3>2
            <4>2. CASE j = Len(k) + 1
                BY <2>7, <3>1, <4>1, <4>2
            <4>3. CASE j # Len(k) + 1
                <5>1. j \in 1 .. Len(k)
                    BY <3>1, <4>3
                <5> QED
                    BY <2>6, <3>1, <3>2, <4>1, <5>1 DEF RisingIn
            <4> QED
                BY <4>2, <4>3
        <3> QED
            BY <3>2 DEF RisingIn, s
    <2> QED
        BY <2>6, <2>8, <2>9
<1> HIDE DEF T
<1>3. Seq(S) \subseteq T
    BY <1>1, <1>2, SequenceInduction
<1> QED
    BY <1>3 DEF T

\* Such a list has no name twice, so that it is as long as its names are many.
LEMMA InOrderCount ==
    ASSUME NEW S, NEW v \in [S -> Nat], NEW q \in Seq(S), RisingIn(q, v)
    PROVE  Distinct(q) /\ IsFiniteSet(Elems(q)) /\ Cardinality(Elems(q)) = Len(q)
<1>1. Len(q) \in Nat /\ \A i \in 1 .. Len(q) : v[q[i]] \in Nat
    OBVIOUS
<1>2. Distinct(q)
    <2> SUFFICES ASSUME NEW i \in 1 .. Len(q), NEW j \in 1 .. Len(q), q[i] = q[j], i # j PROVE FALSE
        BY DEF Distinct
    <2>1. i < j \/ j < i
        BY <1>1
    <2>2. v[q[i]] < v[q[j]] \/ v[q[j]] < v[q[i]]
        BY <2>1 DEF RisingIn
    <2> QED
        BY <1>1, <2>2
<1>3. IsFiniteSet(1 .. Len(q)) /\ Cardinality(1 .. Len(q)) = Len(q)
    <2>1. 1 \in Int /\ Len(q) \in Int
        BY <1>1
    <2>2. /\ IsFiniteSet(1 .. Len(q))
          /\ Cardinality(1 .. Len(q)) = IF 1 > Len(q) THEN 0 ELSE Len(q) - 1 + 1
        BY <2>1, FS_Interval
    <2> QED
        BY <1>1, <2>2
<1>4. q \in [1 .. Len(q) -> Elems(q)]
    BY DEF Elems
<1>5. q \in Bijection(1 .. Len(q), Elems(q))
    BY <1>2, <1>4 DEF Bijection, Injection, Surjection, IsInjective, Distinct, Elems
<1>6. ExistsBijection(1 .. Len(q), Elems(q))
    BY <1>5 DEF ExistsBijection
<1> QED
    BY <1>2, <1>3, <1>6, FS_Bijection

\* The list on file: names in the order of their last uses, and room means that nothing is
\* left out.
InOrder(r, u) ==
    /\ r \in Seq(SkillNames) /\ u \in Seq(SkillNames) /\ Len(r) <= MaxRecent
    /\ RisingIn(r, Ranks(u))
    /\ \A i \in 1 .. Len(r) : Newest(u, r[i]) # 0
    /\ Len(r) < MaxRecent => \A n \in SkillNames \ Elems(r) : Newest(u, n) = 0

\* The set of elements, as the model writes it.
LEMMA SameElems ==
    ASSUME NEW S, NEW q \in Seq(S)
    PROVE  ToSet(q) = Elems(q)
<1>1. DOMAIN q = 1 .. Len(q)
    OBVIOUS
<1> QED
    BY <1>1 DEF ToSet, Elems

\* Ranks are naturals.
LEMMA RankTypes ==
    ASSUME NEW u \in Seq(SkillNames)
    PROVE  Ranks(u) \in [SkillNames -> Nat] /\ \A n \in SkillNames : Ranks(u)[n] = Newest(u, n) /\ Newest(u, n) \in Nat
<1>1. Len(u) \in Nat
    OBVIOUS
<1>2. \A n \in SkillNames : Newest(u, n) \in Nat
    BY <1>1, NewestFacts
<1> QED
    BY <1>2 DEF Ranks

\* A use keeps the list in order, trimmed or not.
LEMMA UseKeepsOrder ==
    ASSUME NEW r, NEW u, InOrder(r, u), NEW x \in SkillNames
    PROVE  InOrder(UsedFirst(r, x), <<x>> \o u)
<1> DEFINE k == Kept(r, ToSet(r) \ {x})
           w == <<x>> \o u
           m == <<x>> \o k
           s == SubSeq(m, 1, MaxRecent)
           v == Ranks(u)
<1>0. UsedFirst(r, x) = IF Len(m) > MaxRecent THEN s ELSE m
    BY DEF UsedFirst
<1>1. r \in Seq(SkillNames) /\ u \in Seq(SkillNames) /\ Len(r) <= MaxRecent /\ RisingIn(r, v) /\ MaxRecent \in Nat \ {0}
    BY ListsAssumption DEF InOrder
<1>2. /\ k \in Seq(SkillNames) /\ RisingIn(k, v)
      /\ Elems(k) = Elems(r) \ {x}
    <2>1. k \in Seq(SkillNames) /\ Elems(k) = Elems(r) \cap (ToSet(r) \ {x})
        BY <1>1, KeptType, KeptElements
    <2>2. RisingIn(k, v)
        BY <1>1, RankTypes, KeptIsInOrder
    <2>3. ToSet(r) = Elems(r)
        BY <1>1, SameElems
    <2> QED
        BY <2>1, <2>2, <2>3
<1>3. Len(r) <= Len(k) + 1 /\ Len(k) \in Nat /\ Len(r) \in Nat
    <2>1. /\ IsFiniteSet(Elems(r)) /\ Cardinality(Elems(r)) = Len(r)
          /\ IsFiniteSet(Elems(k)) /\ Cardinality(Elems(k)) = Len(k)
        <3> HIDE DEF k
        <3> QED
            BY <1>1, <1>2, RankTypes, InOrderCount
    <2>2. Len(k) \in Nat /\ Len(r) \in Nat
        BY <1>1, <1>2
    <2>3. CASE x \in Elems(r)
        <3>1. Cardinality(Elems(r) \ {x}) = Cardinality(Elems(r)) - 1
            BY <2>1, <2>3, FS_RemoveElement
        <3>2. Cardinality(Elems(k)) = Cardinality(Elems(r)) - 1
            BY <1>2, <3>1
        <3> HIDE DEF k
        <3> QED
            BY <2>1, <2>2, <3>2
    <2>4. CASE x \notin Elems(r)
        <3>1. Elems(r) \ {x} = Elems(r)
            BY <2>4
        <3>2. Cardinality(Elems(k)) = Cardinality(Elems(r))
            BY <1>2, <3>1
        <3> HIDE DEF k
        <3> QED
            BY <2>1, <2>2, <3>2
    <2> QED
        BY <2>3, <2>4
<1> HIDE DEF k, v
<1>4. /\ m \in Seq(SkillNames) /\ Len(m) = Len(k) + 1 /\ m[1] = x
      /\ \A i \in 2 .. Len(m) : i - 1 \in 1 .. Len(k) /\ m[i] = k[i - 1]
    BY <1>2, <1>3
<1> HIDE DEF m
<1>5. /\ w \in Seq(SkillNames)
      /\ \A n \in SkillNames : /\ Newest(u, n) \in Nat
                               /\ Newest(w, n) = IF n = x THEN 1 ELSE IF Newest(u, n) = 0 THEN 0 ELSE Newest(u, n) + 1
    <2>1. w \in Seq(SkillNames)
        BY <1>1
    <2> QED
        BY <1>1, <2>1, RankTypes, NewestOfUse
<1> HIDE DEF w
<1>6. \A i \in 1 .. Len(k) : /\ k[i] \in SkillNames /\ k[i] # x /\ Newest(u, k[i]) # 0
                             /\ Newest(w, k[i]) = Newest(u, k[i]) + 1
    <2>1. ASSUME NEW i \in 1 .. Len(k) PROVE k[i] \in SkillNames /\ k[i] # x /\ k[i] \in Elems(r)
        <3>1. k[i] \in Elems(k)
            BY DEF Elems
        <3>2. k[i] \in SkillNames
            BY <1>2
        <3> QED
            BY <1>2, <3>1, <3>2
    <2>2. \A n \in Elems(r) : Newest(u, n) # 0
        BY DEF InOrder, Elems
    <2> QED
        BY <1>5, <2>1, <2>2
<1>7. \A i \in 1 .. Len(m) : \A j \in 1 .. Len(m) : i < j => Newest(w, m[i]) < Newest(w, m[j])
    <2> SUFFICES ASSUME NEW i \in 1 .. Len(m), NEW j \in 1 .. Len(m), i < j PROVE Newest(w, m[i]) < Newest(w, m[j])
        OBVIOUS
    <2>1. j \in 2 .. Len(m) /\ j - 1 \in 1 .. Len(k) /\ m[j] = k[j - 1]
        BY <1>3, <1>4
    <2>2. Newest(w, m[j]) = Newest(u, k[j - 1]) + 1 /\ Newest(u, k[j - 1]) \in Nat \ {0}
        BY <1>5, <1>6, <2>1
    <2>3. CASE i = 1
        <3>1. Newest(w, m[i]) = 1
            BY <1>4, <1>5, <2>3
        <3> QED
            BY <2>2, <3>1
    <2>4. CASE i # 1
        <3>1. i \in 2 .. Len(m) /\ i - 1 \in 1 .. Len(k) /\ m[i] = k[i - 1] /\ i - 1 < j - 1
            BY <1>3, <1>4, <2>1, <2>4
        <3>2. Newest(w, m[i]) = Newest(u, k[i - 1]) + 1 /\ Newest(u, k[i - 1]) \in Nat
            BY <1>5, <1>6, <3>1
        <3>3. v[k[i - 1]] < v[k[j - 1]]
            BY <1>2, <2>1, <3>1 DEF RisingIn
        <3>4. v[k[i - 1]] = Newest(u, k[i - 1]) /\ v[k[j - 1]] = Newest(u, k[j - 1])
            BY <1>1, <1>6, <2>1, <3>1, RankTypes DEF v
        <3> QED
            BY <2>2, <3>2, <3>3, <3>4
    <2> QED
        BY <2>3, <2>4
<1>8. \A i \in 1 .. Len(m) : Newest(w, m[i]) # 0
    <2> SUFFICES ASSUME NEW i \in 1 .. Len(m) PROVE Newest(w, m[i]) # 0
        OBVIOUS
    <2>1. CASE i = 1
        BY <1>4, <1>5, <2>1
    <2>2. CASE i # 1
        <3>1. i - 1 \in 1 .. Len(k) /\ m[i] = k[i - 1]
            BY <1>3, <1>4, <2>2
        <3> QED
            BY <1>5, <1>6, <3>1
    <2> QED
        BY <2>1, <2>2
<1>9. CASE Len(m) <= MaxRecent
    <2>1. UsedFirst(r, x) = m
        BY <1>0, <1>1, <1>3, <1>4, <1>9
    <2>2. RisingIn(m, Ranks(w))
        <3>1. \A i \in 1 .. Len(m) : m[i] \in SkillNames
            BY <1>4
        <3> QED
            BY <1>5, <1>7, <3>1, RankTypes DEF RisingIn
    <2>3. ASSUME Len(m) < MaxRecent, NEW n \in SkillNames \ Elems(m) PROVE Newest(w, n) = 0
        <3>1. Elems(m) = {x} \cup Elems(k)
            BY <1>2, PushFacts DEF m
        <3>2. n # x /\ n \notin Elems(r) /\ Len(r) < MaxRecent
            BY <1>1, <1>2, <1>3, <1>4, <2>3, <3>1
        <3>3. Newest(u, n) = 0
            BY <3>2 DEF InOrder
        <3> QED
            BY <1>5, <3>2, <3>3
    <2>4. InOrder(m, w)
        BY <1>4, <1>5, <1>8, <1>9, <2>2, <2>3 DEF InOrder
    <2> QED
        BY <2>1, <2>4 DEF w
<1>10. CASE MaxRecent < Len(m)
    <2>1. UsedFirst(r, x) = s
        BY <1>0, <1>1, <1>3, <1>4, <1>10
    <2>2. /\ s \in Seq(SkillNames) /\ Len(s) = MaxRecent
          /\ \A i \in 1 .. MaxRecent : s[i] = m[i] /\ i \in 1 .. Len(m)
        BY <1>1, <1>3, <1>4, <1>10
    <2> HIDE DEF s
    <2>3. RisingIn(s, Ranks(w)) /\ \A i \in 1 .. Len(s) : Newest(w, s[i]) # 0
        <3>1. \A i \in 1 .. Len(s) : s[i] \in SkillNames
            BY <2>2
        <3>2. \A i \in 1 .. Len(s) : \A j \in 1 .. Len(s) : i < j => Newest(w, s[i]) < Newest(w, s[j])
            BY <1>7, <2>2
        <3>3. RisingIn(s, Ranks(w))
            BY <1>5, <3>1, <3>2, RankTypes DEF RisingIn
        <3> QED
            BY <1>8, <2>2, <3>3
    <2>4. InOrder(s, w)
        BY <1>1, <1>5, <2>2, <2>3 DEF InOrder
    <2> QED
        BY <2>1, <2>4 DEF w
<1> QED
    BY <1>1, <1>3, <1>4, <1>9, <1>10

\* A set in some order is as long as the set is large.
LEMMA SetInOrder ==
    ASSUME NEW S, IsFiniteSet(S)
    PROVE  SetToSeq(S) \in Seq(S) /\ Len(SetToSeq(S)) = Cardinality(S)
<1>1. Cardinality(S) \in Nat /\ ExistsBijection(1 .. Cardinality(S), S)
    BY FS_CardinalityType
<1>2. \E f \in [1 .. Cardinality(S) -> S] : IsInjective(f)
    BY <1>1 DEF ExistsBijection, Bijection, Injection
<1>3. SetToSeq(S) \in [1 .. Cardinality(S) -> S]
    BY <1>2 DEF SetToSeq
<1> QED
    BY <1>1, <1>3

\* OrderSkills lists the names of the file, and the others behind them.
LEMMA ListedFacts ==
    ASSUME NEW r, NEW u, InOrder(r, u)
    PROVE  /\ Len(Listed(r, SkillNames)) = Cardinality(SkillNames)
           /\ \A i \in 1 .. Len(r) : Listed(r, SkillNames)[i] = r[i]
<1> DEFINE rest == SkillNames \ Elems(r)
           t == SetToSeq(rest)
<1>1. r \in Seq(SkillNames) /\ Len(r) \in Nat /\ u \in Seq(SkillNames)
    BY DEF InOrder
<1>2. IsFiniteSet(Elems(r)) /\ Cardinality(Elems(r)) = Len(r) /\ Elems(r) \subseteq SkillNames
    <2>1. Ranks(u) \in [SkillNames -> Nat] /\ RisingIn(r, Ranks(u))
        BY <1>1, RankTypes DEF InOrder
    <2>2. Elems(r) \subseteq SkillNames
        BY <1>1 DEF Elems
    <2> QED
        BY <1>1, <2>1, <2>2, InOrderCount
<1>3. IsFiniteSet(rest) /\ Cardinality(rest) = Cardinality(SkillNames) - Len(r) /\ Cardinality(SkillNames) \in Nat
    <2>1. SkillNames \cap Elems(r) = Elems(r)
        BY <1>2
    <2>2. IsFiniteSet(SkillNames) /\ Cardinality(SkillNames) \in Nat
        BY ListsAssumption, FS_CardinalityType
    <2>3. IsFiniteSet(rest) /\ Cardinality(rest) = Cardinality(SkillNames) - Cardinality(SkillNames \cap Elems(r))
        BY <2>2, FS_Difference
    <2> QED
        BY <1>2, <2>1, <2>2, <2>3
<1>4. t \in Seq(rest) /\ Len(t) = Cardinality(SkillNames) - Len(r)
    BY <1>3, SetInOrder
<1>5. t \in Seq(SkillNames)
    <2> HIDE DEF t
    <2> QED
        BY <1>4
<1>6. Listed(r, SkillNames) = r \o t
    <2>1. Kept(r, SkillNames) = r
        BY <1>1, KeptWhole
    <2>2. ToSet(r) = Elems(r)
        BY <1>1, SameElems
    <2> QED
        BY <2>1, <2>2 DEF Listed
<1>7. Len(t) \in Int /\ Len(t) = Cardinality(SkillNames) - Len(r)
    BY <1>1, <1>3, <1>4
<1> HIDE DEF t
<1>8. Len(r \o t) = Len(r) + Len(t) /\ \A i \in 1 .. Len(r) : (r \o t)[i] = r[i]
    BY <1>1, <1>5, ConcatProperties
<1>9. Len(r) + Len(t) = Cardinality(SkillNames)
    BY <1>1, <1>3, <1>7
<1> QED
    BY <1>6, <1>8, <1>9

\* While no two uses overlap, one turn at most has a copy of the list, and it is the list.
RecentInv ==
    /\ change \in [Editors -> {change[e] : e \in Editors}]
    /\ ~ crossed =>
         /\ InOrder(recent, uses)
         /\ \A e \in Editors :
              doing[e] = "recent" =>
                  /\ change[e].name \in SkillNames /\ copy[e].recent = recent
                  /\ \A f \in Editors : doing[f] = "recent" => f = e

\* Nothing is used at the start.
LEMMA RecentInitInv == ListsInit => RecentInv
<1> SUFFICES ASSUME ListsInit PROVE RecentInv
    OBVIOUS
<1>1. InOrder(recent, uses)
    <2>1. <<>> \in Seq(SkillNames) /\ Len(<<>>) = 0
        OBVIOUS
    <2>2. \A n \in SkillNames : Newest(<<>>, n) = 0
        <3>1. \A n \in SkillNames : Newest(<<>>, n) \in 0 .. Len(<<>>)
            BY <2>1, NewestFacts
        <3> QED
            BY <2>1, <3>1
    <2> QED
        BY <2>1, <2>2, ListsAssumption DEF ListsInit, InOrder, RisingIn
<1> QED
    BY <1>1 DEF ListsInit, RecentInv, NoChange

\* Every step keeps it: a use that begins while another one is under way crosses it.
LEMMA RecentKeepsInv == TasksInv /\ RecentInv /\ [ListsNext]_wlVars => RecentInv'
<1> SUFFICES ASSUME TasksInv, RecentInv, [ListsNext]_wlVars PROVE RecentInv'
    OBVIOUS
<1>1. doing \in [Editors -> {"idle", "tasks", "recent"}] /\ CopyShape
    BY DEF TasksInv
<1>2. ASSUME NEW e \in Editors, NEW c \in Creates \cup Updates, ReadTasks(e, c) PROVE RecentInv'
    <2>1. /\ UNCHANGED <<recent, uses, crossed>> /\ doing' = [doing EXCEPT ![e] = "tasks"]
          /\ copy' = [copy EXCEPT ![e].tasks = tasks] /\ change' = [change EXCEPT ![e] = c]
        BY <1>2 DEF ReadTasks
    <2>2. \A f \in Editors : doing'[f] = "recent" => doing[f] = "recent" /\ f # e /\ copy'[f] = copy[f] /\ change'[f] = change[f]
        BY <1>1, <2>1 DEF CopyShape, RecentInv
    <2> QED
        BY <2>1, <2>2 DEF RecentInv
<1>3. ASSUME NEW e \in Editors, NEW n \in SkillNames, ReadRecent(e, n) PROVE RecentInv'
    <2>1. /\ UNCHANGED <<recent, uses>> /\ doing' = [doing EXCEPT ![e] = "recent"]
          /\ copy' = [copy EXCEPT ![e].recent = recent] /\ change' = [change EXCEPT ![e] = [op |-> "use", name |-> n]]
          /\ crossed' = (crossed \/ \E f \in Editors : doing[f] = "recent")
        BY <1>3 DEF ReadRecent
    <2>2. copy'[e].recent = recent /\ change'[e].name = n
        BY <1>1, <2>1 DEF CopyShape, RecentInv
    <2>3. ~ crossed' => ~ crossed /\ \A f \in Editors : doing'[f] = "recent" => f = e
        BY <1>1, <2>1
    <2>4. change' \in [Editors -> {change'[f] : f \in Editors}]
        BY <2>1 DEF RecentInv
    <2> QED
        BY <2>1, <2>2, <2>3, <2>4 DEF RecentInv
<1>4. ASSUME NEW e \in Editors, AnswerTasks(e) PROVE RecentInv'
    <2>1. /\ UNCHANGED <<recent, uses, crossed>> /\ doing' = [doing EXCEPT ![e] = "idle"]
          /\ copy' = [copy EXCEPT ![e] = NoCopy] /\ change' = [change EXCEPT ![e] = NoChange]
        BY <1>4 DEF AnswerTasks, Rest
    <2>2. \A f \in Editors : doing'[f] = "recent" => doing[f] = "recent" /\ f # e /\ copy'[f] = copy[f] /\ change'[f] = change[f]
        BY <1>1, <2>1 DEF CopyShape, RecentInv
    <2> QED
        BY <2>1, <2>2 DEF RecentInv
<1>5. ASSUME NEW e \in Editors, SaveRecent(e) PROVE RecentInv'
    <2>1. /\ doing[e] = "recent" /\ doing' = [doing EXCEPT ![e] = "idle"] /\ crossed' = crossed
          /\ copy' = [copy EXCEPT ![e] = NoCopy] /\ change' = [change EXCEPT ![e] = NoChange]
          /\ \/ recent' = UsedFirst(copy[e].recent, change[e].name) /\ uses' = <<change[e].name>> \o uses
             \/ UNCHANGED <<recent, uses>>
        BY <1>5 DEF SaveRecent, Rest
    <2>2. change' \in [Editors -> {change'[f] : f \in Editors}]
        BY <2>1 DEF RecentInv
    <2>3. ASSUME ~ crossed PROVE InOrder(recent', uses') /\ \A f \in Editors : doing'[f] # "recent"
        <3>1. InOrder(recent, uses) /\ change[e].name \in SkillNames /\ copy[e].recent = recent
            BY <2>1, <2>3 DEF RecentInv
        <3>2. \A f \in Editors : doing'[f] # "recent"
            BY <1>1, <2>1, <2>3 DEF RecentInv
        <3> QED
            BY <2>1, <3>1, <3>2, UseKeepsOrder
    <2> QED
        BY <2>1, <2>2, <2>3 DEF RecentInv
<1>6. CASE UNCHANGED wlVars
    BY <1>6 DEF wlVars, RecentInv
<1> QED
    BY <1>2, <1>3, <1>4, <1>5, <1>6 DEF ListsNext

\* However the creates and updates of turns interleave, the task file holds what their answers
\* say; and while no two uses of skills overlap, the skills used last are listed first
\* (CreateWithInstruction and UpdateWithInstruction, tasks.go:139-331; RecordUse, recent.go:67-99).
THEOREM ListsAreKept == ListsSpec => []ListsHoldWhatWasSaid
<1>1. TasksInv => TaskAnswersHold
    BY DEF TasksInv, TaskAnswersHold
<1>2. RecentInv => NewestSkillsFirst
    <2> SUFFICES ASSUME RecentInv, ~ crossed PROVE NewestSkillsFirst
        BY DEF NewestSkillsFirst
    <2> DEFINE shown == Listed(recent, SkillNames)
    <2>1. InOrder(recent, uses)
        BY DEF RecentInv
    <2>2. /\ Len(shown) = Cardinality(SkillNames)
          /\ \A i \in 1 .. Len(recent) : shown[i] = recent[i]
        BY <2>1, ListedFacts
    <2>3. recent \in Seq(SkillNames) /\ uses \in Seq(SkillNames) /\ DOMAIN recent = 1 .. Len(recent) /\ ToSet(recent) = Elems(recent)
        BY <2>1, SameElems DEF InOrder
    <2> HIDE DEF shown
    <2>4. \A i, j \in DOMAIN recent : i < j => Newest(uses, shown[i]) # 0 /\ Newest(uses, shown[i]) < Newest(uses, shown[j])
        <3>1. \A i \in 1 .. Len(recent) : recent[i] \in SkillNames /\ Ranks(uses)[recent[i]] = Newest(uses, recent[i])
            BY <2>3, RankTypes
        <3> QED
            BY <2>1, <2>2, <2>3, <3>1 DEF InOrder, RisingIn
    <2>5. \A n \in SkillNames \ ToSet(recent) : Len(recent) < MaxRecent => Newest(uses, n) = 0
        BY <2>1, <2>3 DEF InOrder
    <2> QED
        BY <2>2, <2>4, <2>5 DEF NewestSkillsFirst, Newest, shown
<1>3. ListsInit => TasksInv /\ RecentInv
    BY ListsInitInv, RecentInitInv
<1>4. TasksInv /\ RecentInv /\ [ListsNext]_wlVars => (TasksInv /\ RecentInv)'
    BY ListsKeepsInv, RecentKeepsInv
<1>5. TasksInv /\ RecentInv => ListsHoldWhatWasSaid
    BY <1>1, <1>2 DEF ListsHoldWhatWasSaid
<1> QED
    BY <1>3, <1>4, <1>5, PTL DEF ListsSpec

-----------------------------------------------------------------------------
(* The sum of a function's values.                                         *)

\* The element SumFunction takes next, and the function its recursion defines.
Next1(s) == CHOOSE x \in s : TRUE
SumLoop(f, D, g) == g = [s \in D |-> IF s = {} THEN 0 ELSE f[Next1(s)] + g[s \ {Next1(s)}]]

\* The sets of at most k elements.
UpTo(S, k) == {s \in SUBSET S : Cardinality(s) <= k}

\* SumFunction is that function at the whole domain.
LEMMA SumIsLoop ==
    ASSUME NEW f
    PROVE  SumFunction(f) = (CHOOSE g : SumLoop(f, SUBSET DOMAIN f, g))[DOMAIN f]
BY DEF SumFunction, SumFunctionOnSet, FoldFunctionOnSet, MapThenFoldSet, SumLoop, Next1

\* A set of at most k + 1 elements has at most k without the next one.
LEMMA OneFewer ==
    ASSUME NEW S, IsFiniteSet(S), NEW k \in Nat, NEW s \in UpTo(S, k + 1), s # {}
    PROVE  Next1(s) \in S /\ Next1(s) \in s /\ s \ {Next1(s)} \in UpTo(S, k)
<1>1. Next1(s) \in s
    BY DEF Next1
<1>2. IsFiniteSet(s) /\ s \subseteq S
    BY FS_Subset DEF UpTo
<1>3. Cardinality(s \ {Next1(s)}) = Cardinality(s) - 1 /\ Cardinality(s) \in Nat
    BY <1>1, <1>2, FS_RemoveElement, FS_CardinalityType
<1> QED
    BY <1>1, <1>2, <1>3 DEF UpTo

\* Every part of a finite set is in one of these, and the smallest has the empty set alone.
LEMMA UpToFacts ==
    ASSUME NEW S, IsFiniteSet(S)
    PROVE  /\ UpTo(S, Cardinality(S)) = SUBSET S /\ Cardinality(S) \in Nat
           /\ UpTo(S, 0) = {{}}
           /\ \A k \in Nat : UpTo(S, k) \subseteq UpTo(S, k + 1) /\ {} \in UpTo(S, k)
<1>1. \A s \in SUBSET S : IsFiniteSet(s) /\ Cardinality(s) \in Nat /\ Cardinality(s) <= Cardinality(S)
    BY FS_Subset, FS_CardinalityType
<1>2. Cardinality(S) \in Nat
    BY FS_CardinalityType
<1>3. \A s \in SUBSET S : Cardinality(s) = 0 <=> s = {}
    BY <1>1, FS_EmptySet
<1> QED
    BY <1>1, <1>2, <1>3 DEF UpTo

\* There is such a function: it is built up over the sets of at most k elements.
LEMMA SumLoopExists ==
    ASSUME NEW S, IsFiniteSet(S), NEW f \in [S -> Nat]
    PROVE  \E g : SumLoop(f, SUBSET S, g)
<1> DEFINE T == {k \in Nat : \E g : SumLoop(f, UpTo(S, k), g)}
<1>1. 0 \in T
    <2> DEFINE g == [s \in UpTo(S, 0) |-> 0]
    <2>1. SumLoop(f, UpTo(S, 0), g)
        BY UpToFacts DEF SumLoop
    <2> QED
        BY <2>1
<1>2. ASSUME NEW k \in Nat, k \in T PROVE k + 1 \in T
    <2>1. PICK g : SumLoop(f, UpTo(S, k), g)
        BY <1>2
    <2> DEFINE h == [s \in UpTo(S, k + 1) |-> IF s = {} THEN 0 ELSE f[Next1(s)] + g[s \ {Next1(s)}]]
    <2>2. \A s \in UpTo(S, k) : h[s] = g[s]
        <3>1. UpTo(S, k) \subseteq UpTo(S, k + 1)
            BY UpToFacts
        <3> QED
            BY <2>1, <3>1 DEF SumLoop
    <2>3. \A s \in UpTo(S, k + 1) : s # {} => h[s \ {Next1(s)}] = g[s \ {Next1(s)}]
        BY <2>2, OneFewer
    <2> DEFINE v(s) == IF s = {} THEN 0 ELSE f[Next1(s)] + h[s \ {Next1(s)}]
    <2>4. \A s \in UpTo(S, k + 1) : h[s] = v(s)
        BY <2>3
    <2>5. h = [s \in UpTo(S, k + 1) |-> v(s)]
        <3> HIDE DEF v
        <3> QED
            BY <2>4
    <2>6. SumLoop(f, UpTo(S, k + 1), h)
        BY <2>5 DEF SumLoop
    <2> QED
        BY <2>6
<1>3. Nat \subseteq T
    <2> HIDE DEF T
    <2> QED
        BY <1>1, <1>2, SetInduction
<1>4. Cardinality(S) \in T /\ UpTo(S, Cardinality(S)) = SUBSET S
    <2> HIDE DEF T
    <2> QED
        BY <1>3, UpToFacts
<1> QED
    BY <1>4

\* What holds of the empty set, and of a set if it does without one of its elements, holds of
\* every finite set.
LEMMA FiniteInduction ==
    ASSUME NEW S, IsFiniteSet(S), NEW P, {} \in P,
           \A s \in SUBSET S : s # {} /\ s \ {Next1(s)} \in P => s \in P
    PROVE  SUBSET S \subseteq P
<1> DEFINE T == {k \in Nat : UpTo(S, k) \subseteq P}
<1>1. 0 \in T
    BY UpToFacts
<1>2. ASSUME NEW k \in Nat, k \in T PROVE k + 1 \in T
    <2>1. \A s \in UpTo(S, k + 1) : s # {} => s \ {Next1(s)} \in P
        BY <1>2, OneFewer
    <2>2. UpTo(S, k + 1) \subseteq SUBSET S
        BY DEF UpTo
    <2>3. \A s \in UpTo(S, k + 1) : s \in P
        BY <2>1, <2>2
    <2> QED
        BY <2>3
<1>3. Nat \subseteq T
    <2> HIDE DEF T
    <2> QED
        BY <1>1, <1>2, SetInduction
<1>4. Cardinality(S) \in T /\ UpTo(S, Cardinality(S)) = SUBSET S
    <2> HIDE DEF T
    <2> QED
        BY <1>3, UpToFacts
<1> QED
    BY <1>4

\* The partial sums of a function.
Unfolds(f, S, g) == g[{}] = 0 /\ \A s \in SUBSET S : s # {} => g[s] = f[Next1(s)] + g[s \ {Next1(s)}]
PartialSums(f, S, g) == SumFunction(f) = g[S] /\ Unfolds(f, S, g) /\ \A s \in SUBSET S : g[s] \in Nat

\* The sum's recursion, unfolded.
LEMMA SumUnfolds ==
    ASSUME NEW S, IsFiniteSet(S), NEW f \in [S -> Nat]
    PROVE  \E g : PartialSums(f, S, g)
<1> DEFINE g == CHOOSE h : SumLoop(f, SUBSET S, h)
           P == {s \in SUBSET S : g[s] \in Nat}
<1>1. SumLoop(f, SUBSET S, g)
    BY SumLoopExists
<1>2. SumFunction(f) = g[S]
    BY SumIsLoop
<1> HIDE DEF g
<1>3. Unfolds(f, S, g)
    BY <1>1 DEF SumLoop, Unfolds
<1>4. \A s \in SUBSET S : s # {} => f[Next1(s)] \in Nat
    BY DEF Next1
<1>5. SUBSET S \subseteq P
    <2>1. {} \in P
        BY <1>3 DEF Unfolds
    <2>2. ASSUME NEW s \in SUBSET S, s # {}, s \ {Next1(s)} \in P PROVE s \in P
        <3>1. g[s] = f[Next1(s)] + g[s \ {Next1(s)}]
            BY <1>3, <2>2 DEF Unfolds
        <3>2. f[Next1(s)] \in Nat /\ g[s \ {Next1(s)}] \in Nat
            BY <1>4, <2>2
        <3> QED
            BY <3>1, <3>2
    <2> HIDE DEF P
    <2> QED
        BY <2>1, <2>2, FiniteInduction
<1> QED
    BY <1>2, <1>3, <1>5 DEF PartialSums

\* A sum is a natural.
LEMMA SumType ==
    ASSUME NEW S, IsFiniteSet(S), NEW f \in [S -> Nat]
    PROVE  SumFunction(f) \in Nat
BY SumUnfolds DEF PartialSums

\* The sum of nothing.
LEMMA SumOfZeros ==
    ASSUME NEW S, IsFiniteSet(S)
    PROVE  SumFunction([x \in S |-> 0]) = 0
<1> DEFINE f == [x \in S |-> 0]
<1>1. f \in [S -> Nat] /\ \A x \in S : f[x] = 0
    OBVIOUS
<1> HIDE DEF f
<1>2. PICK g : PartialSums(f, S, g)
    BY <1>1, SumUnfolds
<1> DEFINE P == {s \in SUBSET S : g[s] = 0}
<1>3. \A s \in SUBSET S : s # {} => f[Next1(s)] = 0
    BY <1>1 DEF Next1
<1>4. SUBSET S \subseteq P
    <2>1. {} \in P
        BY <1>2 DEF PartialSums, Unfolds
    <2>2. \A s \in SUBSET S : s # {} /\ s \ {Next1(s)} \in P => s \in P
        BY <1>2, <1>3 DEF PartialSums, Unfolds
    <2> HIDE DEF P
    <2> QED
        BY <2>1, <2>2, FiniteInduction
<1>5. SumFunction(f) = 0
    BY <1>2, <1>4 DEF PartialSums
<1> QED
    BY <1>5 DEF f

\* One more at one place is one more in the sum.
LEMMA SumOfOneMore ==
    ASSUME NEW S, IsFiniteSet(S), NEW f \in [S -> Nat], NEW u \in S
    PROVE  SumFunction([f EXCEPT ![u] = f[u] + 1]) = SumFunction(f) + 1
<1> DEFINE f2 == [f EXCEPT ![u] = f[u] + 1]
<1>1. f2 \in [S -> Nat] /\ f2[u] = f[u] + 1 /\ \A x \in S : x # u => f2[x] = f[x]
    OBVIOUS
<1> HIDE DEF f2
<1>2. PICK g : PartialSums(f, S, g)
    BY SumUnfolds
<1>3. PICK h : PartialSums(f2, S, h)
    BY <1>1, SumUnfolds
<1> DEFINE P == {s \in SUBSET S : h[s] = g[s] + (IF u \in s THEN 1 ELSE 0)}
<1>4. {} \in P
    BY <1>2, <1>3 DEF PartialSums, Unfolds
<1>5. ASSUME NEW s \in SUBSET S, s # {}, s \ {Next1(s)} \in P PROVE s \in P
    <2> DEFINE x == Next1(s)
               t == s \ {x}
    <2>1. x \in s /\ x \in S /\ t \in SUBSET S
        BY <1>5 DEF Next1
    <2>2. h[s] = f2[x] + h[t] /\ g[s] = f[x] + g[t]
        BY <1>2, <1>3, <1>5 DEF PartialSums, Unfolds
    <2>3. h[t] = g[t] + (IF u \in t THEN 1 ELSE 0)
        BY <1>5
    <2>4. f[x] \in Nat /\ f2[x] \in Nat /\ g[t] \in Nat /\ h[t] \in Nat
        BY <1>1, <1>2, <1>3, <2>1 DEF PartialSums
    <2>5. u \in t <=> u \in s /\ u # x
        BY <2>1
    <2>6. CASE x = u
        BY <1>1, <2>1, <2>2, <2>3, <2>4, <2>5, <2>6
    <2>7. CASE x # u
        BY <1>1, <2>1, <2>2, <2>3, <2>4, <2>5, <2>7
    <2> QED
        BY <2>6, <2>7
<1>6. SUBSET S \subseteq P
    <2> HIDE DEF P
    <2> QED
        BY <1>4, <1>5, FiniteInduction
<1>7. SumFunction(f2) = SumFunction(f) + 1
    BY <1>2, <1>3, <1>6 DEF PartialSums
<1> QED
    BY <1>7 DEF f2

-----------------------------------------------------------------------------
(* The rollups follow the ledger, for any users, days and failures.        *)

Records == [at : {"idle", "wait", "day", "dayRead", "user", "userRead"},
            user : Users \cup {NoRecorder}, day : Days \cup {0}, total : Nat]

LedgerTypes ==
    /\ today \in Days /\ slips \in Nat /\ wiped \in BOOLEAN
    /\ lines \in [Users -> Nat] /\ perUser \in [Users -> Nat] /\ daily \in [Days -> Nat]
    /\ recordMu \in Recorders \cup {NoRecorder} /\ rec \in [Recorders -> Records]

\* Who adds to the rollups has the mutex, and knows the user and the day.
Adders == {"day", "dayRead", "user", "userRead"}
AdderIsAlone == \A r \in Recorders : rec[r].at \in Adders <=> recordMu = r
AdderKnows ==
    \A r \in Recorders :
        /\ rec[r].at # "idle" => rec[r].user \in Users
        /\ rec[r].at = "dayRead" => rec[r].day \in Days

\* What it has read is still there.
TotalsAreCurrent ==
    \A r \in Recorders :
        /\ rec[r].at = "dayRead" => rec[r].total = daily[rec[r].day]
        /\ rec[r].at = "userRead" => rec[r].total = perUser[rec[r].user]

\* What the record that is being written has still to add.
DayToCome     == IF \E r \in Recorders : rec[r].at \in {"day", "dayRead"} THEN 1 ELSE 0
UserToCome    == IF \E r \in Recorders : rec[r].at \in Adders THEN 1 ELSE 0
ToComeFor     == [u \in Users |-> IF \E r \in Recorders : rec[r].at \in Adders /\ rec[r].user = u THEN 1 ELSE 0]

LineSum == SumFunction(lines)
DaySum  == SumFunction(daily)
UserSum == SumFunction(perUser)

\* With that added, only writes that failed make a difference.
AllAgree ==
    /\ \A u \in Users : Apart(lines[u], perUser[u] + ToComeFor[u], slips)
    /\ Apart(LineSum, DaySum + DayToCome, slips)
    /\ Apart(DaySum + DayToCome, UserSum + UserToCome, slips)

LedgerInv ==
    /\ LedgerTypes /\ AdderIsAlone /\ AdderKnows
    /\ ~ wiped => TotalsAreCurrent /\ AllAgree

\* The three sums are naturals, and one more at one place is one more in the sum.
LEMMA LedgerSums ==
    ASSUME LedgerTypes
    PROVE  /\ LineSum \in Nat /\ UserSum \in Nat /\ DaySum \in Nat
           /\ lines' = lines => LineSum' = LineSum
           /\ perUser' = perUser => UserSum' = UserSum
           /\ daily' = daily => DaySum' = DaySum
           /\ \A u \in Users : /\ lines' = [lines EXCEPT ![u] = lines[u] + 1] => LineSum' = LineSum + 1
                               /\ perUser' = [perUser EXCEPT ![u] = perUser[u] + 1] => UserSum' = UserSum + 1
           /\ \A d \in Days : daily' = [daily EXCEPT ![d] = daily[d] + 1] => DaySum' = DaySum + 1
<1>1. IsFiniteSet(Users) /\ IsFiniteSet(Days)
    BY LedgerAssumption, FS_Interval DEF Days
<1>2. lines \in [Users -> Nat] /\ perUser \in [Users -> Nat] /\ daily \in [Days -> Nat]
    BY DEF LedgerTypes
<1>3. SumFunction(lines) \in Nat /\ SumFunction(perUser) \in Nat /\ SumFunction(daily) \in Nat
    BY <1>1, <1>2, SumType
<1>4. \A u \in Users : SumFunction([lines EXCEPT ![u] = lines[u] + 1]) = SumFunction(lines) + 1
    BY <1>1, <1>2, SumOfOneMore
<1>5. \A u \in Users : SumFunction([perUser EXCEPT ![u] = perUser[u] + 1]) = SumFunction(perUser) + 1
    BY <1>1, <1>2, SumOfOneMore
<1>6. \A d \in Days : SumFunction([daily EXCEPT ![d] = daily[d] + 1]) = SumFunction(daily) + 1
    BY <1>1, <1>2, SumOfOneMore
<1> QED
    BY <1>3, <1>4, <1>5, <1>6 DEF LineSum, UserSum, DaySum

\* A record at rest is a record, and so is what a step makes of one.
LEMMA RestIsARecord == AtRest \in Records
BY DEF AtRest, Records

\* What is to come is one or nothing, and a record's day comes before its user.
LEMMA ToComeTypes ==
    /\ DayToCome \in {0, 1} /\ UserToCome \in {0, 1} /\ DayToCome <= UserToCome
    /\ \A u \in Users : ToComeFor[u] \in {0, 1} /\ ToComeFor[u] <= UserToCome
<1>1. DayToCome \in {0, 1} /\ (DayToCome = 1 <=> \E r \in Recorders : rec[r].at \in {"day", "dayRead"})
    BY DEF DayToCome
<1>2. UserToCome \in {0, 1} /\ (UserToCome = 1 <=> \E r \in Recorders : rec[r].at \in Adders)
    BY DEF UserToCome
<1>3. \A u \in Users : /\ ToComeFor[u] \in {0, 1}
                       /\ ToComeFor[u] = 1 <=> \E r \in Recorders : rec[r].at \in Adders /\ rec[r].user = u
    BY DEF ToComeFor
<1>4. DayToCome = 1 => UserToCome = 1
    BY <1>1, <1>2 DEF Adders
<1>5. \A u \in Users : ToComeFor[u] = 1 => UserToCome = 1
    BY <1>2, <1>3
<1> QED
    BY <1>1, <1>2, <1>3, <1>4, <1>5

\* An empty ledger agrees with empty rollups.
LEMMA LedgerInitInv == LedgerInit => LedgerInv
<1> SUFFICES ASSUME LedgerInit PROVE LedgerInv
    OBVIOUS
<1>1. LedgerTypes
    <2>1. 1 \in Days
        BY LedgerAssumption DEF Days
    <2> QED
        BY <2>1, RestIsARecord DEF LedgerInit, LedgerTypes
<1>2. \A r \in Recorders : rec[r].at = "idle" /\ rec[r].at \notin Adders
    BY DEF LedgerInit, AtRest, Adders
<1>3. AdderIsAlone /\ AdderKnows /\ TotalsAreCurrent
    BY <1>2, LedgerAssumption DEF LedgerInit, AdderIsAlone, AdderKnows, TotalsAreCurrent
<1>4. LineSum = 0 /\ UserSum = 0 /\ DaySum = 0
    <2>1. IsFiniteSet(Users) /\ IsFiniteSet(Days)
        BY LedgerAssumption, FS_Interval DEF Days
    <2>2. SumFunction([u \in Users |-> 0]) = 0 /\ SumFunction([d \in Days |-> 0]) = 0
        BY <2>1, SumOfZeros
    <2> QED
        BY <2>2 DEF LedgerInit, LineSum, UserSum, DaySum
<1>5. DayToCome = 0 /\ UserToCome = 0 /\ \A u \in Users : ToComeFor[u] = 0
    BY <1>2 DEF DayToCome, UserToCome, ToComeFor
<1>6. AllAgree
    BY <1>4, <1>5 DEF AllAgree, Apart, LedgerInit
<1> QED
    BY <1>1, <1>3, <1>6 DEF LedgerInv

\* What one recorder has to come, when nobody else adds.
LEMMA ToCome ==
    ASSUME LedgerInv, NEW r \in Recorders, recordMu \in {r, NoRecorder}
    PROVE  /\ DayToCome = IF rec[r].at \in {"day", "dayRead"} THEN 1 ELSE 0
           /\ UserToCome = IF rec[r].at \in Adders THEN 1 ELSE 0
           /\ ToComeFor = [u \in Users |-> IF rec[r].at \in Adders /\ rec[r].user = u THEN 1 ELSE 0]
           /\ \A s \in Recorders \ {r} : rec[s].at \notin Adders
<1>1. \A s \in Recorders \ {r} : rec[s].at \notin Adders
    BY LedgerAssumption DEF LedgerInv, AdderIsAlone
<1> QED
    BY <1>1 DEF DayToCome, UserToCome, ToComeFor, Adders

\* The same in the next state.
LEMMA ToComeNext ==
    ASSUME NEW r \in Recorders, \A s \in Recorders \ {r} : rec'[s].at \notin Adders
    PROVE  /\ DayToCome' = IF rec'[r].at \in {"day", "dayRead"} THEN 1 ELSE 0
           /\ UserToCome' = IF rec'[r].at \in Adders THEN 1 ELSE 0
           /\ ToComeFor' = [u \in Users |-> IF rec'[r].at \in Adders /\ rec'[r].user = u THEN 1 ELSE 0]
BY DEF DayToCome, UserToCome, ToComeFor, Adders

\* What stays as it is agrees as it did.
LEMMA AgreeAsBefore ==
    ASSUME LedgerTypes, AllAgree, UNCHANGED <<lines, daily, perUser, slips>>,
           UNCHANGED <<DayToCome, UserToCome>>, \A u \in Users : ToComeFor'[u] = ToComeFor[u]
    PROVE  AllAgree'
<1>1. LineSum' = LineSum /\ DaySum' = DaySum /\ UserSum' = UserSum
    BY LedgerSums
<1> QED
    BY <1>1 DEF AllAgree, Apart

\* A line is written, or its write fails: either way a record begins to be added.
LEMMA AppendAgrees ==
    ASSUME LedgerInv, NEW r \in Recorders, AppendLine(r)
    PROVE  LedgerInv'
<1> DEFINE u == rec[r].user
<1>1. /\ LedgerTypes /\ recordMu = NoRecorder /\ rec[r].at = "wait" /\ u \in Users
      /\ rec[r].at \notin Adders /\ NoRecorder \notin Recorders /\ wiped' = wiped
    BY LedgerAssumption DEF LedgerInv, AppendLine, MayRecord, AdderKnows, Adders
<1>2. CASE rec' = [rec EXCEPT ![r] = AtRest] /\ UNCHANGED <<lines, recordMu>> /\ Slip
    <2>1. LedgerTypes'
        BY <1>1, <1>2, RestIsARecord DEF AppendLine, LedgerTypes, Slip
    <2>2. \A s \in Recorders : rec[s].at \notin Adders /\ rec'[s].at \notin Adders
        BY <1>1, <1>2 DEF LedgerInv, LedgerTypes, AdderIsAlone, Adders, AtRest
    <2>3. (AdderIsAlone /\ AdderKnows)'
        BY <1>1, <1>2, <2>2 DEF LedgerInv, LedgerTypes, AdderIsAlone, AdderKnows, AtRest
    <2>4. ASSUME ~ wiped PROVE (TotalsAreCurrent /\ AllAgree)'
        <3>1. TotalsAreCurrent'
            BY <2>2 DEF TotalsAreCurrent, Adders
        <3>2. /\ DayToCome' = DayToCome /\ UserToCome' = UserToCome
              /\ \A v \in Users : ToComeFor'[v] = ToComeFor[v]
            BY <2>2 DEF DayToCome, UserToCome, ToComeFor, Adders
        <3>3. lines' = lines /\ daily' = daily /\ perUser' = perUser /\ slips' = slips + 1
            BY <1>2 DEF AppendLine, Slip
        <3>4. slips \in Nat /\ DayToCome \in Nat /\ UserToCome \in Nat /\ \A v \in Users : ToComeFor[v] \in Nat
            BY <1>1 DEF LedgerTypes, DayToCome, UserToCome, ToComeFor
        <3>5. AllAgree'
            BY <1>1, <2>4, <3>2, <3>3, <3>4, LedgerSums DEF LedgerInv, AllAgree, Apart, LedgerTypes
        <3> QED
            BY <3>1, <3>5
    <2> QED
        BY <1>1, <2>1, <2>3, <2>4 DEF LedgerInv
<1>3. CASE recordMu' = r /\ To(r, "day")
    <2>1. \/ lines' = [lines EXCEPT ![u] = lines[u] + 1] /\ slips' = slips
          \/ lines' = lines /\ slips' = slips + 1
        BY <1>1, <1>3 DEF AppendLine, Slip, AtRest, LedgerTypes
    <2>2. LedgerTypes'
        <3>1. rec'[r] \in Records /\ rec' = [rec EXCEPT ![r] = rec'[r]]
            BY <1>1, <1>3 DEF LedgerTypes, Records, To
        <3>2. slips' \in Nat /\ lines' \in [Users -> Nat]
            BY <1>1, <2>1 DEF LedgerTypes
        <3> QED
            BY <1>1, <1>3, <3>1, <3>2 DEF AppendLine, LedgerTypes
    <2>3. /\ rec'[r].at \in Adders /\ rec'[r].user = u /\ rec'[r].at = "day"
          /\ \A s \in Recorders \ {r} : rec'[s] = rec[s] /\ rec[s].at \notin Adders /\ rec'[s].at \notin Adders
        BY <1>1, <1>3 DEF LedgerInv, LedgerTypes, AdderIsAlone, Adders, To, Records
    <2>4. (AdderIsAlone /\ AdderKnows)'
        BY <1>1, <1>3, <2>3 DEF LedgerInv, AdderIsAlone, AdderKnows
    <2>5. ASSUME ~ wiped PROVE (TotalsAreCurrent /\ AllAgree)'
        <3>1. TotalsAreCurrent'
            BY <2>3 DEF TotalsAreCurrent, Adders
        <3>2. DayToCome = 0 /\ UserToCome = 0 /\ \A v \in Users : ToComeFor[v] = 0
            BY <1>1, ToCome DEF Adders
        <3>3. DayToCome' = 1 /\ UserToCome' = 1 /\ \A v \in Users : ToComeFor'[v] = IF u = v THEN 1 ELSE 0
            BY <2>3, ToComeNext
        <3>4. daily' = daily /\ perUser' = perUser /\ slips \in Nat
            BY <1>1 DEF AppendLine, LedgerTypes
        <3>5. \A v \in Users : lines[v] \in Nat /\ perUser[v] \in Nat
            BY <1>1 DEF LedgerTypes
        <3>6. /\ LineSum \in Nat /\ DaySum \in Nat /\ UserSum \in Nat
              /\ \/ slips' = slips /\ LineSum' = LineSum + 1
                 \/ slips' = slips + 1 /\ LineSum' = LineSum
              /\ DaySum' = DaySum /\ UserSum' = UserSum
            BY <1>1, <2>1, <3>4, LedgerSums
        <3>7. AllAgree
            BY <2>5 DEF LedgerInv
        <3>8. \A v \in Users : Apart(lines[v], perUser[v] + ToComeFor[v], slips)'
            <4>1. CASE lines' = [lines EXCEPT ![u] = lines[u] + 1] /\ slips' = slips
                BY <1>1, <3>2, <3>3, <3>4, <3>5, <3>7, <4>1 DEF AllAgree, Apart, LedgerTypes
            <4>2. CASE lines' = lines /\ slips' = slips + 1
                BY <1>1, <3>2, <3>3, <3>4, <3>5, <3>7, <4>2 DEF AllAgree, Apart
            <4> QED
                BY <2>1, <4>1, <4>2
        <3>9. /\ Apart(LineSum, DaySum + DayToCome, slips)'
              /\ Apart(DaySum + DayToCome, UserSum + UserToCome, slips)'
            BY <3>2, <3>3, <3>4, <3>6, <3>7 DEF AllAgree, Apart
        <3> QED
            BY <3>1, <3>8, <3>9 DEF AllAgree
    <2> QED
        BY <1>1, <2>2, <2>4, <2>5 DEF LedgerInv
<1> QED
    BY <1>2, <1>3 DEF AppendLine

\* A rollup that is read without fault, or is begun again from zero.
LEMMA ReadAgrees ==
    ASSUME LedgerInv, NEW r \in Recorders, ReadRollup(r)
    PROVE  LedgerInv'
<1> DEFINE total == IF rec[r].at = "day" THEN daily[today] ELSE perUser[rec[r].user]
           next == IF rec[r].at = "day" THEN "dayRead" ELSE "userRead"
<1>1. /\ LedgerTypes /\ rec[r].at \in Adders /\ recordMu = r /\ rec[r].user \in Users /\ rec[r].at \in {"day", "user"}
      /\ UNCHANGED <<today, ledgerVars, recordMu, records>>
    BY DEF LedgerInv, ReadRollup, AdderKnows, Adders, AdderIsAlone
<1>2. PICK t \in Nat : /\ rec' = [rec EXCEPT ![r] = [rec[r] EXCEPT !.at = next, !.day = today, !.total = t]]
                       /\ \/ t = total /\ UNCHANGED <<slips, wiped>>
                          \/ wiped' /\ wiped' \in BOOLEAN /\ slips' = slips + 1
    <2>1. total \in Nat
        BY <1>1 DEF LedgerTypes
    <2>2. CASE rec' = [rec EXCEPT ![r] = [rec[r] EXCEPT !.at = next, !.day = today, !.total = total]] /\ UNCHANGED <<slips, wiped>>
        BY <2>1, <2>2
    <2>3. CASE rec' = [rec EXCEPT ![r] = [rec[r] EXCEPT !.at = next, !.day = today, !.total = 0]] /\ Slip /\ wiped' = TRUE
        BY <2>3 DEF Slip
    <2> QED
        BY <2>2, <2>3 DEF ReadRollup
<1>3. /\ rec'[r].at = next /\ rec'[r].user = rec[r].user /\ rec'[r].day = today /\ rec'[r].total = t
      /\ \A s \in Recorders \ {r} : rec'[s] = rec[s] /\ rec[s].at \notin Adders /\ rec'[s].at \notin Adders
      /\ rec'[r].at \in Adders
    BY <1>1, <1>2 DEF LedgerInv, LedgerTypes, Records, Adders, AdderIsAlone
<1>4. LedgerTypes'
    <2>1. rec'[r] \in Records /\ rec' = [rec EXCEPT ![r] = rec'[r]]
        BY <1>1, <1>2 DEF LedgerTypes, Records
    <2>2. slips' \in Nat /\ wiped' \in BOOLEAN
        BY <1>1, <1>2 DEF LedgerTypes
    <2> QED
        BY <1>1, <2>1, <2>2 DEF LedgerTypes, ledgerVars
<1>5. (AdderIsAlone /\ AdderKnows)'
    BY <1>1, <1>3 DEF LedgerInv, AdderIsAlone, AdderKnows, LedgerTypes
<1>6. ASSUME ~ wiped' PROVE (TotalsAreCurrent /\ AllAgree)'
    <2>1. t = total /\ slips' = slips /\ ~ wiped
        BY <1>2, <1>6
    <2>2. TotalsAreCurrent'
        BY <1>1, <1>3, <2>1 DEF TotalsAreCurrent, ledgerVars, Adders
    <2>3. /\ DayToCome' = DayToCome /\ UserToCome' = UserToCome
          /\ \A v \in Users : ToComeFor'[v] = ToComeFor[v]
        BY <1>1, <1>3, ToCome, ToComeNext
    <2>4. AllAgree'
        BY <1>1, <2>1, <2>3, AgreeAsBefore DEF LedgerInv, ledgerVars
    <2> QED
        BY <2>2, <2>4
<1> QED
    BY <1>4, <1>5, <1>6 DEF LedgerInv

\* The day's total is renamed over the old one, or the write fails.
LEMMA DayAgrees ==
    ASSUME LedgerInv, NEW r \in Recorders, AddToDay(r)
    PROVE  LedgerInv'
<1> DEFINE d == rec[r].day
<1>1. /\ LedgerTypes /\ rec[r].at \in Adders /\ recordMu = r /\ d \in Days /\ rec[r].at = "dayRead" /\ rec[r].total \in Nat
      /\ rec[r].user \in Users /\ UNCHANGED <<today, lines, perUser, recordMu, records, wiped>>
    BY DEF LedgerInv, AddToDay, AdderKnows, Adders, AdderIsAlone, LedgerTypes, Records
<1>2. \/ daily' = [daily EXCEPT ![d] = rec[r].total + 1] /\ slips' = slips
      \/ daily' = daily /\ slips' = slips + 1
    BY DEF AddToDay, Slip
<1>3. /\ rec'[r].at = "user" /\ rec'[r].user = rec[r].user /\ rec'[r].at \in Adders
      /\ \A s \in Recorders \ {r} : rec'[s] = rec[s] /\ rec[s].at \notin Adders /\ rec'[s].at \notin Adders
    BY <1>1 DEF AddToDay, To, LedgerInv, LedgerTypes, Records, Adders, AdderIsAlone
<1>4. LedgerTypes'
    <2>1. rec'[r] \in Records /\ rec' = [rec EXCEPT ![r] = rec'[r]]
        BY <1>1 DEF AddToDay, LedgerTypes, Records, To
    <2>2. slips' \in Nat /\ daily' \in [Days -> Nat]
        BY <1>1, <1>2 DEF LedgerTypes
    <2> QED
        BY <1>1, <2>1, <2>2 DEF LedgerTypes
<1>5. (AdderIsAlone /\ AdderKnows)'
    BY <1>1, <1>3 DEF LedgerInv, AdderIsAlone, AdderKnows
<1>6. ASSUME ~ wiped PROVE (TotalsAreCurrent /\ AllAgree)'
    <2>1. TotalsAreCurrent'
        BY <1>3 DEF TotalsAreCurrent, Adders
    <2>2. rec[r].total = daily[d] /\ AllAgree
        BY <1>1, <1>6 DEF LedgerInv, TotalsAreCurrent
    <2>3. DayToCome = 1 /\ UserToCome = 1 /\ DayToCome' = 0 /\ UserToCome' = 1
        BY <1>1, <1>3, ToCome, ToComeNext
    <2>4. \A v \in Users : ToComeFor'[v] = ToComeFor[v] /\ ToComeFor[v] \in Nat
        BY <1>1, <1>3, ToCome, ToComeNext
    <2>5. /\ LineSum \in Nat /\ DaySum \in Nat /\ UserSum \in Nat
          /\ \/ slips' = slips /\ DaySum' = DaySum + 1
             \/ slips' = slips + 1 /\ DaySum' = DaySum
          /\ LineSum' = LineSum /\ UserSum' = UserSum
        BY <1>1, <1>2, <2>2, LedgerSums
    <2>6. slips \in Nat /\ slips' \in {slips, slips + 1} /\ \A v \in Users : lines[v] \in Nat /\ perUser[v] \in Nat
        BY <1>1, <1>2 DEF LedgerTypes
    <2>7. \A v \in Users : Apart(lines[v], perUser[v] + ToComeFor[v], slips)'
        BY <1>1, <2>2, <2>4, <2>6 DEF AllAgree, Apart
    <2>8. /\ Apart(LineSum, DaySum + DayToCome, slips)'
          /\ Apart(DaySum + DayToCome, UserSum + UserToCome, slips)'
        BY <1>1, <2>2, <2>3, <2>5, <2>6 DEF AllAgree, Apart
    <2> QED
        BY <2>1, <2>7, <2>8 DEF AllAgree
<1> QED
    BY <1>1, <1>4, <1>5, <1>6 DEF LedgerInv

\* The same of the user's, which ends the record.
LEMMA UserAgrees ==
    ASSUME LedgerInv, NEW r \in Recorders, AddToUser(r)
    PROVE  LedgerInv'
<1> DEFINE u == rec[r].user
<1>1. /\ LedgerTypes /\ rec[r].at \in Adders /\ recordMu = r /\ rec[r].at = "userRead" /\ rec[r].total \in Nat
      /\ u \in Users /\ UNCHANGED <<today, lines, daily, records, wiped>> /\ NoRecorder \notin Recorders
      /\ recordMu' = NoRecorder /\ rec' = [rec EXCEPT ![r] = AtRest]
    BY LedgerAssumption DEF LedgerInv, AddToUser, AdderKnows, Adders, AdderIsAlone, LedgerTypes, Records
<1>2. \/ perUser' = [perUser EXCEPT ![u] = rec[r].total + 1] /\ slips' = slips
      \/ perUser' = perUser /\ slips' = slips + 1
    BY DEF AddToUser, Slip
<1>3. /\ rec'[r].at = "idle" /\ rec'[r].at \notin Adders
      /\ \A s \in Recorders \ {r} : rec'[s] = rec[s] /\ rec[s].at \notin Adders /\ rec'[s].at \notin Adders
    BY <1>1 DEF LedgerInv, LedgerTypes, Adders, AdderIsAlone, AtRest
<1>4. LedgerTypes'
    <2>1. slips' \in Nat /\ perUser' \in [Users -> Nat]
        BY <1>1, <1>2 DEF LedgerTypes
    <2> QED
        BY <1>1, <2>1, RestIsARecord DEF LedgerTypes
<1>5. (AdderIsAlone /\ AdderKnows)'
    BY <1>1, <1>3 DEF LedgerInv, AdderIsAlone, AdderKnows
<1>6. ASSUME ~ wiped PROVE (TotalsAreCurrent /\ AllAgree)'
    <2>1. TotalsAreCurrent'
        BY <1>3 DEF TotalsAreCurrent, Adders
    <2>2. rec[r].total = perUser[u] /\ AllAgree
        BY <1>1, <1>6 DEF LedgerInv, TotalsAreCurrent
    <2>3. DayToCome = 0 /\ UserToCome = 1 /\ DayToCome' = 0 /\ UserToCome' = 0
        BY <1>1, <1>3, ToCome, ToComeNext
    <2>4. \A v \in Users : ToComeFor'[v] = 0 /\ ToComeFor[v] = IF u = v THEN 1 ELSE 0
        BY <1>1, <1>3, ToCome, ToComeNext
    <2>5. /\ LineSum \in Nat /\ DaySum \in Nat /\ UserSum \in Nat
          /\ \/ slips' = slips /\ UserSum' = UserSum + 1
             \/ slips' = slips + 1 /\ UserSum' = UserSum
          /\ LineSum' = LineSum /\ DaySum' = DaySum
        BY <1>1, <1>2, <2>2, LedgerSums
    <2>6. slips \in Nat /\ \A v \in Users : lines[v] \in Nat /\ perUser[v] \in Nat
        BY <1>1 DEF LedgerTypes
    <2>7. \A v \in Users : Apart(lines[v], perUser[v] + ToComeFor[v], slips)'
        <3>1. CASE perUser' = [perUser EXCEPT ![u] = perUser[u] + 1] /\ slips' = slips
            BY <1>1, <2>2, <2>4, <2>6, <3>1 DEF AllAgree, Apart, LedgerTypes
        <3>2. CASE perUser' = perUser /\ slips' = slips + 1
            BY <1>1, <2>2, <2>4, <2>6, <3>2 DEF AllAgree, Apart
        <3> QED
            BY <1>2, <2>2, <3>1, <3>2
    <2>8. /\ Apart(LineSum, DaySum + DayToCome, slips)'
          /\ Apart(DaySum + DayToCome, UserSum + UserToCome, slips)'
        BY <1>1, <2>2, <2>3, <2>5, <2>6 DEF AllAgree, Apart
    <2> QED
        BY <2>1, <2>7, <2>8 DEF AllAgree
<1> QED
    BY <1>1, <1>4, <1>5, <1>6 DEF LedgerInv

\* The end of the process, with a record half added or not.
LEMMA CrashAgrees ==
    ASSUME LedgerInv, LedgerCrash
    PROVE  LedgerInv'
<1>1. /\ LedgerTypes /\ NoRecorder \notin Recorders /\ recordMu' = NoRecorder /\ slips' = slips + 1
      /\ rec' = [r \in Recorders |-> AtRest] /\ UNCHANGED <<today, lines, daily, perUser, records, wiped>>
    BY LedgerAssumption DEF LedgerInv, LedgerCrash, Slip, ledgerVars
<1>2. \A r \in Recorders : rec'[r].at = "idle" /\ rec'[r].at \notin Adders
    BY <1>1 DEF Adders, AtRest
<1>3. LedgerTypes'
    BY <1>1, RestIsARecord DEF LedgerTypes
<1>4. (AdderIsAlone /\ AdderKnows)'
    BY <1>1, <1>2 DEF AdderIsAlone, AdderKnows
<1>5. ASSUME ~ wiped PROVE (TotalsAreCurrent /\ AllAgree)'
    <2>1. TotalsAreCurrent'
        BY <1>2 DEF TotalsAreCurrent
    <2>2. DayToCome' = 0 /\ UserToCome' = 0 /\ \A v \in Users : ToComeFor'[v] = 0
        BY <1>2 DEF DayToCome, UserToCome, ToComeFor
    <2>3. /\ DayToCome \in {0, 1} /\ UserToCome \in {0, 1} /\ \A v \in Users : ToComeFor[v] \in {0, 1}
          /\ DayToCome <= UserToCome
        BY ToComeTypes
    <2>4. /\ LineSum \in Nat /\ DaySum \in Nat /\ UserSum \in Nat
          /\ LineSum' = LineSum /\ DaySum' = DaySum /\ UserSum' = UserSum
        BY <1>1, LedgerSums
    <2>5. slips \in Nat /\ \A v \in Users : lines[v] \in Nat /\ perUser[v] \in Nat
        BY <1>1 DEF LedgerTypes
    <2>6. AllAgree
        BY <1>5 DEF LedgerInv
    <2>7. \A v \in Users : Apart(lines[v], perUser[v] + ToComeFor[v], slips)'
        BY <1>1, <2>2, <2>3, <2>5, <2>6 DEF AllAgree, Apart
    <2>8. /\ Apart(LineSum, DaySum + DayToCome, slips)'
          /\ Apart(DaySum + DayToCome, UserSum + UserToCome, slips)'
        BY <1>1, <2>2, <2>3, <2>4, <2>5, <2>6 DEF AllAgree, Apart
    <2> QED
        BY <2>1, <2>7, <2>8 DEF AllAgree
<1> QED
    BY <1>1, <1>3, <1>4, <1>5 DEF LedgerInv

\* A step that leaves the recorders and the files alone.
LEMMA SameLedger ==
    ASSUME LedgerInv, LedgerTypes', UNCHANGED <<lines, daily, perUser, recordMu, rec, slips, wiped>>
    PROVE  LedgerInv'
<1>1. (AdderIsAlone /\ AdderKnows)'
    BY DEF LedgerInv, AdderIsAlone, AdderKnows
<1>2. UNCHANGED <<DayToCome, UserToCome, ToComeFor>>
    BY DEF DayToCome, UserToCome, ToComeFor
<1>3. ASSUME ~ wiped PROVE (TotalsAreCurrent /\ AllAgree)'
    BY <1>2, <1>3, AgreeAsBefore DEF LedgerInv, TotalsAreCurrent
<1> QED
    BY <1>1, <1>3 DEF LedgerInv

\* Every step keeps the invariant.
LEMMA LedgerKeepsInv == LedgerInv /\ [LedgerNext]_ulVars => LedgerInv'
<1> SUFFICES ASSUME LedgerInv, [LedgerNext]_ulVars PROVE LedgerInv'
    OBVIOUS
<1>1. ASSUME NEW r \in Recorders, NEW u \in Users, Complete(r, u) PROVE LedgerInv'
    <2>1. /\ rec' = [rec EXCEPT ![r] = [AtRest EXCEPT !.at = "wait", !.user = u]]
          /\ UNCHANGED <<today, lines, daily, perUser, recordMu, slips, wiped>> /\ rec[r].at = "idle"
        BY <1>1 DEF Complete, ledgerVars
    <2>2. LedgerTypes /\ LedgerTypes'
        BY <2>1 DEF LedgerInv, LedgerTypes, Records, AtRest
    <2>3. /\ rec'[r].at = "wait" /\ rec'[r].user = u /\ rec[r].at \notin Adders /\ rec'[r].at \notin Adders
          /\ \A s \in Recorders \ {r} : rec'[s] = rec[s] /\ (rec'[s].at \in Adders <=> rec[s].at \in Adders)
        BY <2>1, <2>2 DEF LedgerTypes, Adders, AtRest
    <2>4. (AdderIsAlone /\ AdderKnows)'
        BY <2>1, <2>3 DEF LedgerInv, AdderIsAlone, AdderKnows
    <2>5. /\ DayToCome' = DayToCome /\ UserToCome' = UserToCome
          /\ \A v \in Users : ToComeFor'[v] = ToComeFor[v]
        <3>1. \A s \in Recorders : /\ rec'[s].at \in Adders <=> rec[s].at \in Adders
                                   /\ rec'[s].at \in {"day", "dayRead"} <=> rec[s].at \in {"day", "dayRead"}
                                   /\ rec[s].at \in Adders => rec'[s] = rec[s]
            BY <2>1, <2>3
        <3> QED
            BY <3>1 DEF DayToCome, UserToCome, ToComeFor
    <2>6. ASSUME ~ wiped PROVE (TotalsAreCurrent /\ AllAgree)'
        <3>1. TotalsAreCurrent'
            BY <2>1, <2>3, <2>6 DEF LedgerInv, TotalsAreCurrent
        <3> QED
            BY <2>1, <2>2, <2>5, <2>6, <3>1, AgreeAsBefore DEF LedgerInv
    <2> QED
        BY <2>1, <2>2, <2>4, <2>6 DEF LedgerInv
<1>2. CASE Midnight
    <2>1. LedgerTypes'
        BY <1>2, LedgerAssumption DEF Midnight, LedgerInv, LedgerTypes, ledgerVars, Days
    <2>2. UNCHANGED <<lines, daily, perUser, recordMu, rec, slips, wiped>>
        BY <1>2 DEF Midnight, ledgerVars
    <2> QED
        BY <2>1, <2>2, SameLedger
<1>3. CASE UNCHANGED ulVars
    <2>1. UNCHANGED <<today, lines, daily, perUser, recordMu, rec, slips, wiped>>
        BY <1>3 DEF ulVars, ledgerVars
    <2>2. LedgerTypes'
        BY <2>1 DEF LedgerInv, LedgerTypes
    <2> QED
        BY <2>1, <2>2, SameLedger
<1> QED
    BY <1>1, <1>2, <1>3, AppendAgrees, ReadAgrees, DayAgrees, UserAgrees, CrashAgrees DEF LedgerNext

\* Unless a rollup could not be read, the ledger, the days and the users never disagree by
\* more than the writes that failed and the one record that is being written
\* (MaybeRecord, record.go:54-142).
THEOREM RollupsFollow == LedgerSpec => []RollupsAgree
<1>1. LedgerInv => RollupsAgree
    <2> SUFFICES ASSUME LedgerInv, ~ wiped PROVE RollupsAgree
        BY DEF RollupsAgree
    <2> DEFINE open == IF recordMu = NoRecorder THEN 0 ELSE 1
    <2>1. /\ DayToCome \in 0 .. open /\ UserToCome \in 0 .. open
          /\ \A u \in Users : ToComeFor[u] \in 0 .. open
        <3>1. recordMu = NoRecorder => \A r \in Recorders : rec[r].at \notin Adders
            BY LedgerAssumption DEF LedgerInv, AdderIsAlone
        <3>2. recordMu = NoRecorder => UserToCome = 0
            BY <3>1 DEF UserToCome
        <3>3. open \in {0, 1} /\ UserToCome <= open
            BY <3>2, ToComeTypes
        <3> QED
            BY <3>3, ToComeTypes
    <2>2. LineSum \in Nat /\ DaySum \in Nat /\ UserSum \in Nat
        BY LedgerSums DEF LedgerInv
    <2>3. slips \in Nat /\ open \in {0, 1} /\ \A v \in Users : lines[v] \in Nat /\ perUser[v] \in Nat
        BY DEF LedgerInv, LedgerTypes
    <2>4. AllAgree
        BY DEF LedgerInv
    <2>5. DayToCome <= UserToCome
        BY ToComeTypes
    <2> HIDE DEF open
    <2>6. \A u \in Users : Apart(lines[u], perUser[u], slips + open)
        BY <2>1, <2>3, <2>4 DEF AllAgree, Apart
    <2>7. Apart(DaySum, LineSum, slips + open)
        BY <2>1, <2>2, <2>3, <2>4 DEF AllAgree, Apart
    <2>8. Apart(DaySum, UserSum, slips + open)
        BY <2>1, <2>2, <2>3, <2>4, <2>5 DEF AllAgree, Apart
    <2> QED
        BY <2>6, <2>7, <2>8 DEF RollupsAgree, open, LineSum, UserSum, DaySum
<1> QED
    BY LedgerInitInv, LedgerKeepsInv, <1>1, PTL DEF LedgerSpec

-----------------------------------------------------------------------------
(* The read caches, for any contexts, any files and any number of writes.  *)

CacheTypes ==
    /\ file \in [Files -> Nat] /\ version \in Nat
    /\ cached \in [Ctxs -> [Files -> Nat]]
    /\ reading \in [Ctxs -> SUBSET [of : Files, ver : Nat]]
    /\ foreign \in [Ctxs -> [Files -> Nat]]
    /\ atStart \in [Ctxs -> [Files -> Nat]]

\* Versions only grow.
VersionsGrow ==
    /\ \A f \in Files : file[f] <= version
    /\ \A c \in Ctxs, f \in Files : cached[c][f] <= version /\ foreign[c][f] <= version /\ atStart[c][f] <= version
    /\ \A c \in Ctxs, f \in Files : file[f] # 0 => foreign[c][f] <= file[f] /\ atStart[c][f] <= file[f]

\* What one read of a file has in hand is of the turn, and is what the file still holds unless
\* something foreign has written it meanwhile.
IsCurrent(c, f, v) ==
    /\ v >= atStart[c][f] /\ v <= version
    /\ file[f] # 0 /\ v >= foreign[c][f] => v = file[f]
ReadsAreCurrent == \A c \in Ctxs : \A r \in reading[c] : IsCurrent(c, r.of, r.ver)

CacheInv == CacheTypes /\ VersionsGrow /\ ReadsAreCurrent /\ CacheIsCurrent

\* Nothing is cached at the start.
LEMMA CacheInitInv == CacheInit => CacheInv
BY DEF CacheInit, CacheInv, CacheTypes, VersionsGrow, ReadsAreCurrent, CacheIsCurrent

\* A new version is foreign to the reads and the entries of all but its writer.
LEMMA NewVersionKeeps ==
    ASSUME CacheInv, NEW f \in Files, NewVersion(f), NEW C \in SUBSET Ctxs, ForeignTo(C, f),
           UNCHANGED <<reading, parent, atStart>>, \A c \in Ctxs \ C : reading[c] = {},
           \/ cached' = cached /\ C = Ctxs
           \/ \E c \in Ctxs : C = Ctxs \ {c} /\ cached' = [cached EXCEPT ![c][f] = version']
    PROVE  CacheInv'
<1> USE DEF CacheInv
<1>1. /\ version \in Nat /\ version' = version + 1 /\ version' \in Nat /\ version' # 0
      /\ file' = [file EXCEPT ![f] = version']
    BY DEF NewVersion, CacheTypes
<1>2. \A c \in Ctxs, g \in Files : foreign'[c][g] = IF c \in C /\ g = f THEN version' ELSE foreign[c][g]
    BY DEF ForeignTo
<1>3. foreign' \in [Ctxs -> [Files -> Nat]]
    BY <1>1 DEF ForeignTo, CacheTypes
<1>4. cached' \in [Ctxs -> [Files -> Nat]]
    BY <1>1 DEF CacheTypes
<1>5. \A c \in Ctxs, g \in Files : cached'[c][g] = IF c \notin C /\ g = f THEN version' ELSE cached[c][g]
    BY <1>1 DEF CacheTypes
<1>6. CacheTypes'
    BY <1>1, <1>3, <1>4 DEF CacheTypes
<1>7. \A g \in Files : file'[g] = IF g = f THEN version' ELSE file[g]
    BY <1>1 DEF CacheTypes
<1>8. \A c \in Ctxs, g \in Files : /\ file[g] \in Nat /\ cached[c][g] \in Nat /\ foreign[c][g] \in Nat
                                   /\ atStart'[c][g] = atStart[c][g] /\ atStart[c][g] \in Nat
    BY DEF CacheTypes
<1>9. VersionsGrow'
    <2>1. /\ \A g \in Files : file[g] <= version
          /\ \A c \in Ctxs, g \in Files :
                /\ cached[c][g] <= version /\ foreign[c][g] <= version /\ atStart[c][g] <= version
                /\ file[g] # 0 => foreign[c][g] <= file[g] /\ atStart[c][g] <= file[g]
        BY DEF VersionsGrow
    <2>7. \A g \in Files : file[g] \in Nat
        BY DEF CacheTypes
    <2>2. \A g \in Files : file'[g] <= version'
        BY <1>1, <1>7, <2>1, <2>7
    <2>3. \A c \in Ctxs, g \in Files : cached'[c][g] <= version'
        BY <1>1, <1>5, <1>8, <2>1
    <2>4. \A c \in Ctxs, g \in Files : foreign'[c][g] <= version'
        BY <1>1, <1>2, <1>8, <2>1
    <2>5. \A c \in Ctxs, g \in Files : atStart'[c][g] <= version'
        BY <1>1, <1>8, <2>1
    <2>6. ASSUME NEW c \in Ctxs, NEW g \in Files, file'[g] # 0
          PROVE  foreign'[c][g] <= file'[g] /\ atStart'[c][g] <= file'[g]
        <3>1. CASE g = f
            BY <1>1, <1>2, <1>7, <1>8, <2>1, <3>1
        <3>2. CASE g # f
            BY <1>2, <1>7, <1>8, <2>1, <2>6, <3>2
        <3> QED
            BY <3>1, <3>2
    <2> QED
        BY <2>2, <2>3, <2>4, <2>5, <2>6 DEF VersionsGrow
<1>10. ReadsAreCurrent'
    <2> SUFFICES ASSUME NEW c \in Ctxs, NEW r \in reading[c] PROVE IsCurrent(c, r.of, r.ver)'
        BY DEF ReadsAreCurrent
    <2>1. c \in C /\ r.of \in Files /\ r.ver \in Nat
        BY DEF CacheTypes
    <2>2. IsCurrent(c, r.of, r.ver)
        BY DEF ReadsAreCurrent
    <2> QED
        BY <1>1, <1>2, <1>7, <1>8, <2>1, <2>2 DEF IsCurrent
<1>11. CacheIsCurrent'
    BY <1>1, <1>2, <1>5, <1>7, <1>8 DEF VersionsGrow, CacheIsCurrent
<1> QED
    BY <1>6, <1>9, <1>10, <1>11

\* Every step keeps the invariant.
LEMMA CacheKeepsInv == CacheInv /\ [CacheNext]_rcVars => CacheInv'
<1> SUFFICES ASSUME CacheInv, [CacheNext]_rcVars PROVE CacheInv'
    OBVIOUS
<1> USE DEF CacheInv
<1>1. ASSUME NEW c \in Ctxs, NEW f \in Files, WriteFile(c, f) PROVE CacheInv'
    <2> DEFINE C == Ctxs \ {c}
    <2>1. /\ NewVersion(f) /\ ForeignTo(C, f) /\ UNCHANGED <<reading, parent, atStart>>
          /\ cached' = [cached EXCEPT ![c][f] = version'] /\ reading[c] = {}
        BY <1>1 DEF WriteFile, EntryAfter, Idle
    <2>2. \A d \in Ctxs \ C : reading[d] = {}
        BY <2>1
    <2>3. C \in SUBSET Ctxs /\ \E d \in Ctxs : C = Ctxs \ {d} /\ cached' = [cached EXCEPT ![d][f] = version']
        BY <2>1
    <2> QED
        BY <2>1, <2>2, <2>3, NewVersionKeeps
<1>2. ASSUME NEW c \in Ctxs, NEW f \in Files, ChangeFile(c, f) PROVE CacheInv'
    BY <1>2, NewVersionKeeps DEF ChangeFile
<1>3. ASSUME NEW c \in Ctxs, NEW f \in Files, RemoveFile(c, f) PROVE CacheInv'
    <2>1. file' = [file EXCEPT ![f] = 0] /\ UNCHANGED <<version, cached, reading, foreign, atStart>>
        BY <1>3 DEF RemoveFile, rcHist
    <2>2. CacheTypes' /\ VersionsGrow' /\ CacheIsCurrent'
        BY <2>1 DEF CacheTypes, VersionsGrow, CacheIsCurrent
    <2>3. ReadsAreCurrent'
        BY <2>1 DEF CacheTypes, ReadsAreCurrent, IsCurrent
    <2> QED
        BY <2>2, <2>3
<1>4. ASSUME NEW c \in Ctxs, NEW f \in Files, StartRead(c, f) PROVE CacheInv'
    <2> DEFINE one == [of |-> f, ver |-> file[f]]
    <2>1. /\ file[f] # 0 /\ reading' = [reading EXCEPT ![c] = reading[c] \cup {one}]
          /\ UNCHANGED <<file, version, cached, foreign, atStart>>
        BY <1>4 DEF StartRead, rcHist
    <2>2. one \in [of : Files, ver : Nat] /\ one.of = f /\ one.ver = file[f]
        BY DEF CacheTypes
    <2>3. IsCurrent(c, f, file[f])
        BY <2>1 DEF VersionsGrow, IsCurrent, CacheTypes
    <2> HIDE DEF one
    <2>4. \A d \in Ctxs : \A r \in reading'[d] : r \in reading[d] \/ (d = c /\ r = one)
        BY <2>1 DEF CacheTypes
    <2>5. CacheTypes'
        BY <2>1, <2>2 DEF CacheTypes
    <2>6. VersionsGrow' /\ CacheIsCurrent'
        BY <2>1 DEF VersionsGrow, CacheIsCurrent
    <2>7. ReadsAreCurrent'
        BY <2>1, <2>2, <2>3, <2>4 DEF ReadsAreCurrent, IsCurrent
    <2> QED
        BY <2>5, <2>6, <2>7
<1>5. ASSUME NEW c \in Ctxs, NEW r \in reading[c], EndRead(c, r) PROVE CacheInv'
    <2>1. r.of \in Files /\ r.ver \in Nat /\ IsCurrent(c, r.of, r.ver)
        BY DEF CacheTypes, ReadsAreCurrent
    <2>2. /\ cached' = cached \/ cached' = [cached EXCEPT ![c][r.of] = r.ver]
          /\ reading' = [reading EXCEPT ![c] = reading[c] \ {r}]
          /\ UNCHANGED <<file, version, foreign, atStart>>
        BY <1>5 DEF EndRead, rcHist
    <2> DEFINE entry == [cached EXCEPT ![c][r.of] = r.ver]
    <2>8. /\ entry \in [Ctxs -> [Files -> Nat]]
          /\ \A d \in Ctxs, f \in Files : entry[d][f] = IF d = c /\ f = r.of THEN r.ver ELSE cached[d][f]
        BY <2>1 DEF CacheTypes
    <2>9. reading' \in [Ctxs -> SUBSET [of : Files, ver : Nat]]
        BY <2>2 DEF CacheTypes
    <2>10. cached' = cached \/ cached' = entry
        BY <2>2
    <2> HIDE DEF entry
    <2>3. CacheTypes'
        BY <2>2, <2>8, <2>9, <2>10 DEF CacheTypes
    <2>4. \A d \in Ctxs, f \in Files : cached'[d][f] = cached[d][f] \/ (d = c /\ f = r.of /\ cached'[d][f] = r.ver)
        BY <2>8, <2>10
    <2>5. VersionsGrow' /\ CacheIsCurrent'
        BY <2>1, <2>2, <2>4 DEF VersionsGrow, CacheIsCurrent, IsCurrent
    <2>6. \A d \in Ctxs : reading'[d] \subseteq reading[d]
        BY <2>2 DEF CacheTypes
    <2>7. ReadsAreCurrent'
        BY <2>2, <2>6 DEF ReadsAreCurrent, IsCurrent
    <2> QED
        BY <2>3, <2>5, <2>7
<1>6. ASSUME NEW c \in Ctxs, NEW d \in Ctxs, StartAgent(c, d) PROVE CacheInv'
    <2>1. /\ UNCHANGED <<file, version, reading>> /\ reading[d] = {}
          /\ atStart' = [atStart EXCEPT ![d] = atStart[c]]
        BY <1>6 DEF StartAgent, Idle
    <2>2. ReadsAreCurrent' \/ ~ (foreign' = foreign \/ foreign' = [foreign EXCEPT ![d] = foreign[c]])
        BY <2>1 DEF CacheTypes, ReadsAreCurrent, IsCurrent
    <2>3. CASE cached' = [cached EXCEPT ![d] = [f \in Files |-> 0]] /\ foreign' = foreign
        BY <2>1, <2>2, <2>3 DEF CacheTypes, VersionsGrow, CacheIsCurrent
    <2>4. CASE cached' = [cached EXCEPT ![d] = cached[c]] /\ foreign' = [foreign EXCEPT ![d] = foreign[c]]
        BY <2>1, <2>2, <2>4 DEF CacheTypes, VersionsGrow, CacheIsCurrent
    <2> QED
        BY <1>6, <2>3, <2>4 DEF StartAgent
<1>7. ASSUME NEW c \in Ctxs, EndContext(c) PROVE CacheInv'
    <2>1. /\ UNCHANGED <<file, version, reading, foreign>> /\ reading[c] = {}
          /\ atStart' = [atStart EXCEPT ![c] = file]
          /\ cached' = [cached EXCEPT ![c] = [f \in Files |-> 0]]
        BY <1>7 DEF EndContext, Idle
    <2>2. CacheTypes' /\ VersionsGrow' /\ CacheIsCurrent'
        BY <2>1 DEF CacheTypes, VersionsGrow, CacheIsCurrent
    <2>3. ReadsAreCurrent'
        BY <2>1 DEF CacheTypes, ReadsAreCurrent, IsCurrent
    <2> QED
        BY <2>2, <2>3
<1>8. CASE UNCHANGED rcVars
    BY <1>8 DEF rcVars, rcHist, CacheTypes, VersionsGrow, ReadsAreCurrent, IsCurrent, CacheIsCurrent
<1> QED
    BY <1>1, <1>2, <1>3, <1>4, <1>5, <1>6, <1>7, <1>8 DEF CacheNext

\* A cached answer of read_file is something the file held since the turn began, and what it
\* holds unless something behind the back of the context has written a later version, with
\* any number of reads at once (read.go:38-67, write.go:42-66, context.go:200-226).
THEOREM CacheHolds == CacheSpec => []CacheIsCurrent
<1>1. CacheInv => CacheIsCurrent
    BY DEF CacheInv
<1> QED
    BY CacheInitInv, CacheKeepsInv, <1>1, PTL DEF CacheSpec

-----------------------------------------------------------------------------
(* Command output, for any number of runs, of seconds and of lines.        *)

RunStates == {"new", "runs", "starts", "started", "job", "orphan", "detached", "over", "exited", "answered"}

ExecTypes ==
    /\ sec \in 1 .. LastSecond /\ run \in [Runs -> RunStates]
    /\ began \in [Runs -> 0 .. LastSecond] /\ dir = began
    /\ printed \in [Runs -> Nat] /\ whole \in [Runs -> Nat]
    /\ DOMAIN log = 1 .. LastSecond /\ DOMAIN pidFile = 1 .. LastSecond /\ DOMAIN answer = Runs

\* The clock only goes on, so a second that is over gets no more runs.
ClockGoesOn == \A r \in Runs : (run[r] = "new" <=> began[r] = 0) /\ began[r] <= sec

\* The output of a run that is alone in its second.
OwnOutput(r) == [i \in 1 .. printed[r] |-> r]

Foreground == {"runs", "detached", "over", "exited"}

\* What a run that is alone answers with.
Answered(r) == answer[r] \in Seq({r}) /\ whole[r] <= Len(answer[r]) /\ Len(answer[r]) <= printed[r]

OwnAnswers ==
    \A r \in Runs : Alone(r) =>
        /\ run[r] = "answered" => Answered(r)
        /\ run[r] = "job" => answer[r] = <<r>>

ExecInv ==
    /\ ExecTypes /\ ClockGoesOn
    /\ \A r \in Runs : (run[r] = "new" => printed[r] = 0) /\ whole[r] <= printed[r]
    /\ \A r \in Runs : Alone(r) =>
          /\ run[r] \in Foreground => log[dir[r]] = OwnOutput(r)
          /\ run[r] = "started" => pidFile[dir[r]] = r
    /\ OwnAnswers

\* The output of a run that is alone is as long as what it has printed, and its own.
LEMMA SameLine ==
    ASSUME NEW r, NEW n \in Nat
    PROVE  LET own == [i \in 1 .. n |-> r] IN own \in Seq({r}) /\ Len(own) = n /\ ToSet(own) \subseteq {r}
<1> DEFINE own == [i \in 1 .. n |-> r]
<1>1. own \in [1 .. n -> {r}] /\ DOMAIN own = 1 .. n /\ \A i \in 1 .. n : own[i] = r
    OBVIOUS
<1> HIDE DEF own
<1>2. own \in Seq({r})
    BY <1>1, SeqDef
<1>3. Len(own) = n
    BY <1>1, <1>2, LenProperties
<1>4. ToSet(own) \subseteq {r}
    BY <1>1 DEF ToSet
<1> QED
    BY <1>2, <1>3, <1>4 DEF own

\* One more line of a command that writes at its own offset.
LEMMA OneMoreLine ==
    ASSUME NEW r, NEW n \in Nat
    PROVE  At([i \in 1 .. n |-> r], n + 1, r) = [i \in 1 .. n + 1 |-> r]
<1> DEFINE own == [i \in 1 .. n |-> r]
<1>1. own \in Seq({r}) /\ Len(own) = n
    BY SameLine
<1>2. \A i \in 1 .. n : own[i] = r
    OBVIOUS
<1> HIDE DEF own
<1>3. At(own, n + 1, r) = [i \in 1 .. n + 1 |-> IF i = n + 1 THEN r ELSE IF i <= n THEN own[i] ELSE Hole]
    BY <1>1 DEF At
<1>4. \A i \in 1 .. n + 1 : (IF i = n + 1 THEN r ELSE IF i <= n THEN own[i] ELSE Hole) = r
    BY <1>2
<1> QED
    BY <1>3, <1>4 DEF own

\* Nothing runs in the first second.
LEMMA ExecInitInv == ExecInit => ExecInv
<1> SUFFICES ASSUME ExecInit PROVE ExecInv
    OBVIOUS
<1>1. ExecTypes /\ ClockGoesOn
    BY ExecAssumption DEF ExecInit, ExecTypes, ClockGoesOn, RunStates
<1> QED
    BY <1>1 DEF ExecInit, ExecInv, OwnAnswers, Foreground

\* A run takes the directory of the second: if another run has begun in it, neither is alone.
LEMMA BeginKeepsInv ==
    ASSUME ExecInv, NEW r \in Runs, BeginForeground(r) \/ BeginBackground(r)
    PROVE  ExecInv'
<1> PICK where \in {"runs", "starts"} :
        /\ Begin(r, where)
        /\ where = "runs" => log' = [log EXCEPT ![sec] = <<>>]
        /\ where = "starts" => log' = log
    BY DEF BeginForeground, BeginBackground, Stamp
<1>1. /\ run[r] = "new" /\ run' = [run EXCEPT ![r] = where] /\ dir' = [dir EXCEPT ![r] = sec]
      /\ began' = [began EXCEPT ![r] = sec] /\ UNCHANGED <<sec, pidFile, printed, answer, whole>>
    BY DEF Begin, Stamp
<1>2. ExecTypes' /\ ClockGoesOn'
    BY <1>1, ExecAssumption DEF ExecInv, ExecTypes, ClockGoesOn, RunStates
<1>3. \A s \in Runs : (run'[s] = "new" => printed'[s] = 0) /\ whole'[s] <= printed'[s]
    BY <1>1 DEF ExecInv, ExecTypes
<1>4. ASSUME NEW s \in Runs, s # r, run[s] # "new", Alone(s)' PROVE Alone(s) /\ began[s] # sec
    <2>1. \A u \in Runs \ {s} : began'[u] # began'[s]
        BY <1>4 DEF Alone
    <2>2. began'[s] = began[s] /\ began'[r] = sec /\ began[s] # sec
        BY <1>1, <1>4, <2>1 DEF ExecInv, ExecTypes
    <2>3. began[r] = 0 /\ began[s] # 0
        BY <1>1, <1>4 DEF ExecInv, ClockGoesOn
    <2>4. \A u \in Runs \ {s} : u # r => began[u] = began'[u]
        BY <1>1 DEF ExecInv, ExecTypes
    <2> QED
        BY <2>1, <2>2, <2>3, <2>4 DEF Alone
<1>5. ASSUME NEW s \in Runs, Alone(s)'
      PROVE  /\ run'[s] \in Foreground => log'[dir'[s]] = OwnOutput(s)'
             /\ run'[s] = "started" => pidFile'[dir'[s]] = s
             /\ run'[s] = "answered" => Answered(s)'
             /\ run'[s] = "job" => answer'[s] = <<s>>
    <2>1. CASE s = r
        <3>1. run'[s] = where /\ dir'[s] = sec
            BY <1>1, <2>1 DEF ExecInv, ExecTypes
        <3>2. where = "runs" => log'[sec] = <<>>
            BY DEF ExecInv, ExecTypes
        <3>3. OwnOutput(s)' = <<>>
            BY <1>1, <2>1 DEF ExecInv, OwnOutput
        <3> QED
            BY <3>1, <3>2, <3>3 DEF Foreground
    <2>2. CASE s # r /\ run[s] # "new"
        <3>1. Alone(s) /\ began[s] # sec
            BY <1>4, <1>5, <2>2
        <3>2. dir'[s] = dir[s] /\ dir[s] # sec /\ run'[s] = run[s] /\ log'[dir[s]] = log[dir[s]]
            <4>1. dir'[s] = dir[s] /\ dir[s] # sec /\ run'[s] = run[s] /\ dir[s] \in 1 .. LastSecond /\ sec \in 1 .. LastSecond
                BY <1>1, <2>2, <3>1 DEF ExecInv, ExecTypes, ClockGoesOn
            <4>2. log'[dir[s]] = log[dir[s]]
                BY <4>1 DEF ExecInv, ExecTypes
            <4> QED
                BY <4>1, <4>2
        <3>3. /\ run[s] = "answered" => Answered(s)
              /\ run[s] = "job" => answer[s] = <<s>>
            BY <3>1 DEF ExecInv, OwnAnswers
        <3>4. /\ run[s] \in Foreground => log[dir[s]] = OwnOutput(s)
              /\ run[s] = "started" => pidFile[dir[s]] = s
            BY <3>1 DEF ExecInv
        <3>5. OwnOutput(s)' = OwnOutput(s) /\ (Answered(s)' <=> Answered(s))
            BY <1>1 DEF OwnOutput, Answered
        <3> QED
            BY <1>1, <3>1, <3>2, <3>3, <3>4, <3>5
    <2>3. CASE s # r /\ run[s] = "new"
        <3>1. run'[s] = "new"
            BY <1>1, <2>3 DEF ExecInv, ExecTypes
        <3> QED
            BY <3>1 DEF Foreground
    <2> QED
        BY <2>1, <2>2, <2>3
<1> QED
    BY <1>2, <1>3, <1>5 DEF ExecInv, OwnAnswers

\* A run goes on: nobody begins, and of the directories it changes its own only, as it may.
LEMMA GoOnKeepsInv ==
    ASSUME ExecInv, NEW r \in Runs, run[r] # "new", NEW where \in RunStates, where # "new", run' = [run EXCEPT ![r] = where],
           UNCHANGED <<sec, dir, began>>,
           DOMAIN log' = DOMAIN log, DOMAIN pidFile' = DOMAIN pidFile, DOMAIN answer' = Runs, printed' \in [Runs -> Nat], whole' \in [Runs -> Nat],
           \A s \in Runs \ {r} : printed'[s] = printed[s] /\ answer'[s] = answer[s] /\ whole'[s] = whole[s],
           whole'[r] <= printed'[r],
           \A d \in DOMAIN log : d # dir[r] => log'[d] = log[d] /\ pidFile'[d] = pidFile[d],
           Alone(r) => /\ where \in Foreground => log'[dir[r]] = OwnOutput(r)'
                       /\ where = "started" => pidFile'[dir[r]] = r
                       /\ where = "answered" => Answered(r)'
                       /\ where = "job" => answer'[r] = <<r>>
    PROVE  ExecInv'
<1>1. run'[r] = where /\ \A s \in Runs \ {r} : run'[s] = run[s]
    BY DEF ExecInv, ExecTypes
<1>2. ExecTypes' /\ ClockGoesOn'
    BY <1>1 DEF ExecInv, ExecTypes, ClockGoesOn
<1>3. \A s \in Runs : (run'[s] = "new" => printed'[s] = 0) /\ whole'[s] <= printed'[s]
    BY <1>1 DEF ExecInv
<1>4. \A s \in Runs : Alone(s)' <=> Alone(s)
    BY DEF Alone
<1>5. ASSUME NEW s \in Runs, Alone(s)'
      PROVE  /\ run'[s] \in Foreground => log'[dir'[s]] = OwnOutput(s)'
             /\ run'[s] = "started" => pidFile'[dir'[s]] = s
             /\ run'[s] = "answered" => Answered(s)'
             /\ run'[s] = "job" => answer'[s] = <<s>>
    <2>1. CASE s = r
        BY <1>1, <1>4, <1>5, <2>1
    <2>2. CASE s # r /\ run[s] # "new"
        <3>1. Alone(s) /\ dir[s] # dir[r] /\ dir[s] \in DOMAIN log
            BY <1>4, <1>5, <2>2 DEF Alone, ExecInv, ExecTypes, ClockGoesOn
        <3>2. /\ run[s] = "answered" => Answered(s)
              /\ run[s] = "job" => answer[s] = <<s>>
            BY <3>1 DEF ExecInv, OwnAnswers
        <3>3. /\ run[s] \in Foreground => log[dir[s]] = OwnOutput(s)
              /\ run[s] = "started" => pidFile[dir[s]] = s
            BY <3>1 DEF ExecInv
        <3>4. OwnOutput(s)' = OwnOutput(s) /\ (Answered(s)' <=> Answered(s))
            BY <2>2 DEF OwnOutput, Answered
        <3>5. run'[s] = run[s] /\ dir'[s] = dir[s] /\ answer'[s] = answer[s]
            BY <1>1, <2>2
        <3>6. log'[dir[s]] = log[dir[s]] /\ pidFile'[dir[s]] = pidFile[dir[s]]
            BY <3>1
        <3> QED
            BY <3>2, <3>3, <3>4, <3>5, <3>6
    <2>3. CASE s # r /\ run[s] = "new"
        BY <1>1, <2>3 DEF Foreground
    <2> QED
        BY <2>1, <2>2, <2>3
<1> QED
    BY <1>2, <1>3, <1>5 DEF ExecInv, OwnAnswers

\* Every step keeps the invariant.
LEMMA ExecKeepsInv == ExecInv /\ [ExecNext]_exVars => ExecInv'
<1> SUFFICES ASSUME ExecInv, [ExecNext]_exVars PROVE ExecInv'
    OBVIOUS
<1>1. CASE Second
    <2>1. sec' \in 1 .. LastSecond /\ sec <= sec' /\ UNCHANGED <<run, dir, log, pidFile, printed, answer, began, whole>>
        BY <1>1, ExecAssumption DEF Second, ExecInv, ExecTypes
    <2>2. ExecTypes' /\ ClockGoesOn'
        BY <2>1, ExecAssumption DEF ExecInv, ExecTypes, ClockGoesOn
    <2> QED
        BY <2>1, <2>2 DEF ExecInv, OwnAnswers, Answered, OwnOutput, Alone
<1>2. ASSUME NEW r \in Runs, BeginForeground(r) \/ BeginBackground(r) PROVE ExecInv'
    BY <1>2, BeginKeepsInv
<1>3. ASSUME NEW r \in Runs, WritePid(r) PROVE ExecInv'
    <2>1. /\ run[r] = "starts" /\ run' = [run EXCEPT ![r] = "started"] /\ pidFile' = [pidFile EXCEPT ![dir[r]] = r]
          /\ UNCHANGED <<sec, dir, log, printed, answer, began, whole>>
        BY <1>3 DEF WritePid
    <2>2. dir[r] \in DOMAIN pidFile /\ DOMAIN log = DOMAIN pidFile /\ DOMAIN answer = Runs /\ printed \in [Runs -> Nat]
        BY <2>1 DEF ExecInv, ExecTypes, ClockGoesOn
    <2>9. whole \in [Runs -> Nat] /\ whole[r] <= printed[r]
        BY DEF ExecInv, ExecTypes
    <2> QED
        BY <2>1, <2>2, <2>9, GoOnKeepsInv DEF Foreground, RunStates
<1>4. ASSUME NEW r \in Runs, AnswerBackground(r) PROVE ExecInv'
    <2>1. PICK where \in {"job", "orphan"} :
             run' = [run EXCEPT ![r] = where] /\ (where = "job" => run[r] = "started") /\ run[r] # "new"
        BY <1>4 DEF AnswerBackground, ExecInv, ExecTypes
    <2>2. /\ answer' = [answer EXCEPT ![r] = <<pidFile[dir[r]]>>] /\ pidFile' = [pidFile EXCEPT ![dir[r]] = Hole]
          /\ UNCHANGED <<sec, dir, log, printed, began, whole>>
        BY <1>4 DEF AnswerBackground
    <2>3. dir[r] \in DOMAIN pidFile /\ DOMAIN log = DOMAIN pidFile /\ DOMAIN answer = Runs /\ printed \in [Runs -> Nat]
        BY <2>1 DEF ExecInv, ExecTypes, ClockGoesOn
    <2>9. whole \in [Runs -> Nat] /\ whole[r] <= printed[r]
        BY DEF ExecInv, ExecTypes
    <2>4. Alone(r) /\ where = "job" => answer'[r] = <<r>>
        BY <2>1, <2>2, <2>3 DEF ExecInv
    <2>5. DOMAIN answer' = Runs /\ \A s \in Runs \ {r} : answer'[s] = answer[s]
        BY <2>2, <2>3
    <2>6. DOMAIN pidFile' = DOMAIN pidFile /\ \A d \in DOMAIN log : d # dir[r] => pidFile'[d] = pidFile[d]
        BY <2>2, <2>3
    <2> QED
        BY <2>1, <2>2, <2>3, <2>4, <2>5, <2>6, <2>9, GoOnKeepsInv DEF Foreground, RunStates
<1>5. ASSUME NEW r \in Runs, Output(r) PROVE ExecInv'
    <2>1. /\ run[r] # "new" /\ printed' = [printed EXCEPT ![r] = @ + 1]
          /\ log' = [log EXCEPT ![dir[r]] = IF run[r] \in Appending THEN Append(log[dir[r]], r)
                                            ELSE At(log[dir[r]], printed[r] + 1, r)]
          /\ UNCHANGED <<sec, run, dir, pidFile, answer, began, whole>>
        BY <1>5 DEF Output
    <2>2. PICK where \in RunStates : where = run[r]
        BY DEF ExecInv, ExecTypes
    <2>3. where # "new" /\ run' = [run EXCEPT ![r] = where]
        BY <2>1, <2>2 DEF ExecInv, ExecTypes
    <2>4. /\ dir[r] \in DOMAIN log /\ DOMAIN log = DOMAIN pidFile /\ DOMAIN answer = Runs
          /\ printed[r] \in Nat /\ printed' \in [Runs -> Nat] /\ printed'[r] = printed[r] + 1
          /\ \A s \in Runs \ {r} : printed'[s] = printed[s]
        BY <2>1 DEF ExecInv, ExecTypes, ClockGoesOn
    <2>5. DOMAIN log' = DOMAIN log /\ \A d \in DOMAIN log : d # dir[r] => log'[d] = log[d]
        BY <2>1, <2>4
    <2>6. ASSUME Alone(r), where \in Foreground PROVE log'[dir[r]] = OwnOutput(r)'
        <3>1. log[dir[r]] = [i \in 1 .. printed[r] |-> r]
            BY <2>2, <2>6 DEF ExecInv, OwnOutput
        <3>2. log'[dir[r]] = At(log[dir[r]], printed[r] + 1, r)
            BY <2>1, <2>2, <2>4, <2>6 DEF Foreground, Appending
        <3>3. log'[dir[r]] = [i \in 1 .. printed[r] + 1 |-> r]
            BY <2>4, <3>1, <3>2, OneMoreLine
        <3> QED
            BY <2>4, <3>3 DEF OwnOutput
    <2>7. Alone(r) /\ where = "started" => pidFile'[dir[r]] = r
        BY <2>1, <2>2 DEF ExecInv
    <2>14. OwnAnswers /\ answer' = answer /\ whole' = whole
        BY <2>1 DEF ExecInv
    <2>8. Alone(r) /\ where = "job" => answer'[r] = <<r>>
        BY <2>2, <2>14 DEF OwnAnswers
    <2>9. ASSUME Alone(r), where = "answered" PROVE Answered(r)'
        <3>1. Answered(r)
            BY <2>2, <2>9, <2>14 DEF OwnAnswers
        <3>2. PICK n \in Nat : n = Len(answer[r])
            BY <3>1, LenProperties DEF Answered
        <3>3. n <= printed[r] => n <= printed[r] + 1
            BY <2>4
        <3> QED
            BY <2>4, <2>14, <3>1, <3>2, <3>3 DEF Answered
    <2>10. whole' \in [Runs -> Nat] /\ whole'[r] <= printed'[r]
        BY <2>1, <2>4 DEF ExecInv, ExecTypes
    <2>11. /\ DOMAIN pidFile' = DOMAIN pidFile /\ DOMAIN answer' = Runs
           /\ \A s \in Runs \ {r} : printed'[s] = printed[s] /\ answer'[s] = answer[s] /\ whole'[s] = whole[s]
           /\ \A d \in DOMAIN log : d # dir[r] => log'[d] = log[d] /\ pidFile'[d] = pidFile[d]
        BY <2>1, <2>4, <2>5
    <2>12. UNCHANGED <<sec, dir, began>>
        BY <2>1
    <2>13. Alone(r) => /\ where \in Foreground => log'[dir[r]] = OwnOutput(r)'
                       /\ where = "started" => pidFile'[dir[r]] = r
                       /\ where = "answered" => Answered(r)'
                       /\ where = "job" => answer'[r] = <<r>>
        BY <2>6, <2>7, <2>8, <2>9
    <2>15. run[r] # "new"
        BY <2>1
    <2> QED
        BY <2>3, <2>4, <2>5, <2>10, <2>11, <2>12, <2>13, <2>15, GoOnKeepsInv
<1>6. ASSUME NEW r \in Runs, Exit(r) \/ GiveUp(r) PROVE ExecInv'
    <2>1. PICK where \in {"exited", "detached", "over"} : run' = [run EXCEPT ![r] = where]
        BY <1>6 DEF Exit, GiveUp
    <2>2. /\ run[r] = "runs" /\ UNCHANGED <<sec, dir, log, pidFile, printed, answer, began>>
          /\ whole' = whole \/ whole' = [whole EXCEPT ![r] = printed[r]]
        BY <1>6 DEF Exit, GiveUp
    <2>3. Alone(r) => log[dir[r]] = OwnOutput(r)
        BY <2>2 DEF ExecInv, Foreground
    <2>4. OwnOutput(r)' = OwnOutput(r) /\ DOMAIN answer = Runs /\ printed \in [Runs -> Nat]
        BY <2>2 DEF OwnOutput, ExecInv, ExecTypes
    <2>5. /\ whole' \in [Runs -> Nat] /\ whole'[r] <= printed'[r]
          /\ \A s \in Runs \ {r} : whole'[s] = whole[s]
        BY <2>2 DEF ExecInv, ExecTypes
    <2> QED
        BY <2>1, <2>2, <2>3, <2>4, <2>5, GoOnKeepsInv DEF RunStates
<1>7. ASSUME NEW r \in Runs, AnswerForeground(r) PROVE ExecInv'
    <2>1. /\ run[r] = "exited" /\ run' = [run EXCEPT ![r] = "answered"] /\ answer' = [answer EXCEPT ![r] = log[dir[r]]]
          /\ UNCHANGED <<sec, dir, log, pidFile, printed, began, whole>>
        BY <1>7 DEF AnswerForeground
    <2>2. /\ DOMAIN answer = Runs /\ printed \in [Runs -> Nat] /\ whole \in [Runs -> Nat]
          /\ whole[r] \in Nat /\ printed[r] \in Nat /\ whole[r] <= printed[r]
        BY DEF ExecInv, ExecTypes
    <2>3. ASSUME Alone(r) PROVE Answered(r)'
        <3>1. answer'[r] = [i \in 1 .. printed[r] |-> r]
            BY <2>1, <2>2, <2>3 DEF ExecInv, Foreground, OwnOutput
        <3> DEFINE own == [i \in 1 .. printed[r] |-> r]
        <3>2. own \in Seq({r}) /\ Len(own) = printed[r]
            BY <2>2, SameLine
        <3>3. answer'[r] = own
            BY <3>1
        <3> HIDE DEF own
        <3> QED
            BY <2>1, <2>2, <3>2, <3>3 DEF Answered
    <2>4. DOMAIN answer' = Runs /\ \A s \in Runs \ {r} : answer'[s] = answer[s]
        BY <2>1, <2>2
    <2> QED
        BY <2>1, <2>2, <2>3, <2>4, GoOnKeepsInv DEF Foreground, RunStates
<1>8. CASE UNCHANGED exVars
    BY <1>8 DEF exVars, ExecInv, ExecTypes, ClockGoesOn, OwnAnswers, Answered, OwnOutput, Alone
<1> QED
    BY <1>1, <1>2, <1>3, <1>4, <1>5, <1>6, <1>7, <1>8 DEF ExecNext

\* The runs of a second, and the lines that nobody wrote.
Mates(t) == {s \in Runs : began[s] = t} \cup {Hole}

\* What is in a directory, and what a run answers with, comes from the runs of its second.
MatesInv ==
    /\ ExecInv
    /\ \A t \in 1 .. LastSecond : log[t] \in Seq(Mates(t)) /\ pidFile[t] \in Mates(t)
    /\ \A r \in Runs : answer[r] \in Seq(Mates(began[r])) /\ (run[r] = "new" => answer[r] = <<>>)

\* A sequence is over every larger set too, and takes a line of the set at its end or anywhere.
LEMMA LinesOver ==
    ASSUME NEW S, NEW q \in Seq(S)
    PROVE  /\ ToSet(q) \subseteq S
           /\ \A T : S \subseteq T => q \in Seq(T)
           /\ \A r \in S : Append(q, r) \in Seq(S)
<1>1. ToSet(q) \subseteq S
    BY LenProperties DEF ToSet
<1>2. ASSUME NEW T, S \subseteq T PROVE q \in Seq(T)
    <2>1. q \in [1 .. Len(q) -> S] /\ Len(q) \in Nat
        BY LenProperties
    <2>2. q \in [1 .. Len(q) -> T]
        BY <1>2, <2>1
    <2> QED
        BY <2>1, <2>2, SeqDef
<1> QED
    BY <1>1, <1>2

\* The same of a line that a foreground command writes at its own offset.
LEMMA LineAt ==
    ASSUME NEW S, NEW q \in Seq(S), NEW r \in S, Hole \in S, NEW n \in Nat
    PROVE  At(q, n, r) \in Seq(S)
<1>1. PICK k \in Nat : k = Len(q)
    BY LenProperties
<1>2. \A i \in 1 .. k : q[i] \in S
    BY <1>1, LenProperties
<1>3. PICK m \in Nat : m = IF n > k THEN n ELSE k
    OBVIOUS
<1>4. At(q, n, r) = [i \in 1 .. m |-> IF i = n THEN r ELSE IF i <= k THEN q[i] ELSE Hole]
    BY <1>1, <1>3 DEF At
<1>5. \A i \in 1 .. m : (IF i = n THEN r ELSE IF i <= k THEN q[i] ELSE Hole) \in S
    BY <1>2
<1>6. At(q, n, r) \in [1 .. m -> S]
    BY <1>4, <1>5
<1> QED
    BY <1>6, SeqDef

\* Every step keeps what is in the directories to the runs of their second.
LEMMA MatesAreKept == MatesInv /\ [ExecNext]_exVars => MatesInv'
<1> SUFFICES ASSUME MatesInv, [ExecNext]_exVars PROVE MatesInv'
    OBVIOUS
<1>1. ExecInv /\ ExecInv'
    BY ExecKeepsInv DEF MatesInv
<1>2. /\ DOMAIN log = 1 .. LastSecond /\ DOMAIN pidFile = 1 .. LastSecond /\ DOMAIN answer = Runs
      /\ DOMAIN log' = 1 .. LastSecond /\ DOMAIN pidFile' = 1 .. LastSecond /\ DOMAIN answer' = Runs
      /\ DOMAIN run = Runs /\ dir = began /\ printed \in [Runs -> Nat] /\ sec \in 1 .. LastSecond
      /\ \A s \in Runs : run[s] # "new" => dir[s] \in 1 .. LastSecond
    BY <1>1 DEF ExecInv, ExecTypes, ClockGoesOn
<1>3. ASSUME began' = began, \A s \in Runs : run'[s] = "new" => run[s] = "new" /\ answer'[s] = answer[s],
             \A t \in 1 .. LastSecond : log'[t] \in Seq(Mates(t)) /\ pidFile'[t] \in Mates(t),
             \A s \in Runs : answer'[s] \in Seq(Mates(began[s]))
      PROVE  MatesInv'
    <2>1. \A t : Mates(t)' = Mates(t)
        BY <1>3 DEF Mates
    <2> QED
        BY <1>1, <1>3, <2>1 DEF MatesInv
<1>4. \A s \in Runs : run[s] # "new" => s \in Mates(dir[s])
    BY <1>2 DEF Mates
<1>5. \A t : Hole \in Mates(t)
    BY DEF Mates
<1>6. CASE Second \/ UNCHANGED exVars
    BY <1>3, <1>6 DEF Second, exVars, MatesInv
<1>7. ASSUME NEW r \in Runs, BeginForeground(r) \/ BeginBackground(r) PROVE MatesInv'
    <2>1. /\ run[r] = "new" /\ began' = [began EXCEPT ![r] = sec] /\ UNCHANGED <<pidFile, answer>>
          /\ log' = log \/ log' = [log EXCEPT ![sec] = <<>>]
          /\ run'[r] # "new" /\ \A s \in Runs \ {r} : run'[s] = run[s]
        BY <1>2, <1>7 DEF BeginForeground, BeginBackground, Begin, Stamp
    <2>2. began[r] = 0 /\ answer[r] = <<>> /\ \A s \in Runs \ {r} : began'[s] = began[s]
        BY <1>1, <2>1 DEF MatesInv, ExecInv, ExecTypes, ClockGoesOn
    <2>3. \A t \in 1 .. LastSecond : Mates(t) \subseteq Mates(t)'
        BY <2>1, <2>2 DEF Mates
    <2>4. ASSUME NEW t \in 1 .. LastSecond PROVE log'[t] \in Seq(Mates(t)') /\ pidFile'[t] \in Mates(t)'
        <3>1. log[t] \in Seq(Mates(t)') /\ pidFile[t] \in Mates(t)'
            BY <2>3, <2>4, LinesOver DEF MatesInv
        <3>2. <<>> \in Seq(Mates(t)')
            OBVIOUS
        <3>3. log'[t] = log[t] \/ log'[t] = <<>>
            BY <1>2, <2>1
        <3> QED
            BY <2>1, <3>1, <3>2, <3>3
    <2>5. ASSUME NEW s \in Runs PROVE answer'[s] \in Seq(Mates(began[s])') /\ (run'[s] = "new" => answer'[s] = <<>>)
        <3>1. <<>> \in Seq(Mates(began[s])')
            OBVIOUS
        <3>2. CASE answer[s] = <<>>
            BY <2>1, <3>1, <3>2 DEF MatesInv
        <3>3. CASE answer[s] # <<>>
            <4>1. s # r /\ run[s] # "new" /\ began[s] \in 1 .. LastSecond
                BY <1>2, <2>2, <3>3 DEF MatesInv
            <4>2. began'[s] = began[s] /\ run'[s] # "new" /\ answer'[s] = answer[s]
                BY <2>1, <2>2, <4>1
            <4>3. PICK t \in 1 .. LastSecond : t = began[s]
                BY <4>1
            <4>4. answer[s] \in Seq(Mates(t)) /\ Mates(t) \subseteq Mates(t)'
                BY <2>3, <4>3 DEF MatesInv
            <4>5. answer[s] \in Seq(Mates(t)')
                BY <4>4, LinesOver
            <4>6. Mates(began[s])' = Mates(t)'
                BY <4>2, <4>3 DEF Mates
            <4> QED
                BY <4>2, <4>5, <4>6
        <3> QED
            BY <3>2, <3>3
    <2> QED
        BY <1>1, <2>4, <2>5 DEF MatesInv
<1>8. ASSUME NEW r \in Runs, WritePid(r) PROVE MatesInv'
    <2>1. /\ run[r] # "new" /\ run' = [run EXCEPT ![r] = "started"] /\ pidFile' = [pidFile EXCEPT ![dir[r]] = r]
          /\ UNCHANGED <<log, answer, began>>
        BY <1>8 DEF WritePid
    <2> QED
        BY <1>2, <1>3, <1>4, <2>1 DEF MatesInv
<1>9. ASSUME NEW r \in Runs, AnswerBackground(r) PROVE MatesInv'
    <2>1. /\ run[r] # "new" /\ answer' = [answer EXCEPT ![r] = <<pidFile[dir[r]]>>]
          /\ pidFile' = [pidFile EXCEPT ![dir[r]] = Hole] /\ UNCHANGED <<log, began>>
        BY <1>9 DEF AnswerBackground
    <2>2. run'[r] # "new" /\ \A s \in Runs \ {r} : run'[s] = run[s] /\ answer'[s] = answer[s]
        BY <1>2, <1>9, <2>1 DEF AnswerBackground
    <2>3. pidFile[dir[r]] \in Mates(dir[r])
        BY <1>2, <2>1 DEF MatesInv
    <2>4. answer'[r] \in Seq(Mates(began[r]))
        BY <1>2, <2>1, <2>3
    <2>5. \A t \in 1 .. LastSecond : pidFile'[t] \in Mates(t)
        BY <1>2, <1>5, <2>1 DEF MatesInv
    <2> QED
        BY <1>3, <2>1, <2>2, <2>4, <2>5 DEF MatesInv
<1>10. ASSUME NEW r \in Runs, Output(r) PROVE MatesInv'
    <2>1. /\ run[r] # "new" /\ UNCHANGED <<run, pidFile, answer, began>>
          /\ log' = [log EXCEPT ![dir[r]] = IF run[r] \in Appending THEN Append(log[dir[r]], r)
                                            ELSE At(log[dir[r]], printed[r] + 1, r)]
        BY <1>10 DEF Output
    <2>2. PICK d \in 1 .. LastSecond : d = dir[r]
        BY <1>2, <2>1
    <2>3. log[d] \in Seq(Mates(d)) /\ r \in Mates(d) /\ Hole \in Mates(d) /\ printed[r] + 1 \in Nat
        BY <1>2, <1>4, <1>5, <2>1, <2>2 DEF MatesInv
    <2>4. Append(log[d], r) \in Seq(Mates(d)) /\ At(log[d], printed[r] + 1, r) \in Seq(Mates(d))
        BY <2>3, LinesOver, LineAt
    <2>5. log'[d] \in Seq(Mates(d)) /\ \A t \in 1 .. LastSecond : t # d => log'[t] = log[t]
        BY <1>2, <2>1, <2>2, <2>4
    <2> QED
        BY <1>3, <2>1, <2>5 DEF MatesInv
<1>11. ASSUME NEW r \in Runs, Exit(r) \/ GiveUp(r) PROVE MatesInv'
    <2>1. /\ UNCHANGED <<log, pidFile, answer, began>>
          /\ \E where \in {"exited", "detached", "over"} : run' = [run EXCEPT ![r] = where]
        BY <1>11 DEF Exit, GiveUp
    <2>2. \A s \in Runs : run'[s] = "new" => run[s] = "new"
        BY <1>2, <2>1
    <2> QED
        BY <1>3, <2>1, <2>2 DEF MatesInv
<1>12. ASSUME NEW r \in Runs, AnswerForeground(r) PROVE MatesInv'
    <2>1. /\ run[r] # "new" /\ run' = [run EXCEPT ![r] = "answered"] /\ answer' = [answer EXCEPT ![r] = log[dir[r]]]
          /\ UNCHANGED <<log, pidFile, began>>
        BY <1>12 DEF AnswerForeground
    <2>2. run'[r] # "new" /\ \A s \in Runs \ {r} : run'[s] = run[s] /\ answer'[s] = answer[s]
        BY <1>2, <2>1
    <2>3. answer'[r] \in Seq(Mates(began[r]))
        BY <1>2, <2>1 DEF MatesInv
    <2> QED
        BY <1>3, <2>1, <2>2, <2>3 DEF MatesInv
<1> QED
    BY <1>6, <1>7, <1>8, <1>9, <1>10, <1>11, <1>12 DEF ExecNext

\* A run of the exec tool answers with what the runs of its own second have put into their
\* directory, however long other commands and their children go on.  A run that shares its second
\* with no other answers with its own output only, at least what was there when its shell ended,
\* or with the pid of its own job (exec.go).
THEOREM AnswersAreOwn == ExecSpec => []OutputIsOwn
<1>1. ExecInit => MatesInv
    <2> SUFFICES ASSUME ExecInit PROVE MatesInv
        OBVIOUS
    <2>1. ExecInv
        BY ExecInitInv
    <2>2. \A t \in 1 .. LastSecond : log[t] = <<>> /\ pidFile[t] = Hole
        BY DEF ExecInit
    <2>3. \A r \in Runs : answer[r] = <<>>
        BY DEF ExecInit
    <2>4. \A S : <<>> \in Seq(S)
        OBVIOUS
    <2> QED
        BY <2>1, <2>2, <2>3, <2>4 DEF MatesInv, Mates
<1>2. MatesInv => OutputIsOwn
    <2> SUFFICES ASSUME MatesInv, NEW r \in Runs
                 PROVE  /\ ToSet(answer[r]) \subseteq Mates(began[r])
                        /\ Alone(r) => /\ run[r] = "answered" =>
                                            /\ ToSet(answer[r]) \subseteq {r} /\ whole[r] <= Len(answer[r])
                                            /\ Len(answer[r]) <= printed[r]
                                       /\ run[r] = "job" => answer[r] = <<r>>
        BY DEF OutputIsOwn, Mates
    <2>1. ToSet(answer[r]) \subseteq Mates(began[r])
        BY LinesOver DEF MatesInv
    <2>2. OwnAnswers
        BY DEF MatesInv, ExecInv
    <2>3. Answered(r) => /\ ToSet(answer[r]) \subseteq {r} /\ whole[r] <= Len(answer[r])
                         /\ Len(answer[r]) <= printed[r]
        BY LinesOver DEF Answered
    <2> QED
        BY <2>1, <2>2, <2>3 DEF OwnAnswers
<1> QED
    BY <1>1, <1>2, MatesAreKept, PTL DEF ExecSpec

=============================================================================
