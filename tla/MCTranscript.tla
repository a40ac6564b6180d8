---------------------------- MODULE MCTranscript ----------------------------
(* Two ordinary messages, one that looks like an injected block, a /reset  *)
(* and a slash command, in any order; a working file of three rows; one    *)
(* crash and one failed write.                                             *)
EXTENDS Transcript, TLC

CONSTANTS m1, m2, m3, r1, l1

MCTurns    == {m1, m2, m3, r1, l1}
MCKindOf   == [t \in Turns |-> CASE t = m3 -> "marked"
                                 [] t = r1 -> "reset"
                                 [] t = l1 -> "slash"
                                 [] OTHER  -> "message"]
MCFewTurns == {m1, m2}
MCSymmetry == Permutations({m1, m2})

=============================================================================
