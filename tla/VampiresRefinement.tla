------------------------- MODULE VampiresRefinement -------------------------
(***************************************************************************)
(* Vampires implements VampiresGame.  The history variable `before` holds  *)
(* the coordinates at the time the running call began: the game sees what  *)
(* a call did when it returns.                                             *)
(***************************************************************************)
EXTENDS Vampires

VARIABLE before

HistoryInit == Init /\ before = at

HistoryNext == Next /\ before' = IF pc' = "idle" THEN at' ELSE before

HistorySpec == HistoryInit /\ [][HistoryNext]_<<vars, before>>

Game == INSTANCE VampiresGame WITH
  at <- before,
  turn <- CASE pc = "idle"              -> "none"
            [] pc \in {"scan", "push"}  -> "player"
            [] pc = "vampires"          -> "vampires"

(* Whatever the loops of vampires.cpp do, the caller sees one step of the  *)
(* rules: the whole row of walls moves by one cell or nothing moves, a     *)
(* vampire steps at most once, "lost" does not depend on the order of the  *)
(* vampires, and "win" is returned only when every vampire is walled in.   *)
ImplementsGame == Game!GameSpec

=============================================================================
