---------------------------- MODULE MCThreadMem ----------------------------
(***************************************************************************)
(* ThreadMem for TLC.  Frames are alike, so two states that differ only in *)
(* which frame is where are one state: what a state looks like is, for     *)
(* each frame, the places that refer to it.                                *)
(***************************************************************************)
EXTENDS ThreadMem, TLC

Places(f) ==
  {<<"table", p>> : p \in {q \in Tasks : f \in table[q]}}
    \cup {<<"new table", p>> : p \in {q \in Tasks : f \in image[q].table}}
    \cup {x \in Tasks \X Pages : pt[x[1]][x[2]] = f}
    \cup {<<"new", x>> : x \in {y \in Tasks \X Pages : image[y[1]].pt[y[2]] = f}}

Shape ==
  <<p_vars, sz, mem_pc, i, goal, child, panicked, Cardinality(free),
    {<<Places(f), f \in free>> : f \in Frames}>>

(* With that view, kalloc() may as well take the lowest frame. *)
FirstFit == \A f \in free \ free', g \in free \cap free' : f < g

Slots == Permutations(Tasks \ {inittask})
=============================================================================
