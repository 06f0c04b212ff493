----------------------------- MODULE SideBySide -----------------------------
(***************************************************************************)
(* Components that do not interact are checked side by side in one run:    *)
(* the initial state picks one of them, `part', and a behaviour is a       *)
(* behaviour of that component alone, so the states of the run are the     *)
(* sum, not the product, of the components' states.  The component's       *)
(* variables are v1, v2, ... in the order in which its module is           *)
(* instantiated; the variables it has no use for stay 0.                   *)
(***************************************************************************)
EXTENDS Naturals

VARIABLES part, v1, v2, v3, v4, v5, v6, v7, v8, v9, v10, v11, v12, v13, v14, v15

sides == <<part, v1, v2, v3, v4, v5, v6, v7, v8, v9, v10, v11, v12, v13, v14, v15>>

(* The component p, which has n variables, is the one that is checked. *)
Picks(p, n) ==
  /\ part = p
  /\ (n < 1 => v1 = 0) /\ (n < 2 => v2 = 0) /\ (n < 3 => v3 = 0)
  /\ (n < 4 => v4 = 0) /\ (n < 5 => v5 = 0) /\ (n < 6 => v6 = 0)
  /\ (n < 7 => v7 = 0) /\ (n < 8 => v8 = 0) /\ (n < 9 => v9 = 0)
  /\ (n < 10 => v10 = 0) /\ (n < 11 => v11 = 0) /\ (n < 12 => v12 = 0)
  /\ (n < 13 => v13 = 0) /\ (n < 14 => v14 = 0) /\ (n < 15 => v15 = 0)

(* A step of component p, which has n variables, disturbs no other one. *)
Keeps(p, n) ==
  /\ part = p /\ UNCHANGED part
  /\ (n < 1 => UNCHANGED v1) /\ (n < 2 => UNCHANGED v2) /\ (n < 3 => UNCHANGED v3)
  /\ (n < 4 => UNCHANGED v4) /\ (n < 5 => UNCHANGED v5) /\ (n < 6 => UNCHANGED v6)
  /\ (n < 7 => UNCHANGED v7) /\ (n < 8 => UNCHANGED v8) /\ (n < 9 => UNCHANGED v9)
  /\ (n < 10 => UNCHANGED v10) /\ (n < 11 => UNCHANGED v11) /\ (n < 12 => UNCHANGED v12)
  /\ (n < 13 => UNCHANGED v13) /\ (n < 14 => UNCHANGED v14) /\ (n < 15 => UNCHANGED v15)
=============================================================================
