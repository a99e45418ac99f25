------------------------- MODULE MCInputStreamSession -------------------------
(***************************************************************************)
(* Hands that rest, that hold a button and a trigger, and that hold the    *)
(* other trigger with the sticks in two positions, beyond their range, on  *)
(* and off the dead zone; the profiles of the repository's input.cfg, one  *)
(* named like the built-in one, and incomplete ones.                       *)
(***************************************************************************)
EXTENDS InputStreamSession

SomePads ==
    {Rest,
     [keys |-> {0, ZL}, left |-> 0, right |-> 0],
     [keys |-> {0, 20, ZR}, left |-> -170, right |-> 40],
     [keys |-> {0, 20, ZR}, left |-> 80, right |-> -20]}

SomeFiles ==
    {{},
     {[name |-> "Mouse Support", type |-> "keyboard"], [name |-> "Xbox 360", type |-> "x360"]},
     {[name |-> "Default", type |-> "keyboard"]},
     {[name |-> Missing, type |-> "keyboard"], [name |-> "Default", type |-> Missing]}}
=============================================================================
