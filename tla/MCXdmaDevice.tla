---------------------------- MODULE MCXdmaDevice ----------------------------
(***************************************************************************)
(* Cards for TLC: the BAR layouts named in identify_bars, with 32-bit and  *)
(* 64-bit BARs (which take two numbers), and one card without config BAR.  *)
(***************************************************************************)
EXTENDS XdmaDevice

Card(bars, irq, h2c, c2h) ==
  [bars |-> [i \in 0 .. 5 |-> IF i < Len(bars) THEN bars[i + 1] ELSE "none"],
   irq |-> irq, channels |-> [h2c |-> h2c, c2h |-> c2h]]

CONSTANTS First, Second   \* the two cards

MCDevices == {First, Second}

MCCards ==
  [d \in MCDevices |->
    IF d = Second THEN {Card(<<"config">>, "legacy", 1, 0)}
    ELSE {Card(<<"user", "config">>, "msix", 1, 1),
          Card(<<"config", "none", "bypass">>, "msi", 0, 1),
          Card(<<"user", "none", "config", "none", "bypass">>, "msix", 1, 1),
          Card(<<"user", "config", "other", "bypass">>, "legacy", 1, 0),
          Card(<<"user">>, "legacy", 0, 0)}]
=============================================================================
