------------------------- MODULE MCFilamentMapping -------------------------
(* Instances of FilamentMapping for TLC: a dual-nozzle printer with an AMS  *)
(* on each nozzle and a printer with one AMS and an external spool.         *)
EXTENDS FilamentMapping, TLC

CONSTANTS p1, p2, Gfa, PLA, CF, CF12

Red   == <<255, 0, 0>>
Brick == <<215, 40, 0>>   \* as far from Red as counts as similar
Blue  == <<0, 0, 255>>

Tray(u, s, t, c, i, left) ==
    [unit |-> u, slot |-> s, type |-> t, color |-> c, idx |-> i, remain |-> left]

Dual(b, left) ==
    [tray |-> <<Tray(0, 0, PLA, Brick, Gfa, 50), Tray(0, 1, PLA, Red, Gfa, left),
                Tray(128, 0, PLA, Red, NoIdx, -1)>>,
     vt |-> << >>, extruder |-> (0 :> 0) @@ (128 :> 1),
     nozzle2 |-> TRUE, fts |-> FALSE, backup |-> b, grams |-> (0 :> 20)]

Single ==
    [tray |-> <<Tray(0, 0, CF12, Red, NoIdx, 90), Tray(0, 1, NoType, NoColor, NoIdx, -1),
                Tray(0, 2, PLA, Blue, Gfa, 30), Tray(0, 3, PLA, Blue, Gfa, 10)>>,
     vt |-> <<Tray(255, 254, PLA, Red, NoIdx, -1)>>, extruder |-> << >>,
     nozzle2 |-> FALSE, fts |-> FALSE, backup |-> Nothing, grams |-> << >>]
Empty == [Single EXCEPT !.tray = << >>, !.vt = << >>]

Contents ==
    (p1 :> {Dual(TRUE, 10), [Dual(FALSE, 90) EXCEPT !.fts = TRUE]}) @@
    (p2 :> {Single, Empty})

Need(s, t, c, i, n) == [slot |-> s, type |-> t, color |-> c, idx |-> i, nozzle |-> n]

Files ==
    { <<Need(1, PLA, Red, Gfa, 0), Need(2, PLA, Red, NoIdx, 1), Need(3, PLA, Red, NoIdx, 1)>>,
      <<Need(3, PLA, Blue, Gfa, NoNozzle), Need(1, CF, Red, NoIdx, NoNozzle)>> }

Groups == {{CF, CF12}}
=============================================================================
