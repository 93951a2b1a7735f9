--------------------------- MODULE MCFilterEngine ---------------------------
(***************************************************************************)
(* Small instances of FilterEngine for TLC.                                *)
(***************************************************************************)
EXTENDS FilterEngine, TLC

CONSTANTS r1, i1, i2, d1, d2, a1, w1, w2

AllOff == {[key \in Settings |-> FALSE]}
OnOrOff == {[key \in Settings |-> v] : v \in BOOLEAN}
Sets(key, value) == [key |-> key, value |-> value]

SettingsBodies ==
    {<<Sets("safe_search_enabled", v), Sets("parental_control_enabled", w),
       Sets("parental_control_level", w)>> : v, w \in BOOLEAN}
    \cup {<<Sets("parental_control_level", v)>> : v \in BOOLEAN}

NoBodies == {}

WorkerSymmetry == Permutations({w1, w2})
=============================================================================
