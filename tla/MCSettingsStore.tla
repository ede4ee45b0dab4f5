---------------------------- MODULE MCSettingsStore ----------------------------
(***************************************************************************)
(* Instances of SettingsStore for TLC.  No definition tells two keys, two  *)
(* databases, two users or two slots apart: states that differ by a        *)
(* permutation are one.                                                    *)
(***************************************************************************)
EXTENDS SettingsStore, TLC

Symmetry ==
    Permutations(Keys) \cup Permutations(Dbs) \cup Permutations(Users)
        \cup Permutations(Slots)
=============================================================================
