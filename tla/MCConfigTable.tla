----------------------------- MODULE MCConfigTable -----------------------------
(* Bounds for ConfigTable.                                                    *)
EXTENDS ConfigTable, TLC
================================================================================
