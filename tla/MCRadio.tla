------------------------------ MODULE MCRadio ------------------------------
(* Two repeaters, both in the list at boot.                                *)
EXTENDS MonRadio

CONSTANTS a, b
MCNodes == {a, b}
MCStart == <<a, b>>
============================================================================
