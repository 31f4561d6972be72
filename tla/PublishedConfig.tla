--------------------------- MODULE PublishedConfig ---------------------------
(***************************************************************************)
(* What the apply path promises the nodes: one configuration register that *)
(* changes as a whole, only to a set nginx accepts, and whose version      *)
(* counts the changes.  Files, lock, validation and rollback are not       *)
(* visible here.                                                           *)
(***************************************************************************)
EXTENDS Naturals

CONSTANTS ValidConfigs, InitialConfig

VARIABLES cfg, ver

Init == cfg = InitialConfig /\ ver = 0

Publish ==
    /\ cfg' \in ValidConfigs \ {cfg}
    /\ ver' = ver + 1

Spec == Init /\ [][Publish]_<<cfg, ver>>
=============================================================================
