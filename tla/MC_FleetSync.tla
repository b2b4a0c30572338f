---------------------------- MODULE MC_FleetSync ----------------------------
(* Small instances of FleetSync.                                           *)
EXTENDS FleetSync

(* Profiles, phones and licences are alike from the first state on, so the *)
(* driver there is at first may be taken to hold given ones.  The second   *)
(* profile is complete and has a car of its own at first; the first one    *)
(* may lack anything, and its driver may be in either car.  A change of    *)
(* the park may then give any profile anything.                            *)
ReducedInit ==
  /\ Init
  /\ park["y1"].car \in {None, "v1"}
  /\ park["y2"].car = "v2" /\ None \notin {park["y2"].phone, park["y2"].licence}
  /\ \A i \in DOMAIN drivers :
       /\ drivers[i].profile \in {"y1", None}
       /\ drivers[i].phone = "p1"
       /\ drivers[i].licence = "l1"

ReducedSpec == ReducedInit /\ [][Next]_vars /\ Fairness
=============================================================================
