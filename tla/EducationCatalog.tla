--------------------------- MODULE EducationCatalog ---------------------------
(***************************************************************************)
(* The catalog of trainings: which are mandatory, by their entry, by an    *)
(* explicit list or by the prefix of their id, and their reissue for       *)
(* another year.  One process, in memory; every call is atomic.  Due dates *)
(* are left out: nothing asks whether a training has expired.              *)
(***************************************************************************)
EXTENDS Naturals

CONSTANTS
  Trainings,  \* education ids
  Prefixed,   \* those with a prefix of a mandatory training
  ReissueOf   \* the id a reissue of each gets

ASSUME CatalogAssumption ==
  /\ Prefixed \subseteq Trainings
  /\ ReissueOf \in [Trainings -> Trainings]

VARIABLES
  entry,   \* _catalog: absent, or whether the entry says mandatory
  listed   \* _mandatory_4type_ids

catalogVars == <<entry, listed>>

Kinds == {"mandatory", "optional"}

CatalogTypeOK ==
  /\ entry \in [Trainings -> Kinds \cup {"absent"}]
  /\ listed \subseteq Trainings

CatalogInit ==
  /\ entry = [e \in Trainings |-> "absent"]
  /\ listed = {}

(* The entry decides; without one the list, then the prefix. *)
IsMandatory(e) ==
  IF entry[e] # "absent" THEN entry[e] = "mandatory" ELSE e \in listed \cup Prefixed

(* An entry is replaced or made; a mandatory one is listed as well. *)
Enters(e, kind) ==
  /\ entry' = [entry EXCEPT ![e] = kind]
  /\ listed' = IF kind = "mandatory" THEN listed \cup {e} ELSE listed

RegisterEducation(e) == \E kind \in Kinds : Enters(e, kind)

RegisterMandatory(e) ==
  /\ listed' = listed \cup {e}
  /\ UNCHANGED entry

UnregisterMandatory(e) ==
  /\ listed' = listed \ {e}
  /\ UNCHANGED entry

(* Refused without a source, or when the id it would get is taken. *)
Reissue(e) ==
  /\ entry[e] # "absent"
  /\ entry[ReissueOf[e]] = "absent"
  /\ Enters(ReissueOf[e], entry[e])

CatalogNext ==
  \E e \in Trainings :
    \/ RegisterEducation(e)
    \/ RegisterMandatory(e)
    \/ UnregisterMandatory(e)
    \/ Reissue(e)
=============================================================================
