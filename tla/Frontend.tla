------------------------------ MODULE Frontend ------------------------------
(***************************************************************************)
(* The page with the picker of the station to leave from in full detail;   *)
(* the picker of the destination is the same component, and stays the      *)
(* choice of a station.  The value of the picker is the form's: what it    *)
(* passes up is a step of the page, and a value the page changes reaches   *)
(* it from outside.                                                        *)
(***************************************************************************)
EXTENDS SearchPage

CONSTANTS Texts, LabelOf, Found

ASSUME FrontendAssumption ==
  /\ "" \in Texts /\ NoStation \notin Stations /\ Unknown \notin Stations
  /\ LabelOf \in [Stations -> Texts \ {""}]
  /\ Found \in [Texts -> Seq(Stations)]
  /\ PageSize \in Nat \ {0} /\ Now \in Whens /\ Orders \subseteq SortKeys
  /\ Null \notin SortKeys \cup {"1"} /\ \A ts \in SUBSET Trains : Null # ts
  /\ \A s \in Searches :       \* the ranks are those the API gives, all different
       /\ JourneysOf[s] \in Seq(JourneyRecords)
       /\ \A i, k \in DOMAIN JourneysOf[s] : JourneysOf[s][i].rank = JourneysOf[s][k].rank => i = k
  /\ \A u \in Urls : u.when \in Whens \cup {Null} /\ u.xtrain \in {Null} \cup SUBSET Trains

VARIABLES text, hits, open, active, loading, lookup

vars == <<pageVars, text, hits, open, active, loading, lookup>>

From == INSTANCE StationPicker WITH value <- form.from

Init == PageInit /\ From!Blank(NoStation)

(* The form, and with it the picker, is there once the page is ready. *)
Alone   == phase = "ready" /\ UNCHANGED pageVars /\ From!Quiet
Typing  == \E t \in Texts :
             /\ IF form.from = NoStation THEN UNCHANGED pageVars ELSE PickFrom(NoStation)
             /\ phase = "ready" /\ From!Type(t)
Choosing == \E i \in DOMAIN hits : PickFrom(hits[i]) /\ From!Choose(i)

PageSteps ==
  /\ OtherPageSteps
  /\ IF phase = "ready" /\ phase' = "ready" THEN From!Outside(form'.from) ELSE From!Mount(form'.from)

Next == Alone \/ Typing \/ Choosing \/ PageSteps

Spec == Init /\ [][Next]_vars

TypeOK == PageTypeOK /\ From!TypeOK

PickerSound == From!PickerSound
=============================================================================
