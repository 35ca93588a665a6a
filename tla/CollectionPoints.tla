-------------------------- MODULE CollectionPoints --------------------------
(***************************************************************************)
(* The panel over a catalog: people look for an address and load or edit   *)
(* entries, each of them one thing at a time.  What the geocoder found is a *)
(* help to fill in the form, and no request of the catalog looks at it.    *)
(***************************************************************************)
EXTENDS Catalog, Geocoding

\* The same people.
ASSUME CollectionPointsAssumption == Searchers = Editors

vars == <<catalogVars, geocodingVars>>

Init == CatalogInit /\ GeocodingInit

\* Whoever waits for addresses sends nothing else, and the other way round.
Next ==
  \/ /\ \E m \in Editors : answer[m] = "none" /\ Edit(m)
     /\ UNCHANGED geocodingVars
  \/ /\ \/ \E m \in Editors : Receive(m) \/ (pc[m] = "idle" /\ Search(m))
        \/ Chain \/ Tick
     /\ UNCHANGED catalogVars

FairSpec == Init /\ [][Next]_vars /\ GeocodingFairness

\* The types of both.
TypeOK == CatalogTypeOK /\ GeocodingTypeOK
=============================================================================
