---------------------------- MODULE MCObjectStore ----------------------------
(***************************************************************************)
(* A dataset and two items, one in a folder.  Domains have a time range    *)
(* over four points and a list of up to two elements, in two formats that  *)
(* fulfil each other or in a third one.                                    *)
(***************************************************************************)
EXTENDS ObjectStore, TLC

CONSTANTS cat1, cat2

MCPoints == 0 .. 3
MCContinuousIndices == {"TIME"}
MCDiscreteIndices == {"ELEMENT_ID"}
MCFormats == {"AORC_CSV", "NETCDF_AORC_DEFAULT", "NGEN_OUTPUT"}
MCFamilies == {{"AORC_CSV", "NETCDF_AORC_DEFAULT"}}

Times(b, e) == "TIME" :> [begin |-> b, end |-> e]
Elements(l) == "ELEMENT_ID" :> l
Nothing == [i \in {} |-> None]

Domain(c, d) == [format |-> "AORC_CSV", continuous |-> c, discrete |-> d]

\* Ranges that are apart, touch or lie in each other, with one, the other or all
\* elements, and a list without a range.
MCOffered ==
    {Domain(Times(0, 1), Elements({cat1})),
     Domain(Times(2, 3), Elements({cat1})),
     Domain(Times(0, 2), Elements({cat1})),
     Domain(Times(0, 1), Elements({cat2})),
     Domain(Times(0, 2), Elements({})),
     Domain(Nothing, Elements({cat2}))}
=============================================================================
