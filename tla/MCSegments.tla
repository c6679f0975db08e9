------------------------------ MODULE MCSegments ------------------------------
(* A small instance of Segments: a filter that matches the contact and one *)
(* that matches nobody, so that a change of either moves it.               *)
EXTENDS Segments

CONSTANT active        \* the profile of a contact that is not archived

TwoFilters == {{active}, {}}
FilterOfActive == {active}
=============================================================================
