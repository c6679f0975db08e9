--------------------------- MODULE MCLandingPages ---------------------------
(* What the guide says of drafts and their images, for TLC.                *)
EXTENDS LandingPages

CONSTANT request

OneRequest == {request}
AnImage == {{"generation", "image"}}
NothingRare == {{}}
Documents == {[kind |-> "document", status |-> None]}
=============================================================================
