------------------------- MODULE MCCategoryRequests -------------------------
(* Small instances of CategoryRequests.                                    *)
EXTENDS CategoryRequests

(* One of the documents is nobody's source. *)
OnePlain == \A n \in CD!Node : bound[Max(Doc)][n] # "source"

MCInit == RequestsInit /\ (asked = "deletion" => OnePlain)

MCSpec == MCInit /\ [][RequestsNext]_<<asked, vars, deletion>>
=============================================================================
