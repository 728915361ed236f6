-------------------------- MODULE CategoryRequests --------------------------
(***************************************************************************)
(* The long requests to the tree of categories: copying and moving several *)
(* (CategoryBulk), and deleting one (CategoryDelete).  `asked' says which  *)
(* it is; the state of the other rests.                                    *)
(***************************************************************************)
EXTENDS CategoryBulk

CONSTANTS MaxTree, Doc, PageSize     \* CategoryDelete; MaxTree is its MaxNode

VARIABLES asked,
          parent, live, bound, gone, target, force, call, frames, sourceDocIDs, page, items

CD == INSTANCE CategoryDelete WITH MaxNode <- MaxTree, None <- NULL,
                                   step <- call, todo <- frames

ASSUME DeletionAssumption == CD!DeleteAssumption

deletion == <<parent, live, bound, gone, target, force, call, frames, sourceDocIDs, page, items>>

RestingBulk ==
    /\ kids = [p \in Place |-> <<>>] /\ name = [n \in Node |-> NULL]
    /\ request = Idle /\ step = "idle"
    /\ todo = <<>> /\ rest = <<>> /\ label = NULL /\ cache = NoNames
    /\ root = NULL /\ made = <<>> /\ origin = <<>> /\ moved = 0
    /\ ordered = <<>> /\ undo = <<>> /\ before = kids
    /\ copyOf = [n \in Node |-> NULL] /\ lost = FALSE /\ spoiled = FALSE

RestingDeletion ==
    /\ parent = [n \in CD!Node |-> NULL] /\ live = {} /\ gone = {}
    /\ bound = [d \in Doc |-> [n \in CD!Node |-> NULL]]
    /\ target = NULL /\ force = FALSE /\ call = "idle" /\ frames = <<>>
    /\ sourceDocIDs = {} /\ page = 1 /\ items = {}

RequestsInit == \/ asked = "bulk" /\ Init /\ RestingDeletion
                \/ asked = "deletion" /\ CD!Init /\ RestingBulk

RequestsNext == /\ UNCHANGED asked
                /\ \/ asked = "bulk" /\ Next /\ UNCHANGED deletion
                   \/ asked = "deletion" /\ CD!Next /\ UNCHANGED vars

RequestsSpec == RequestsInit /\ [][RequestsNext]_<<asked, vars, deletion>>
-----------------------------------------------------------------------------
(* A deletion takes from below, the documents of a node before the node,   *)
(* and no document that is not an output of a node it deletes, whichever   *)
(* call fails (deleteCategoryRecursive): see CategoryDelete.               *)
TreeStands == asked = "deletion" => CD!DeletionSound

(* What a copy makes is complete, and can be told apart; a node stays in   *)
(* one place (copyCategoryRecursive): see CategoryBulk.                    *)
CopiesStand == TypeOK /\ CopySound
=============================================================================
