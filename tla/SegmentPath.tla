------------------------------ MODULE SegmentPath ------------------------------
(***************************************************************************)
(* What segment routing promises: a packet that enters the fabric is given *)
(* one of the paths, visits its routers in their order, with any routers   *)
(* in between, and leaves to the host the path ends with.  It may be lost, *)
(* but it never skips a router of its path, and never leaves elsewhere.    *)
(***************************************************************************)
EXTENDS Sequences, Naturals

CONSTANTS
    Routers,  \* the routers of the fabric
    Paths     \* the paths: routers in order, and a host at the end

Nowhere == "nowhere"

VARIABLES
    path,   \* what is left of the packet's path, empty when there is no packet
    place   \* the router or the host where the packet is

pathVars == <<path, place>>

Init == path = <<>> /\ place = Nowhere

Enter ==
    /\ path = <<>>
    /\ path' \in Paths
    /\ place' \in Routers

Move ==
    /\ Len(path) > 1
    /\ place' \in Routers
    /\ UNCHANGED path

(* The router visited last hands the packet to the host in the same step. *)
Visit ==
    /\ Len(path) > 1
    /\ place = Head(path)
    /\ path' = Tail(path)
    /\ IF Len(path) = 2 THEN place' = path[2] ELSE place' \in Routers

Vanish ==
    /\ path # <<>>
    /\ path' = <<>>
    /\ place' = Nowhere

Next == Enter \/ Move \/ Visit \/ Vanish

Spec == Init /\ [][Next]_pathVars
=============================================================================
