------------------------------- MODULE Ownership -------------------------------
(***************************************************************************)
(* ListOwners of internal/ownership.go: a listing of the resource group by   *)
(* the owner tag, a request per page, while tags and groups change.         *)
(***************************************************************************)
EXTENDS ContainerGroups

VARIABLES listing,      \* the call in progress
          listed        \* what the last call answered, with what was true meanwhile

ownershipVars == <<listing, listed>>

NotListing == [left |-> {}, filter |-> None, found |-> {}, had |-> [n \in Name |-> {}]]

OwnershipInit == listing = NotListing /\ listed = None

(* What a group's tag may say to a listing: nothing if the group is gone. *)
Tag(n) == IF group[n] = Absent THEN None ELSE group[n].owner

ListOwners ==
    /\ listing = NotListing /\ listed = None
    /\ \E o \in Owner \cup {None} :
          listing' = [left |-> Name, filter |-> o, found |-> {},
                      had |-> [n \in Name |-> {Tag(n)}]]
    /\ UNCHANGED <<groupVars, listed>>

(* Azure's filter on tag and value. *)
Matches(n) == Tag(n) # None /\ listing.filter \in {None, Tag(n)}

Page(ns) == {<<n, Tag(n)>> : n \in {m \in ns : Matches(m)}}

NextPage ==
    /\ \E ns \in SUBSET listing.left :
          /\ ns # {}
          /\ listing' = [listing EXCEPT !.left = @ \ ns, !.found = @ \cup Page(ns)]
    /\ UNCHANGED <<groupVars, listed>>

Answer == [found |-> listing.found, filter |-> listing.filter, had |-> listing.had]

LastPage ==
    /\ listing # NotListing /\ listing.left = {}
    /\ listed' = Answer
    /\ listing' = NotListing
    /\ UNCHANGED groupVars

(* Mutant: an error ends the listing like a last page. *)
PageFailedQuietly ==
    /\ listing.left # {}
    /\ Fault
    /\ listed' = Answer
    /\ listing' = NotListing
    /\ UNCHANGED <<service, group, gateway, call, kept>>

(* The error of any page is the call's. *)
PageFailed ==
    /\ listing.left # {}
    /\ Fault
    /\ listing' = NotListing
    /\ UNCHANGED <<service, group, gateway, call, kept, listed>>

(* A step of somebody else; had is auxiliary, the tags since the call began. *)
Observed ==
    /\ Others
    /\ listing' = IF listing = NotListing THEN NotListing
                  ELSE [listing EXCEPT !.had =
                          [n \in Name |-> @[n] \cup
                             {IF group'[n] = Absent THEN None ELSE group'[n].owner}]]
    /\ UNCHANGED listed

OwnershipNext == ListOwners \/ NextPage \/ LastPage \/ PageFailed \/ Observed

-----------------------------------------------------------------------------
OwnersTypeOK ==
    /\ listing.left \subseteq Name
    /\ listing.filter \in Owner \cup {None}
    /\ listing.found \subseteq Name \X Owner
    /\ listed = None \/ listed.found \subseteq Name \X Owner

(* An answer of ListOwners has every group that carried a wanted owner all   *)
(* through the call, and names no owner that a group did not have meanwhile: *)
(* not a listing cut short by a failed page, nor one that mixes up owners.   *)
OwnersListed ==
    listed # None =>
        /\ \A p \in listed.found : p[2] \in listed.had[p[1]]
        /\ \A n \in Name, o \in Owner :
              /\ listed.had[n] = {o} /\ listed.filter \in {None, o}
              => <<n, o>> \in listed.found

=============================================================================
