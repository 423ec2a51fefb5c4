---------------------------- MODULE ContainerGroups ----------------------------
(***************************************************************************)
(* The container groups of one application and the application gateway in   *)
(* front of them, as the deployment drivers (internal/driver/deploy.go) and  *)
(* the owner tags (internal/ownership.go) find them, with everybody else     *)
(* who writes them: the infrastructure drivers of the same plugin, the       *)
(* SetOwner RPC, and others.                                                *)
(***************************************************************************)
EXTENDS Naturals

CONSTANTS Image, Owner, Addr,
          Old,          \* the image that runs before a deployment
          Home,         \* the address of the group that runs it
          FirstOwner,   \* the owners it may have then
          MaxFaults, MaxOthers,
          None, Absent

VARIABLES service,      \* what the host does in this instance
          group,        \* the container groups, by name
          gateway,      \* the gateway: whether SwitchTraffic finds its pool, the
                        \* address the traffic goes to, and the rest; or None
          call,         \* the deployment call in progress
          kept,         \* the owner and the rest of the gateway that were last
                        \* acknowledged and that nobody may have overwritten
          used          \* faults and acts of others so far

groupVars == <<service, group, gateway, call, kept, used>>

(* [name], and [name]-green or [name]-canary. *)
Name == {"base", "side"}

Group == [image : Image, owner : Owner \cup {None}, ip : Addr,
          state : {"Succeeded", "Failed"}]

(* A gateway has a pool of the configured name, or only others (one of that   *)
(* name but without properties is no better), or no properties at all.       *)
Gateway == [has : {"named", "others", "nothing"}, pool : Addr, rest : Nat]

ASSUME ContainerGroupsAssumption ==
    /\ Old \in Image /\ Home \in Addr
    /\ FirstOwner \subseteq Owner \cup {None}
    /\ None \notin Owner /\ None \notin Addr
    /\ Absent \notin Group /\ None \notin Gateway
    /\ \A a \in Addr : Addr # {a}

-----------------------------------------------------------------------------
Idle == [at |-> "idle"]

Alive == {n \in Name : group[n] # Absent}

(* Azure ignores address and state in the body of a PUT: a new group gets a  *)
(* free address, an existing one keeps its own.                             *)
Provisioned(n, cg, state) ==
    {[cg EXCEPT !.ip = a, !.state = state] :
        a \in IF n \in Alive THEN {group[n].ip}
              ELSE Addr \ {group[m].ip : m \in Alive}}

Fault == /\ used.faults < MaxFaults
         /\ used' = [used EXCEPT !.faults = @ + 1]

(* An act of somebody else. *)
Act(a) == /\ used.tags + used.applies + used.removals + used.edits < MaxOthers
          /\ used' = [used EXCEPT ![a] = @ + 1]

At(o, a) == [image |-> Old, owner |-> o, ip |-> a, state |-> "Succeeded"]

(* What is beside the base group: nothing before a deployment, a group of any *)
(* owner before a listing.                                                  *)
Beside == IF service = "owners"
          THEN {At(o, a) : o \in Owner \cup {None}, a \in Addr \ {Home}} ELSE {Absent}

Gateways == [has : {"named", "others", "nothing"}, pool : {Home}, rest : {0}]

GroupsInit ==
    /\ \E o \in FirstOwner, side \in Beside :
          /\ group = [n \in Name |-> IF n = "base" THEN At(o, Home) ELSE side]
          /\ kept = [owner |-> o, rest |-> 0]
    /\ gateway \in {None} \cup (IF service = "bluegreen" THEN Gateways ELSE {})
    /\ call = Idle
    /\ used = [faults |-> 0, applies |-> 0, removals |-> 0, tags |-> 0,
               edits |-> 0, restarts |-> 0]

-----------------------------------------------------------------------------
(* A group was written by somebody else during the call. *)
Disturb == call' = IF call = Idle THEN Idle ELSE [call EXCEPT !.calm = FALSE]

(* A deployment call has read n and is about to write it back. *)
WritingBack(n) ==
    call.at = "put" /\ n = "base" /\ call.op \in {"update", "promote"}

(* SetOwner merges the owner tag into the tags of the group.  Its answer may *)
(* be lost; a write-back of what was read before may undo it.               *)
SetOwner ==
    /\ Act("tags")
    /\ \E n \in Alive, o \in Owner :
          /\ group' = [group EXCEPT ![n].owner = o]
          /\ kept' \in IF n # "base" THEN {kept}
                       ELSE {[kept EXCEPT !.owner = p] :
                                p \in {None} \cup (IF WritingBack(n) THEN {} ELSE {o})}
    /\ UNCHANGED <<service, gateway, call>>

(* Create or Update of the ACI resource driver: a PUT of the group the       *)
(* configuration describes, without tags.                                   *)
ApplyGroup ==
    /\ Act("applies")
    /\ \E i \in Image, a \in Addr :
       \E cg \in Provisioned("base", [image |-> i, owner |-> None, ip |-> a,
                                      state |-> "Succeeded"], "Succeeded") :
          group' = [group EXCEPT !["base"] = cg]
    /\ kept' = [kept EXCEPT !.owner = None]
    /\ Disturb
    /\ UNCHANGED <<service, gateway>>

RemoveGroup ==
    /\ Act("removals")
    /\ \E n \in Alive :
          /\ group' = [group EXCEPT ![n] = Absent]
          /\ kept' = IF n = "base" THEN [kept EXCEPT !.owner = None] ELSE kept
    /\ Disturb
    /\ UNCHANGED <<service, gateway>>

(* A listener, a rule or another pool of the gateway is changed. *)
EditGateway ==
    /\ Act("edits")
    /\ gateway # None
    /\ gateway' = [gateway EXCEPT !.rest = used.edits + 1]
    /\ kept' = [kept EXCEPT !.rest = IF call.at = "putgw" THEN None
                                     ELSE used.edits + 1]
    /\ UNCHANGED <<service, group, call>>

Others == SetOwner \/ ApplyGroup \/ RemoveGroup \/ EditGateway

=============================================================================
