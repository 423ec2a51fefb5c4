------------------------------ MODULE Resource ------------------------------
(***************************************************************************)
(* The life of one managed resource: the host calls the ResourceDriver      *)
(* RPCs of the plugin (internal/resourcedriver_server.go), the driver of    *)
(* the resource's type (internal/driver/*.go) turns each into requests to   *)
(* Azure, and the host records the output it gets back.  A request may      *)
(* fail, before or after it took effect; somebody else may change or        *)
(* remove the Azure object; the user may edit the specification.            *)
(*                                                                         *)
(* The 13 drivers follow one scheme and differ in what the table below      *)
(* says.  The data of a resource is the one field its Diff compares.        *)
(***************************************************************************)
EXTENDS Naturals, Sequences, SequencesExt

CONSTANTS Kinds,        \* the drivers of this instance, a subset of AllKinds
          Value,        \* the values of the compared field
          Default,      \* what Create asks for when the configuration is silent
          Records,      \* the sequences of DNS record sets one may configure
          MaxFaults, MaxDrifts, MaxRemovals, MaxEdits,
          NoValue,      \* the configuration or output does not have the field
          Empty,        \* the configuration has it, as an empty string
          None, Removed, Malformed, Absent

VARIABLES kind,         \* the driver
          spec,         \* what the user wants now, or Removed
          cloud,        \* the Azure objects, by name
          saved,        \* what the host has recorded of the resource, or None
          call,         \* the driver call in progress
          report,       \* DetectDrift's last answer, with what was true of Azure
          fresh,        \* nothing changed in Azure since the last Create or Update
          deleted,      \* the object the last successful Delete was for, or None
          used          \* faults, drifts, removals and edits so far

vars == <<kind, spec, cloud, saved, call, report, fresh, deleted, used>>

-----------------------------------------------------------------------------
(* The drivers.                                                            *)
(*   compares   Diff compares a field of the configuration with the output  *)
(*   text       that field is a string, which may be empty                  *)
(*   applies    Create sends that field to Azure                            *)
(*   created    Create's output shows the field                             *)
(*   read       Read's output shows the field                               *)
(*   replaces   a change of the field has ForceNew                          *)
(*   aliases    the configuration may name the Azure object                 *)
(*   byID       Read and Delete take that name from the ProviderID          *)
(*   puts       Create and Update are an idempotent PUT, Delete of what is  *)
(*              not there succeeds                                         *)
Plain == [compares |-> TRUE, text |-> TRUE, applies |-> TRUE, created |-> TRUE, read |-> TRUE,
          replaces |-> FALSE, aliases |-> FALSE, byID |-> FALSE, puts |-> TRUE]

ACI   == Plain
AKS   == Plain
(* Diff compares "sku", Create sends "sku_name", here its default; Read has *)
(* no database to show.                                                    *)
SQL   == [Plain EXCEPT !.applies = FALSE, !.read = FALSE]
Redis == [Plain EXCEPT !.text = FALSE, !.created = FALSE, !.read = FALSE]
VNet  == [Plain EXCEPT !.replaces = TRUE]
LB    == [Plain EXCEPT !.applies = FALSE, !.created = FALSE, !.read = FALSE,
                       !.replaces = TRUE]
DNS   == [Plain EXCEPT !.replaces = TRUE, !.aliases = TRUE]
ACR   == Plain
APIM  == Plain
NSG   == [Plain EXCEPT !.text = FALSE, !.applies = FALSE, !.created = FALSE,
                       !.read = FALSE]
MSI   == [Plain EXCEPT !.compares = FALSE]
Blob  == [Plain EXCEPT !.compares = FALSE, !.aliases = TRUE, !.byID = TRUE,
                       !.puts = FALSE]
Cert  == [Plain EXCEPT !.replaces = TRUE]

AllKinds == {"aci", "aks", "sql", "redis", "vnet", "lb", "dns", "acr", "apim",
             "nsg", "msi", "blob", "cert"}

NewAll == [aci |-> ACI, aks |-> AKS, sql |-> SQL, redis |-> Redis,
           vnet |-> VNet, lb |-> LB, dns |-> DNS, acr |-> ACR, apim |-> APIM,
           nsg |-> NSG, msi |-> MSI, blob |-> Blob, cert |-> Cert]

driver == NewAll[kind]

(* What a resource may have below it: SQL's database, DNS's record sets.     *)
Part == {"database"} \cup UNION {ToSet(rs) : rs \in Records}

(* The names an Azure object may have: the resource's, and the one that    *)
(* zone_name or container_name gives.                                      *)
Name == {"own", "other"}

AllSpecs == [want : Value \cup {NoValue, Empty}, name : Name,
             records : Records \cup {Malformed}]

ASSUME ResourceAssumption ==
    /\ Kinds \subseteq AllKinds
    /\ Default \in Value /\ NoValue \notin Value /\ Empty \notin Value \cup {NoValue}
    /\ \A rs \in Records : rs \in Seq(ToSet(rs))
    /\ Absent \notin [value : Value, parts : SUBSET Part]
    /\ Removed \notin AllSpecs
    /\ None \notin [out : Value \cup {NoValue}, id : Name, spec : AllSpecs]

-----------------------------------------------------------------------------
Specs(k) == {s \in AllSpecs :
                 /\ s.want # NoValue => NewAll[k].compares
                 /\ s.want = Empty => NewAll[k].text
                 /\ s.name # "own" => NewAll[k].aliases
                 /\ s.records # <<>> => k = "dns"}

(* The requests Create sends after the first: SQL's database, DNS's record  *)
(* sets.                                                                   *)
Extra(s) == CASE kind = "sql" -> <<"database">>
              [] kind = "dns" /\ s.records # Malformed -> s.records
              [] OTHER -> <<>>

(* Mutant: the default is forgotten. *)
RequestWanted(s) == IF driver.applies THEN s.want ELSE Default

(* The field in the body of Create's request: configStr takes an empty string *)
(* for silence.                                                            *)
Request(s) == IF driver.applies /\ s.want \in Value THEN s.want ELSE Default

(* Mutant: the ProviderID is not looked at. *)
ReferredByName == "own"

(* The object a Read or Delete is for. *)
Referred == IF driver.byID THEN saved.id ELSE "own"

(* Mutant: Diff compares with what was asked for last, not with the output. *)
DiffSpecs(s, out) == driver.compares /\ s # Removed /\ s.want # saved.spec.want

(* Diff takes it for a value, which no output has. *)
Diff(s, out) == /\ driver.compares /\ s # Removed
                /\ s.want # NoValue /\ out # NoValue
                /\ s.want # out

NeedsReplace(s, out) == Diff(s, out) /\ driver.replaces

-----------------------------------------------------------------------------
Idle == [at |-> "idle"]

Call(at, s) == [at |-> at, spec |-> s, left |-> <<>>, calm |-> TRUE]

Init ==
    /\ kind \in Kinds
    /\ spec \in Specs(kind)
    /\ cloud = [n \in Name |-> Absent]
    /\ saved = None
    /\ call = Idle
    /\ report = None
    /\ fresh = FALSE
    /\ deleted = None
    /\ used = [faults |-> 0, drifts |-> 0, removals |-> 0, edits |-> 0]

Begin(at, s) == /\ call = Idle
                /\ call' = Call(at, s)
                /\ UNCHANGED <<kind, spec, cloud, saved, report, used>>

(* The host creates what it has no record of, or what Diff's nil case says. *)
CallCreate ==
    /\ saved = None /\ spec # Removed
    /\ Begin("put", spec)
    /\ fresh' = FALSE /\ deleted' = None

(* Update is Create again, except that the blob driver's only reads. *)
BeginUpdate ==
    /\ saved # None /\ spec # Removed
    /\ Begin(IF driver.puts THEN "put" ELSE "get", spec)
    /\ fresh' = FALSE /\ deleted' = None

(* The host updates what Diff tells it to. *)
CallUpdate ==
    /\ saved # None /\ spec # Removed
    /\ Diff(spec, saved.out) /\ ~NeedsReplace(spec, saved.out)
    /\ BeginUpdate

(* Plan has an update for whatever the host has a record of. *)
CallPlanned == BeginUpdate

(* A resource is deleted when it left the specification, and as the first  *)
(* half of a replacement; the second half is a Create.                     *)
CallDelete ==
    /\ saved # None
    /\ spec = Removed \/ NeedsReplace(spec, saved.out)
    /\ Begin("delete", saved.spec)
    /\ fresh' = FALSE /\ deleted' = None

CallRead ==
    /\ saved # None
    /\ Begin("get", saved.spec)
    /\ UNCHANGED <<fresh, deleted>>

CallDetectDrift ==
    /\ saved # None
    /\ Begin("detect", saved.spec)
    /\ UNCHANGED <<fresh, deleted>>

CallScale ==
    /\ saved # None /\ kind = "aks"
    /\ Begin("scale", saved.spec)
    /\ fresh' = FALSE /\ UNCHANGED deleted

-----------------------------------------------------------------------------
(* What a request to Azure comes to: an answer, an error before it took     *)
(* effect, or an error after it.                                           *)
Fault == /\ used.faults < MaxFaults
         /\ used' = [used EXCEPT !.faults = @ + 1]

Fail == /\ call' = Idle
        /\ UNCHANGED <<saved, fresh>>

(* The call succeeds: the host records the output and what it asked for. *)
Succeed(out, s, n) ==
    /\ call' = Idle
    /\ saved' = [out |-> out, id |-> n, spec |-> s]
    /\ fresh' = call.calm

Same == UNCHANGED <<kind, spec, report, deleted>>

(* The object after Azure applied Create's first request; what hangs below  *)
(* it (databases, record sets) stays.                                      *)
Stored(n, v) ==
    [cloud EXCEPT ![n] =
        [value |-> v, parts |-> IF @ = Absent THEN {} ELSE @.parts]]

(* Mutant: the output shows the default instead of what Azure answered. *)
CreateOutputDefault(v) == IF driver.created THEN Default ELSE NoValue

CreateOutput(v) == IF driver.created THEN v ELSE NoValue

(* CreateContainer refuses a container that is there already. *)
PutRefused ==
    /\ call.at = "put"
    /\ ~driver.puts /\ cloud[call.spec.name] # Absent
    /\ Fail
    /\ Same /\ UNCHANGED <<cloud, used>>

(* Create's first request is answered; the records of a zone are looked at  *)
(* only now.                                                               *)
PutDone ==
    /\ call.at = "put"
    /\ driver.puts \/ cloud[call.spec.name] = Absent
    /\ LET s == call.spec
       IN  /\ cloud' = Stored(s.name, Request(s))
           /\ CASE s.records = Malformed -> Fail
                [] s.records # Malformed /\ Extra(s) = <<>> ->
                     Succeed(CreateOutput(Request(s)), s, s.name)
                [] OTHER ->
                     /\ call' = [call EXCEPT !.at = "parts", !.left = Extra(s)]
                     /\ UNCHANGED <<saved, fresh>>
    /\ Same /\ UNCHANGED used

PutFailed ==
    /\ call.at = "put"
    /\ Fault /\ Fail
    /\ \/ UNCHANGED cloud
       \/ /\ driver.puts \/ cloud[call.spec.name] = Absent
          /\ cloud' = Stored(call.spec.name, Request(call.spec))
    /\ Same

(* The next database or record set. *)
WithPart == [cloud EXCEPT ![call.spec.name].parts = @ \cup {Head(call.left)}]

PartDone ==
    /\ call.at = "parts" /\ cloud[call.spec.name] # Absent
    /\ cloud' = WithPart
    /\ IF Len(call.left) = 1
       THEN Succeed(CreateOutput(Request(call.spec)), call.spec, call.spec.name)
       ELSE /\ call' = [call EXCEPT !.left = Tail(@)]
            /\ UNCHANGED <<saved, fresh>>
    /\ Same /\ UNCHANGED used

(* Mutant: the error of a second request is dropped. *)
PartFailedQuietly ==
    /\ call.at = "parts" /\ cloud[call.spec.name] # Absent
    /\ Fault
    /\ Succeed(CreateOutput(Request(call.spec)), call.spec, call.spec.name)
    /\ cloud' \in {cloud, WithPart}
    /\ Same

PartFailed ==
    /\ call.at = "parts" /\ cloud[call.spec.name] # Absent
    /\ Fault /\ Fail
    /\ cloud' \in {cloud, WithPart}
    /\ Same

(* Its server or zone is gone meanwhile: Azure refuses. *)
PartRefused ==
    /\ call.at = "parts" /\ cloud[call.spec.name] = Absent
    /\ Fail
    /\ Same /\ UNCHANGED <<cloud, used>>

(* Read, also as blob's Update; HealthCheck is a Read whose output is only  *)
(* looked at.  The host keeps its record when it fails.                    *)
GetDone ==
    /\ call.at = "get" /\ cloud[Referred] # Absent
    /\ call' = Idle
    /\ saved' = [saved EXCEPT
                    !.out = IF driver.read THEN cloud[Referred].value ELSE NoValue]
    /\ Same /\ UNCHANGED <<cloud, fresh, used>>

GetFailed ==
    /\ call.at = "get"
    /\ \/ cloud[Referred] = Absent /\ UNCHANGED used
       \/ Fault
    /\ Fail
    /\ Same /\ UNCHANGED cloud

(* DetectDrift reads and never sets Drifted, whatever the Read says. *)
DetectDrift ==
    /\ call.at = "detect"
    /\ UNCHANGED used \/ Fault
    /\ report' = [drifted |-> FALSE, present |-> cloud[Referred] # Absent]
    /\ Fail
    /\ UNCHANGED <<kind, spec, cloud, deleted>>

DeleteDone ==
    /\ call.at = "delete"
    /\ driver.puts \/ cloud[Referred] # Absent
    /\ cloud' = [cloud EXCEPT ![Referred] = Absent]
    /\ call' = Idle
    /\ saved' = None
    /\ deleted' = saved.id
    /\ UNCHANGED <<kind, spec, report, fresh, used>>

DeleteFailed ==
    /\ call.at = "delete"
    /\ \/ /\ ~driver.puts /\ cloud[Referred] = Absent
          /\ UNCHANGED <<cloud, used>>
       \/ /\ Fault
          /\ cloud' \in {cloud, [cloud EXCEPT ![Referred] = Absent]}
    /\ Fail
    /\ Same

(* Mutant: the version of the configuration is put back, as in Create. *)
ScaleGetWanted ==
    /\ call.at = "scale"
    /\ \/ /\ cloud["own"] # Absent
          /\ call' = [call EXCEPT !.at = "putback", !.left = <<Request(call.spec)>>,
                               !.calm = TRUE]
          /\ UNCHANGED <<saved, fresh, used>>
       \/ cloud["own"] = Absent /\ Fail /\ UNCHANGED used
       \/ Fault /\ Fail
    /\ Same /\ UNCHANGED cloud

(* Only AKS scales: it gets the cluster and puts all of it back with        *)
(* another node count.  From here on calm is about the time after the Get.   *)
ScaleGet ==
    /\ call.at = "scale"
    /\ \/ /\ cloud["own"] # Absent
          /\ call' = [call EXCEPT !.at = "putback", !.left = <<cloud["own"].value>>,
                               !.calm = TRUE]
          /\ UNCHANGED <<saved, fresh, used>>
       \/ cloud["own"] = Absent /\ Fail /\ UNCHANGED used
       \/ Fault /\ Fail
    /\ Same /\ UNCHANGED cloud

ScalePut ==
    /\ call.at = "putback"
    /\ \/ /\ cloud' = Stored("own", Head(call.left))
          /\ call' = Idle
          /\ saved' = [saved EXCEPT !.out = Head(call.left)]
          /\ UNCHANGED <<fresh, used>>
       \/ /\ Fault /\ Fail
          /\ cloud' \in {cloud, Stored("own", Head(call.left))}
    /\ Same

-----------------------------------------------------------------------------
(* What others do: Azure objects are changed or removed behind the host, *)
(* the user edits the specification or drops the resource from it.        *)
Disturb == /\ fresh' = FALSE
           /\ call' = IF call = Idle THEN Idle ELSE [call EXCEPT !.calm = FALSE]
           /\ UNCHANGED <<kind, spec, saved, report, deleted>>

Drift ==
    /\ used.drifts < MaxDrifts
    /\ used' = [used EXCEPT !.drifts = @ + 1]
    /\ \E n \in Name, v \in Value :
          /\ cloud[n] # Absent /\ cloud[n].value # v
          /\ cloud' = [cloud EXCEPT ![n].value = v]
    /\ Disturb

Vanish ==
    /\ used.removals < MaxRemovals
    /\ used' = [used EXCEPT !.removals = @ + 1]
    /\ \E n \in Name : cloud[n] # Absent /\ cloud' = [cloud EXCEPT ![n] = Absent]
    /\ Disturb

Edit ==
    /\ used.edits < MaxEdits
    /\ used' = [used EXCEPT !.edits = @ + 1]
    /\ spec' \in Specs(kind) \ {spec}
    /\ UNCHANGED <<kind, cloud, saved, call, report, fresh, deleted>>

Retire ==
    /\ spec # Removed /\ spec' = Removed
    /\ UNCHANGED <<kind, cloud, saved, call, report, fresh, deleted, used>>

Apply == CallCreate \/ CallUpdate \/ CallDelete

Azure == \/ PutRefused \/ PutDone \/ PutFailed
         \/ PartDone \/ PartFailed \/ PartRefused
         \/ GetDone \/ GetFailed \/ DetectDrift
         \/ DeleteDone \/ DeleteFailed \/ ScaleGet \/ ScalePut

Next == \/ Apply \/ CallPlanned \/ CallRead \/ CallDetectDrift \/ CallScale
        \/ Azure
        \/ Drift \/ Vanish \/ Edit \/ Retire

Spec == Init /\ [][Next]_vars

(* The host refreshes and applies again and again, and Azure answers.       *)
(* Strong fairness: whatever a call is waiting for, the host has one call   *)
(* under way at a time and comes back to it.                               *)
Fairness == /\ WF_vars(Azure)
            /\ SF_vars(CallCreate) /\ SF_vars(CallUpdate)
            /\ SF_vars(CallDelete) /\ SF_vars(CallRead)

LiveSpec == Spec /\ Fairness

-----------------------------------------------------------------------------
(* Every variable has its type. *)
TypeOK ==
    /\ kind \in Kinds
    /\ spec \in AllSpecs \cup {Removed}
    /\ cloud \in [Name -> [value : Value, parts : SUBSET Part] \cup {Absent}]
    /\ saved = None \/ saved \in [out : Value \cup {NoValue}, id : Name, spec : AllSpecs]
    /\ \/ call = Idle
       \/ /\ call.at \in {"put", "parts", "get", "detect", "delete", "scale", "putback"}
          /\ call.spec \in AllSpecs
          /\ call.at = "parts" => call.left # <<>>
    /\ report = None \/ report \in [drifted : BOOLEAN, present : BOOLEAN]
    /\ fresh \in BOOLEAN
    /\ deleted \in Name \cup {None}

(* When a Create or Update succeeded and nobody touched Azure since it      *)
(* began, the object is there with the value asked for, or the default if   *)
(* none was, and with everything below it, the database or all the record   *)
(* sets: an error of any request on the way must have come out as an error  *)
(* of the call, and a retry must have filled in what the failed attempt     *)
(* left out.                                                               *)
Applied ==
    fresh =>
        LET o == cloud[saved.id]
        IN  /\ o # Absent
            /\ driver.applies =>
                 o.value = IF saved.spec.want \in Value THEN saved.spec.want ELSE Default
            /\ ToSet(Extra(saved.spec)) \subseteq o.parts

(* Read and Delete look for the object under the name Create gave it.  Not   *)
(* so for a DNS zone whose configuration has a zone_name.                   *)
Addressed(n) == n = "own" \/ driver.byID

(* What Create, Update or a later Read reported does not differ from what was asked  *)
(* for while nobody touched Azure: Diff would otherwise ask for the same     *)
(* update after every apply, or for a replacement of what is right.         *)
(* For the drivers whose Create sends the field that Diff compares, and a    *)
(* field that is not an empty string: Create reads that as the default and   *)
(* Diff as a value, so that Diff never settles (EmptyNeverSettles).          *)
Settles ==
    fresh /\ driver.applies /\ Addressed(saved.id) /\ saved.spec.want # Empty =>
        ~Diff(saved.spec, saved.out)

(* The object a Create made is the object a successful Delete removes,      *)
(* under whatever name the configuration gave it and whatever failed or     *)
(* was retried in between.                                                 *)
Gone ==
    deleted # None /\ Addressed(deleted) => cloud[deleted] = Absent

(* Scale puts back a cluster whose version is what it was, be that the       *)
(* version of the configuration or one that somebody else upgraded it to, and *)
(* its children with it; it makes no cluster where there was none.  Unless    *)
(* somebody else changed or removed it between the Get and the PUT.          *)
ScaleKeeps ==
    [][call.at = "putback" /\ call.calm /\ call' = Idle => cloud' = cloud]_vars

(* Once the user, others and the network leave the resource alone, the      *)
(* host's loop brings it to the specification and keeps it there: a change  *)
(* made behind its back is seen by Read and Diff and undone, through a      *)
(* replacement where the field cannot be changed in place, and after        *)
(* requests that failed half-way.  For the drivers that send, show and      *)
(* compare the field, a field that is not an empty string, and a zone that  *)
(* was not created under another name; an object that is recorded and no    *)
(* longer there is not put back: the errors of Read all look alike          *)
(* (MissingIsDrift).                                                       *)
Tracked == /\ driver.compares /\ driver.applies /\ driver.read
           /\ spec # Removed /\ spec.want \in Value
           /\ spec.name = "own" /\ spec.records # Malformed
           /\ saved # None => saved.id = "own" /\ cloud["own"] # Absent

AsWanted == /\ saved # None
            /\ cloud["own"] # Absent /\ cloud["own"].value = spec.want

Converges == <>[](Tracked => AsWanted)

(* What internal/iacserver.go says of DetectDrift, that it checks existence *)
(* at least: what it does not report as drifted was there.                 *)
MissingIsDrift == report # None /\ ~report.drifted => report.present

(* What the drivers' tests say of Diff: it asks for an update when the      *)
(* field the user wants is not the one that was last applied, both being    *)
(* values.                                                                 *)
ChangeIsSeen ==
    fresh /\ spec # Removed /\ {spec.want, saved.spec.want} \subseteq Value =>
        (spec.want # saved.spec.want => Diff(spec, saved.out))

(* What internal/provider.go says of Destroy, that it deletes the           *)
(* resources: what was created is gone, under whatever name.               *)
DestroyDeletes == deleted # None => cloud[deleted] = Absent

=============================================================================
