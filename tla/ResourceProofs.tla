----------------------------- MODULE ResourceProofs -----------------------------
(***************************************************************************)
(* The life of a resource, for every driver and any values, record sets,     *)
(* failures, drifts, removals and edits.                                    *)
(***************************************************************************)
EXTENDS Resource, TLAPS

Object == [value : Value, parts : SUBSET Part]

Clouds == [Name -> Object \cup {Absent}]

Saved == [out : Value \cup {NoValue}, id : Name, spec : AllSpecs]

CallType == [at : {"put", "parts", "get", "detect", "delete", "scale", "putback"},
             spec : AllSpecs, left : Seq(Part \cup Value), calm : BOOLEAN]

(* The calls that are for a recorded resource.                               *)
OfRecord == {"get", "detect", "delete", "scale", "putback"}

(* The call in progress has what it needs; a resource is fresh only outside    *)
(* the calls that write, and nothing is under way after a Delete.            *)
CallInv ==
    /\ call = Idle \/ call \in CallType
    /\ call.at \in OfRecord => saved \in Saved
    /\ call.at = "parts" => call.left # <<>> /\ call.left \in Seq(Part)
    /\ call.at = "putback" => \E v \in Value : call.left = <<v>>
    /\ fresh => saved \in Saved /\ call.at \in {"idle", "get", "detect"}
    /\ deleted # None => saved = None /\ call = Idle

(* The first request took effect, and so did those that are no longer left.    *)
PartsInv ==
    call.at = "parts" /\ call.calm =>
        LET o == cloud[call.spec.name]
        IN  /\ o # Absent /\ o.value = Request(call.spec)
            /\ ToSet(Extra(call.spec)) \subseteq o.parts \cup ToSet(call.left)

(* What Scale is about to put back is what is there.                         *)
ScaleInv ==
    call.at = "putback" /\ call.calm =>
        cloud["own"] # Absent /\ call.left = <<cloud["own"].value>>

LifeInv == TypeOK /\ CallInv /\ PartsInv /\ ScaleInv /\ Applied /\ Settles /\ Gone

-----------------------------------------------------------------------------
(* The parts of the invariant, of the values of the variables after a step.    *)

PartsOf(c, cl) ==
    c.at = "parts" /\ c.calm =>
        /\ cl[c.spec.name] # Absent /\ cl[c.spec.name].value = Request(c.spec)
        /\ ToSet(Extra(c.spec)) \subseteq cl[c.spec.name].parts \cup ToSet(c.left)

AppliedOf(f, cl, sv) ==
    f => /\ cl[sv.id] # Absent
         /\ driver.applies =>
              cl[sv.id].value = IF sv.spec.want \in Value THEN sv.spec.want ELSE Default
         /\ ToSet(Extra(sv.spec)) \subseteq cl[sv.id].parts

SettlesOf(f, sv) ==
    f /\ driver.applies /\ Addressed(sv.id) /\ sv.spec.want # Empty =>
        ~Diff(sv.spec, sv.out)

GoneOf(dl, cl) == dl # None /\ Addressed(dl) => cl[dl] = Absent

LEMMA BeforeStep ==
    /\ PartsInv <=> PartsOf(call, cloud)
    /\ Applied <=> AppliedOf(fresh, cloud, saved)
    /\ Settles <=> SettlesOf(fresh, saved)
    /\ Gone <=> GoneOf(deleted, cloud)
  BY DEF PartsInv, PartsOf, Applied, AppliedOf, Settles, SettlesOf, Gone, GoneOf

(* The driver of a resource does not change.                                 *)
LEMMA AfterStep ==
    ASSUME UNCHANGED kind
    PROVE  /\ PartsInv' <=> PartsOf(call', cloud')
           /\ Applied' <=> AppliedOf(fresh', cloud', saved')
           /\ Settles' <=> SettlesOf(fresh', saved')
           /\ Gone' <=> GoneOf(deleted', cloud')
<1>1. driver' = driver
  BY DEF driver
<1>2. \A s : Extra(s)' = Extra(s)
  BY DEF Extra
<1>3. PartsInv' <=> PartsOf(call', cloud')
  BY <1>1 DEF PartsInv, PartsOf, Request, Extra
<1>4. Applied' <=> AppliedOf(fresh', cloud', saved')
  BY <1>1 DEF Applied, AppliedOf, Extra
<1>5. Settles' <=> SettlesOf(fresh', saved')
  BY <1>1 DEF Settles, SettlesOf, Diff, Addressed
<1>6. Gone' <=> GoneOf(deleted', cloud')
  BY <1>1 DEF Gone, GoneOf, Addressed
<1> QED
  BY <1>3, <1>4, <1>5, <1>6

LEMMA RequestType == \A s \in AllSpecs : Request(s) \in Value
  BY ResourceAssumption DEF Request, AllSpecs

LEMMA ExtraType ==
    ASSUME NEW s \in AllSpecs
    PROVE  Extra(s) \in Seq(Part) /\ ToSet(Extra(s)) \subseteq Part
<1>1. CASE kind = "sql"
  <2>1. Extra(s) = <<"database">> /\ "database" \in Part
    BY <1>1 DEF Extra, Part
  <2> QED
    BY <2>1 DEF ToSet
<1>2. CASE kind = "dns" /\ s.records # Malformed
  <2>1. s.records \in Records /\ Extra(s) = s.records
    BY <1>2 DEF AllSpecs, Extra
  <2>2. s.records \in Seq(ToSet(s.records)) /\ ToSet(s.records) \subseteq Part
    BY <2>1, ResourceAssumption DEF Part
  <2> QED
    BY <2>1, <2>2 DEF ToSet
<1>3. CASE ~(kind = "sql" \/ (kind = "dns" /\ s.records # Malformed))
  BY <1>3 DEF Extra, ToSet
<1> QED
  BY <1>1, <1>2, <1>3

(* What the sequence of a call's further requests contains.                   *)
LEMMA HeadAndTail ==
    ASSUME NEW q \in Seq(Part), q # <<>>
    PROVE  /\ Head(q) \in Part
           /\ Tail(q) \in Seq(Part)
           /\ ToSet(q) = {Head(q)} \cup ToSet(Tail(q))
           /\ Len(q) = 1 => ToSet(q) = {Head(q)}
           /\ Len(q) # 1 => Tail(q) # <<>>
<1>1. Head(q) \in Part /\ Tail(q) \in Seq(Part) /\ Len(q) \in Nat \ {0}
      /\ Len(Tail(q)) = Len(q) - 1
  OBVIOUS
<1>2. ToSet(q) = {q[i] : i \in 1..Len(q)}
  BY DEF ToSet
<1>3. ToSet(Tail(q)) = {q[i + 1] : i \in 1..(Len(q) - 1)}
  <2>1. DOMAIN Tail(q) = 1..(Len(q) - 1)
    BY <1>1
  <2>2. \A i \in 1..(Len(q) - 1) : Tail(q)[i] = q[i + 1]
    BY <1>1
  <2> QED
    BY <2>1, <2>2 DEF ToSet
<1>4. \A i \in 1..Len(q) : i = 1 \/ (i - 1 \in 1..(Len(q) - 1) /\ (i - 1) + 1 = i)
  BY <1>1
<1>5. \A i \in 1..(Len(q) - 1) : i + 1 \in 1..Len(q)
  BY <1>1
<1>6. q[1] = Head(q) /\ 1 \in 1..Len(q)
  BY <1>1
<1>7. ToSet(q) = {Head(q)} \cup ToSet(Tail(q))
  BY <1>2, <1>3, <1>4, <1>5, <1>6
<1>8. Len(q) = 1 => ToSet(q) = {Head(q)}
  BY <1>2, <1>6
<1>9. Len(q) # 1 => Tail(q) # <<>>
  BY <1>1
<1> QED
  BY <1>1, <1>7, <1>8, <1>9

LEMMA Widen == \A q \in Seq(Part) : q \in Seq(Part \cup Value)
  OBVIOUS

LEMMA ResourceTypes ==
    TypeOK <=> /\ kind \in Kinds
               /\ spec \in AllSpecs \cup {Removed}
               /\ cloud \in Clouds
               /\ saved = None \/ saved \in Saved
               /\ \/ call = Idle
                  \/ /\ call.at \in {"put", "parts", "get", "detect", "delete",
                                     "scale", "putback"}
                     /\ call.spec \in AllSpecs
                     /\ call.at = "parts" => call.left # <<>>
               /\ report = None \/ report \in [drifted : BOOLEAN, present : BOOLEAN]
               /\ fresh \in BOOLEAN
               /\ deleted \in Name \cup {None}
  BY DEF TypeOK, Clouds, Object, Saved

-----------------------------------------------------------------------------
(* The steps.                                                               *)

LEMMA LifeInit == Init => LifeInv
<1> SUFFICES ASSUME Init PROVE LifeInv
  OBVIOUS
<1>1. TypeOK
  BY ResourceTypes DEF Init, Clouds, Specs, AllSpecs
<1>2. CallInv /\ PartsInv /\ ScaleInv /\ Applied /\ Settles /\ Gone
  BY DEF Init, CallInv, PartsInv, ScaleInv, Applied, Settles, Gone, Idle, OfRecord
<1> QED
  BY <1>1, <1>2 DEF LifeInv

(* The host calls the driver.                                               *)
LEMMA Called ==
    ASSUME LifeInv, NEW at \in {"put", "get", "detect", "delete", "scale"},
           NEW s \in AllSpecs, Begin(at, s),
           at # "put" => saved # None,
           at = "put" => fresh' = FALSE /\ deleted' = None,
           fresh' = FALSE \/ (fresh' = fresh /\ at \in {"get", "detect"}),
           deleted' \in {deleted, None}
    PROVE  LifeInv'
<1>1. /\ call' = [at |-> at, spec |-> s, left |-> <<>>, calm |-> TRUE]
      /\ UNCHANGED <<kind, spec, cloud, saved, report, used>>
  BY DEF Begin, Call
<1>2. /\ TypeOK /\ (saved = None \/ saved \in Saved)
      /\ fresh \in BOOLEAN /\ deleted \in Name \cup {None}
  BY ResourceTypes DEF LifeInv
<1>3. deleted' = None
  BY <1>2 DEF LifeInv, CallInv
<1>4. <<>> \in Seq(Part \cup Value)
  OBVIOUS
<1>5. call'.at = at /\ call' \in CallType
  BY <1>1, <1>4 DEF CallType
<1>6. CallInv'
  BY <1>1, <1>2, <1>3, <1>5 DEF LifeInv, CallInv, OfRecord
<1>7. TypeOK'
  BY <1>1, <1>2, <1>3, <1>5, ResourceTypes DEF CallType, TypeOK, Clouds, Object, Saved
<1>8. ScaleInv' /\ PartsOf(call', cloud')
  BY <1>5 DEF ScaleInv, PartsOf
<1>9. AppliedOf(fresh', cloud', saved') /\ SettlesOf(fresh', saved')
        /\ GoneOf(deleted', cloud')
  BY <1>1, <1>3, BeforeStep DEF LifeInv, AppliedOf, SettlesOf, GoneOf
<1> QED
  BY <1>1, <1>6, <1>7, <1>8, <1>9, AfterStep DEF LifeInv

LEMMA CallsKeep ==
    ASSUME LifeInv, Apply \/ CallPlanned \/ CallRead \/ CallDetectDrift \/ CallScale
    PROVE  LifeInv'
<1>1. /\ spec = Removed \/ spec \in AllSpecs
      /\ saved = None \/ saved \in Saved
  BY ResourceTypes DEF LifeInv
<1>2. CASE CallCreate
  BY <1>1, <1>2, Called DEF CallCreate
<1>3. CASE CallPlanned \/ CallUpdate
  <2>1. BeginUpdate
    BY <1>3 DEF CallPlanned, CallUpdate
  <2>2. CASE driver.puts
    BY <1>1, <2>1, <2>2, Called DEF BeginUpdate
  <2>3. CASE ~driver.puts
    BY <1>1, <2>1, <2>3, Called DEF BeginUpdate
  <2> QED
    BY <2>2, <2>3
<1>4. CASE CallDelete
  BY <1>1, <1>4, Called DEF CallDelete, Saved
<1>5. CASE CallRead
  BY <1>1, <1>5, Called DEF CallRead, Saved
<1>6. CASE CallDetectDrift
  BY <1>1, <1>6, Called DEF CallDetectDrift, Saved
<1>7. CASE CallScale
  BY <1>1, <1>7, Called DEF CallScale, Saved
<1> QED
  BY <1>2, <1>3, <1>4, <1>5, <1>6, <1>7 DEF Apply

(* A call fails.  Azure may have changed, unless the call only reads: nothing   *)
(* is fresh and nothing deleted while a call writes.                         *)
LEMMA Failed ==
    ASSUME LifeInv, call # Idle, Fail, UNCHANGED <<kind, spec, deleted>>,
           cloud' \in Clouds,
           cloud' = cloud \/ call.at \notin {"get", "detect"},
           report' = report \/ report' \in [drifted : BOOLEAN, present : BOOLEAN]
    PROVE  LifeInv'
<1>1. /\ call' = Idle /\ call'.at = "idle" /\ UNCHANGED <<saved, fresh>>
      /\ TypeOK /\ call \in CallType
      /\ saved = None \/ saved \in Saved
      /\ report = None \/ report \in [drifted : BOOLEAN, present : BOOLEAN]
      /\ fresh \in BOOLEAN /\ deleted \in Name \cup {None} /\ kind \in Kinds
      /\ spec \in AllSpecs \cup {Removed}
  BY ResourceTypes DEF LifeInv, CallInv, Fail, Idle
<1>2. deleted = None /\ (fresh => cloud' = cloud /\ saved \in Saved)
  BY <1>1 DEF LifeInv, CallInv, CallType
<1>3. CallInv'
  BY <1>1, <1>2 DEF LifeInv, CallInv, OfRecord
<1>4. TypeOK'
  BY <1>1 DEF TypeOK, Clouds, Object, Saved
<1>5. ScaleInv' /\ PartsOf(call', cloud')
  BY <1>1 DEF ScaleInv, PartsOf
<1>6. AppliedOf(fresh', cloud', saved') /\ SettlesOf(fresh', saved')
        /\ GoneOf(deleted', cloud')
  BY <1>1, <1>2, BeforeStep DEF LifeInv, AppliedOf, SettlesOf, GoneOf
<1> QED
  BY <1>3, <1>4, <1>5, <1>6, AfterStep DEF LifeInv

LEMMA NotIdle ==
    ASSUME LifeInv, call.at \in {"put", "parts", "get", "detect", "delete", "scale", "putback"}
    PROVE  /\ call # Idle /\ call \in CallType /\ call.spec \in AllSpecs
           /\ cloud \in Clouds /\ deleted = None
           /\ call.at \in OfRecord => saved \in Saved
           /\ call.at \in OfRecord => Referred \in Name
  BY DEF LifeInv, CallInv, Idle, CallType, OfRecord, TypeOK, Clouds, Object, Referred,
         Saved, Name

(* What Create's first and further requests make of Azure's objects.           *)
LEMMA StoredType ==
    ASSUME cloud \in Clouds, NEW n \in Name, NEW v \in Value
    PROVE  /\ Stored(n, v) \in Clouds
           /\ Stored(n, v)[n] # Absent /\ Stored(n, v)[n].value = v
           /\ \A m \in Name \ {n} : Stored(n, v)[m] = cloud[m]
<1> DEFINE o == [value |-> v, parts |-> IF cloud[n] = Absent THEN {} ELSE cloud[n].parts]
<1>1. o \in Object /\ o # Absent
  BY ResourceAssumption DEF Clouds, Object
<1>2. Stored(n, v) = [cloud EXCEPT ![n] = o]
  BY DEF Stored
<1>3. o.value = v
  OBVIOUS
<1> HIDE DEF o
<1> QED
  BY <1>1, <1>2, <1>3 DEF Clouds

LEMMA WithPartType ==
    ASSUME cloud \in Clouds, call.spec.name \in Name, cloud[call.spec.name] # Absent,
           Head(call.left) \in Part
    PROVE  /\ WithPart \in Clouds
           /\ WithPart[call.spec.name] # Absent
           /\ WithPart[call.spec.name].value = cloud[call.spec.name].value
           /\ WithPart[call.spec.name].parts
                = cloud[call.spec.name].parts \cup {Head(call.left)}
<1> DEFINE n == call.spec.name
           o == [cloud[n] EXCEPT !.parts = @ \cup {Head(call.left)}]
<1>1. cloud[n] \in Object
  BY DEF Clouds
<1>2. o \in Object /\ o.value = cloud[n].value
      /\ o.parts = cloud[n].parts \cup {Head(call.left)}
  BY <1>1 DEF Object
<1>3. o # Absent
  BY <1>2, ResourceAssumption DEF Object
<1>4. WithPart = [cloud EXCEPT ![n] = o]
  BY DEF WithPart
<1> HIDE DEF o
<1> QED
  BY <1>2, <1>3, <1>4 DEF Clouds

LEMMA FailuresKeep ==
    ASSUME LifeInv,
           \/ PutRefused \/ PutFailed \/ PartFailed \/ PartRefused
           \/ GetFailed \/ DetectDrift \/ DeleteFailed
    PROVE  LifeInv'
<1>1. CASE PutRefused \/ PartRefused \/ GetFailed
  <2>1. /\ call.at \in {"put", "parts", "get"} /\ Fail
        /\ UNCHANGED <<kind, spec, report, deleted, cloud>>
    BY <1>1 DEF PutRefused, PartRefused, GetFailed, Same
  <2> QED
    BY <2>1, NotIdle, Failed
<1>2. CASE PutFailed
  <2>1. /\ call.at = "put" /\ Fail /\ UNCHANGED <<kind, spec, report, deleted>>
        /\ cloud' = cloud \/ cloud' = Stored(call.spec.name, Request(call.spec))
    BY <1>2 DEF PutFailed, Same
  <2>2. call.spec \in AllSpecs /\ cloud \in Clouds /\ call # Idle
    BY <2>1, NotIdle
  <2>3. Request(call.spec) \in Value /\ call.spec.name \in Name
    BY <2>2, RequestType DEF AllSpecs
  <2>4. cloud' \in Clouds
    BY <2>1, <2>2, <2>3, StoredType
  <2> QED
    BY <2>1, <2>2, <2>4, Failed
<1>3. CASE PartFailed
  <2>1. /\ call.at = "parts" /\ Fail /\ UNCHANGED <<kind, spec, report, deleted>>
        /\ cloud' \in {cloud, WithPart} /\ cloud[call.spec.name] # Absent
    BY <1>3 DEF PartFailed, Same
  <2>2. call.spec.name \in Name /\ cloud \in Clouds /\ call # Idle
    BY <2>1, NotIdle DEF AllSpecs
  <2>3. Head(call.left) \in Part
    BY <2>1, HeadAndTail DEF LifeInv, CallInv
  <2>4. cloud' \in Clouds
    BY <2>1, <2>2, <2>3, WithPartType
  <2> QED
    BY <2>1, <2>2, <2>4, Failed
<1>4. CASE DetectDrift
  <2>1. /\ call.at = "detect" /\ Fail /\ UNCHANGED <<kind, spec, cloud, deleted>>
        /\ report' \in [drifted : BOOLEAN, present : BOOLEAN]
    BY <1>4 DEF DetectDrift
  <2> QED
    BY <2>1, NotIdle, Failed
<1>5. CASE DeleteFailed
  <2>1. /\ call.at = "delete" /\ Fail /\ UNCHANGED <<kind, spec, report, deleted>>
        /\ cloud' = cloud \/ cloud' = [cloud EXCEPT ![Referred] = Absent]
    BY <1>5 DEF DeleteFailed, Same
  <2>2. cloud' \in Clouds
    BY <2>1, NotIdle DEF Clouds
  <2> QED
    BY <2>1, <2>2, NotIdle, Failed
<1> QED
  BY <1>1, <1>2, <1>3, <1>4, <1>5

(* A Create or Update succeeds: all its requests took effect, unless somebody  *)
(* else disturbed it, and its output does not differ from what was asked.    *)
LEMMA Succeeded ==
    ASSUME LifeInv, call.at \in {"put", "parts"},
           Succeed(CreateOutput(Request(call.spec)), call.spec, call.spec.name), Same,
           cloud' \in Clouds,
           call.calm => /\ cloud'[call.spec.name] # Absent
                        /\ cloud'[call.spec.name].value = Request(call.spec)
                        /\ ToSet(Extra(call.spec)) \subseteq cloud'[call.spec.name].parts
    PROVE  LifeInv'
<1> DEFINE s == call.spec
           out == CreateOutput(Request(s))
<1>1. /\ call \in CallType /\ s \in AllSpecs /\ deleted = None /\ call.calm \in BOOLEAN
      /\ s.name \in Name /\ Request(s) \in Value
  BY NotIdle, RequestType DEF CallType, AllSpecs
<1>2. out \in Value \cup {NoValue}
  BY <1>1 DEF CreateOutput
<1>3. /\ call' = Idle /\ call'.at = "idle" /\ fresh' = call.calm
      /\ saved' = [out |-> out, id |-> s.name, spec |-> s]
      /\ UNCHANGED <<kind, spec, report, deleted>>
      /\ TypeOK /\ kind \in Kinds /\ spec \in AllSpecs \cup {Removed}
      /\ report = None \/ report \in [drifted : BOOLEAN, present : BOOLEAN]
  BY ResourceTypes DEF LifeInv, Succeed, Same, Idle
<1>4. saved' \in Saved /\ saved'.out = out /\ saved'.id = s.name /\ saved'.spec = s
  BY <1>1, <1>2, <1>3 DEF Saved
<1>5. CallInv'
  BY <1>1, <1>3, <1>4 DEF CallInv, OfRecord
<1>6. TypeOK'
  BY <1>1, <1>3, <1>4 DEF TypeOK, Clouds, Object, Saved
<1>7. ScaleInv' /\ PartsOf(call', cloud') /\ GoneOf(deleted', cloud')
  BY <1>1, <1>3 DEF ScaleInv, PartsOf, GoneOf
<1>8. AppliedOf(fresh', cloud', saved')
  BY <1>3, <1>4 DEF AppliedOf, Request
<1>9. SettlesOf(fresh', saved')
  <2> SUFFICES ASSUME driver.applies, s.want # NoValue, s.want # Empty, out # NoValue
               PROVE  s.want = out
    BY <1>4 DEF SettlesOf, Diff
  <2> QED
    BY <1>1 DEF CreateOutput, Request, AllSpecs
<1> QED
  BY <1>3, <1>5, <1>6, <1>7, <1>8, <1>9, AfterStep DEF LifeInv

LEMMA PutDoneKeeps ==
    ASSUME LifeInv, PutDone
    PROVE  LifeInv'
<1> DEFINE s == call.spec
<1>1. /\ call.at = "put" /\ cloud' = Stored(s.name, Request(s)) /\ Same /\ UNCHANGED used
      /\ CASE s.records = Malformed -> Fail
           [] s.records # Malformed /\ Extra(s) = <<>> ->
                Succeed(CreateOutput(Request(s)), s, s.name)
           [] OTHER -> /\ call' = [call EXCEPT !.at = "parts", !.left = Extra(s)]
                       /\ UNCHANGED <<saved, fresh>>
  BY DEF PutDone
<1>2. /\ call # Idle /\ call \in CallType /\ s \in AllSpecs /\ cloud \in Clouds
      /\ deleted = None /\ s.name \in Name /\ Request(s) \in Value
      /\ Extra(s) \in Seq(Part) /\ ToSet(Extra(s)) \subseteq Part
      /\ ~fresh /\ fresh \in BOOLEAN
  BY <1>1, NotIdle, RequestType, ExtraType DEF AllSpecs, LifeInv, CallInv, TypeOK
<1>3. cloud' \in Clouds /\ cloud'[s.name] # Absent /\ cloud'[s.name].value = Request(s)
  BY <1>1, <1>2, StoredType
<1>4. CASE s.records = Malformed
  BY <1>1, <1>2, <1>3, <1>4, Failed DEF Same
<1>5. CASE s.records # Malformed /\ Extra(s) = <<>>
  <2>1. ToSet(Extra(s)) = {}
    BY <1>5 DEF ToSet
  <2>2. Succeed(CreateOutput(Request(s)), s, s.name)
    BY <1>1, <1>5
  <2> QED
    BY <1>1, <1>3, <2>1, <2>2, Succeeded
<1>6. CASE s.records # Malformed /\ Extra(s) # <<>>
  <2>1. /\ call' = [call EXCEPT !.at = "parts", !.left = Extra(s)]
        /\ UNCHANGED <<kind, spec, saved, report, fresh, deleted>>
    BY <1>1, <1>6 DEF Same
  <2>2. /\ call' \in CallType /\ call'.at = "parts" /\ call'.left = Extra(s)
        /\ call'.spec = s
    BY <1>2, <2>1, Widen DEF CallType
  <2>3. CallInv'
    BY <1>2, <1>6, <2>1, <2>2 DEF LifeInv, CallInv, OfRecord
  <2>4. /\ kind \in Kinds /\ spec \in AllSpecs \cup {Removed}
        /\ saved = None \/ saved \in Saved
        /\ report = None \/ report \in [drifted : BOOLEAN, present : BOOLEAN]
    BY ResourceTypes DEF LifeInv
  <2>5. TypeOK'
    BY <1>2, <1>3, <1>6, <2>1, <2>2, <2>4 DEF TypeOK, Clouds, Object, Saved
  <2>6. ScaleInv' /\ PartsOf(call', cloud')
    BY <1>3, <2>2 DEF ScaleInv, PartsOf
  <2>7. AppliedOf(fresh', cloud', saved') /\ SettlesOf(fresh', saved')
          /\ GoneOf(deleted', cloud')
    BY <1>2, <2>1 DEF AppliedOf, SettlesOf, GoneOf
  <2> QED
    BY <2>1, <2>3, <2>5, <2>6, <2>7, AfterStep DEF LifeInv
<1> QED
  BY <1>4, <1>5, <1>6

LEMMA PartDoneKeeps ==
    ASSUME LifeInv, PartDone
    PROVE  LifeInv'
<1> DEFINE s == call.spec
           n == s.name
<1>1. /\ call.at = "parts" /\ cloud[n] # Absent /\ cloud' = WithPart /\ Same
      /\ IF Len(call.left) = 1
         THEN Succeed(CreateOutput(Request(s)), s, n)
         ELSE /\ call' = [call EXCEPT !.left = Tail(@)]
              /\ UNCHANGED <<saved, fresh>>
  BY DEF PartDone
<1>2. /\ call # Idle /\ call \in CallType /\ s \in AllSpecs /\ cloud \in Clouds
      /\ deleted = None /\ n \in Name /\ ~fresh /\ fresh \in BOOLEAN
      /\ call.left # <<>> /\ call.left \in Seq(Part)
  BY <1>1, NotIdle DEF AllSpecs, LifeInv, CallInv, TypeOK
<1>3. /\ Head(call.left) \in Part /\ Tail(call.left) \in Seq(Part)
      /\ ToSet(call.left) = {Head(call.left)} \cup ToSet(Tail(call.left))
      /\ Len(call.left) = 1 => ToSet(call.left) = {Head(call.left)}
      /\ Len(call.left) # 1 => Tail(call.left) # <<>>
  BY <1>2, HeadAndTail
<1>4. /\ cloud' \in Clouds /\ cloud'[n] # Absent /\ cloud'[n].value = cloud[n].value
      /\ cloud'[n].parts = cloud[n].parts \cup {Head(call.left)}
  BY <1>1, <1>2, <1>3, WithPartType
<1>5. call.calm => /\ cloud'[n].value = Request(s)
                   /\ ToSet(Extra(s)) \subseteq cloud[n].parts \cup ToSet(call.left)
  BY <1>1, <1>4 DEF LifeInv, PartsInv
<1>6. CASE Len(call.left) = 1
  BY <1>1, <1>3, <1>4, <1>5, <1>6, Succeeded
<1>7. CASE Len(call.left) # 1
  <2>1. /\ call' = [call EXCEPT !.left = Tail(call.left)]
        /\ UNCHANGED <<kind, spec, saved, report, fresh, deleted>>
    BY <1>1, <1>7 DEF Same
  <2>2. /\ call' \in CallType /\ call'.at = "parts" /\ call'.left = Tail(call.left)
        /\ call'.spec = s /\ call'.calm = call.calm
    BY <1>1, <1>2, <1>3, <2>1, Widen DEF CallType
  <2>3. CallInv'
    BY <1>2, <1>3, <1>7, <2>1, <2>2 DEF CallInv, OfRecord
  <2>4. /\ kind \in Kinds /\ spec \in AllSpecs \cup {Removed}
        /\ saved = None \/ saved \in Saved
        /\ report = None \/ report \in [drifted : BOOLEAN, present : BOOLEAN]
    BY ResourceTypes DEF LifeInv
  <2>5. TypeOK'
    BY <1>2, <1>3, <1>4, <1>7, <2>1, <2>2, <2>4 DEF TypeOK, Clouds, Object, Saved
  <2>6. ScaleInv' /\ PartsOf(call', cloud')
    BY <1>3, <1>4, <1>5, <2>2 DEF ScaleInv, PartsOf
  <2>7. AppliedOf(fresh', cloud', saved') /\ SettlesOf(fresh', saved')
          /\ GoneOf(deleted', cloud')
    BY <1>2, <2>1 DEF AppliedOf, SettlesOf, GoneOf
  <2> QED
    BY <2>1, <2>3, <2>5, <2>6, <2>7, AfterStep DEF LifeInv
<1> QED
  BY <1>6, <1>7

(* Read: the output is that of the object it is about, which is the one a     *)
(* fresh resource has.                                                      *)
LEMMA GetDoneKeeps ==
    ASSUME LifeInv, GetDone
    PROVE  LifeInv'
<1> DEFINE out == IF driver.read THEN cloud[Referred].value ELSE NoValue
<1>1. /\ call.at = "get" /\ cloud[Referred] # Absent /\ call' = Idle /\ call'.at = "idle"
      /\ saved' = [saved EXCEPT !.out = out]
      /\ UNCHANGED <<kind, spec, cloud, report, fresh, deleted>>
  BY DEF GetDone, Same, Idle
<1>2. /\ cloud \in Clouds /\ deleted = None /\ saved \in Saved /\ Referred \in Name
  BY <1>1, NotIdle DEF OfRecord
<1>3. out \in Value \cup {NoValue}
  BY <1>1, <1>2 DEF Clouds, Object
<1> HIDE DEF out
<1>4. /\ saved' \in Saved /\ saved'.out = out /\ saved'.id = saved.id
      /\ saved'.spec = saved.spec
  BY <1>1, <1>2, <1>3 DEF Saved
<1>5. CallInv'
  BY <1>1, <1>2, <1>4 DEF CallInv, OfRecord
<1>6. /\ TypeOK /\ kind \in Kinds /\ spec \in AllSpecs \cup {Removed}
      /\ report = None \/ report \in [drifted : BOOLEAN, present : BOOLEAN]
      /\ fresh \in BOOLEAN
  BY ResourceTypes DEF LifeInv
<1>7. TypeOK'
  BY <1>1, <1>2, <1>4, <1>6 DEF TypeOK, Clouds, Object, Saved
<1>8. ScaleInv' /\ PartsOf(call', cloud') /\ GoneOf(deleted', cloud')
  BY <1>1, <1>2 DEF ScaleInv, PartsOf, GoneOf
<1>9. AppliedOf(fresh', cloud', saved')
  BY <1>1, <1>4, BeforeStep DEF LifeInv, AppliedOf
<1>10. SettlesOf(fresh', saved')
  <2> SUFFICES ASSUME fresh, driver.applies, Addressed(saved.id),
                      saved.spec.want # NoValue, saved.spec.want # Empty,
                      out # NoValue
               PROVE  saved.spec.want = out
    BY <1>1, <1>4 DEF SettlesOf, Diff
  <2>1. Referred = saved.id
    BY DEF Referred, Addressed
  <2>2. saved.spec.want \in Value
    BY <1>2 DEF Saved, AllSpecs
  <2> QED
    BY <2>1, <2>2 DEF out, LifeInv, Applied
<1> QED
  BY <1>1, <1>5, <1>7, <1>8, <1>9, <1>10, AfterStep DEF LifeInv

(* Delete removes the object that the record names, if it is addressed at all. *)
LEMMA DeleteDoneKeeps ==
    ASSUME LifeInv, DeleteDone
    PROVE  LifeInv'
<1>1. /\ call.at = "delete" /\ cloud' = [cloud EXCEPT ![Referred] = Absent]
      /\ call' = Idle /\ call'.at = "idle" /\ saved' = None /\ deleted' = saved.id
      /\ UNCHANGED <<kind, spec, report, fresh>>
  BY DEF DeleteDone, Idle
<1>2. /\ cloud \in Clouds /\ saved \in Saved /\ Referred \in Name /\ saved.id \in Name
      /\ ~fresh /\ fresh \in BOOLEAN
  BY <1>1, NotIdle DEF OfRecord, Saved, LifeInv, CallInv, TypeOK
<1>3. cloud' \in Clouds /\ cloud'[Referred] = Absent
  BY <1>1, <1>2 DEF Clouds
<1>4. CallInv'
  BY <1>1, <1>2 DEF CallInv, OfRecord
<1>5. /\ TypeOK /\ kind \in Kinds /\ spec \in AllSpecs \cup {Removed}
      /\ report = None \/ report \in [drifted : BOOLEAN, present : BOOLEAN]
  BY ResourceTypes DEF LifeInv
<1>6. TypeOK'
  BY <1>1, <1>2, <1>3, <1>5 DEF TypeOK, Clouds, Object, Saved
<1>7. ScaleInv' /\ PartsOf(call', cloud')
  BY <1>1 DEF ScaleInv, PartsOf
<1>8. GoneOf(deleted', cloud')
  BY <1>1, <1>3 DEF GoneOf, Addressed, Referred
<1>9. AppliedOf(fresh', cloud', saved') /\ SettlesOf(fresh', saved')
  BY <1>1, <1>2 DEF AppliedOf, SettlesOf
<1> QED
  BY <1>1, <1>4, <1>6, <1>7, <1>8, <1>9, AfterStep DEF LifeInv

(* Scale, between its two requests and after.                                *)
LEMMA ScaleGetKeeps ==
    ASSUME LifeInv, ScaleGet
    PROVE  LifeInv'
<1> DEFINE v == cloud["own"].value
<1>1. call.at = "scale" /\ UNCHANGED <<kind, spec, cloud, report, deleted>>
  BY DEF ScaleGet, Same
<1>2. /\ call # Idle /\ call \in CallType /\ cloud \in Clouds /\ deleted = None
      /\ saved \in Saved /\ ~fresh /\ fresh \in BOOLEAN
  BY <1>1, NotIdle DEF OfRecord, LifeInv, CallInv, TypeOK
<1>3. CASE Fail
  BY <1>1, <1>2, <1>3, Failed
<1>4. CASE /\ cloud["own"] # Absent
           /\ call' = [call EXCEPT !.at = "putback", !.left = <<v>>, !.calm = TRUE]
           /\ UNCHANGED <<saved, fresh, used>>
  <2>1. v \in Value
    BY <1>2, <1>4 DEF Clouds, Object, Name
  <2>2. <<v>> \in Seq(Part \cup Value)
    BY <2>1
  <2>3. call' \in CallType /\ call'.at = "putback" /\ call'.left = <<v>>
    BY <1>2, <1>4, <2>2 DEF CallType
  <2>4. CallInv'
    BY <1>1, <1>2, <1>4, <2>1, <2>3 DEF CallInv, OfRecord
  <2>5. /\ TypeOK /\ kind \in Kinds /\ spec \in AllSpecs \cup {Removed}
        /\ report = None \/ report \in [drifted : BOOLEAN, present : BOOLEAN]
    BY ResourceTypes DEF LifeInv
  <2>6. TypeOK'
    BY <1>1, <1>2, <1>4, <2>3, <2>5 DEF TypeOK, Clouds, Object, Saved, CallType
  <2>7. ScaleInv' /\ PartsOf(call', cloud')
    BY <1>1, <1>4, <2>3 DEF ScaleInv, PartsOf
  <2>8. AppliedOf(fresh', cloud', saved') /\ SettlesOf(fresh', saved')
          /\ GoneOf(deleted', cloud')
    BY <1>1, <1>2, <1>4 DEF AppliedOf, SettlesOf, GoneOf
  <2> QED
    BY <1>1, <2>4, <2>6, <2>7, <2>8, AfterStep DEF LifeInv
<1> QED
  BY <1>3, <1>4 DEF ScaleGet

LEMMA ScalePutKeeps ==
    ASSUME LifeInv, ScalePut
    PROVE  LifeInv'
<1> DEFINE v == Head(call.left)
<1>1. call.at = "putback" /\ UNCHANGED <<kind, spec, report, deleted>>
      /\ cloud' \in {cloud, Stored("own", v)}
  BY DEF ScalePut, Same
<1>2. /\ call # Idle /\ cloud \in Clouds /\ deleted = None
      /\ saved \in Saved /\ ~fresh /\ fresh \in BOOLEAN
  BY <1>1, NotIdle DEF OfRecord, LifeInv, CallInv, TypeOK
<1>3. v \in Value
  BY <1>1 DEF LifeInv, CallInv
<1>4. cloud' \in Clouds
  BY <1>1, <1>2, <1>3, StoredType DEF Name
<1>5. CASE Fail
  BY <1>1, <1>2, <1>4, <1>5, Failed
<1>6. CASE call' = Idle /\ saved' = [saved EXCEPT !.out = v] /\ UNCHANGED <<fresh, used>>
  <2>1. saved' \in Saved /\ call'.at = "idle"
    BY <1>2, <1>3, <1>6 DEF Saved, Idle
  <2>2. CallInv'
    BY <1>1, <1>2, <1>6, <2>1 DEF CallInv, OfRecord
  <2>3. /\ TypeOK /\ kind \in Kinds /\ spec \in AllSpecs \cup {Removed}
        /\ report = None \/ report \in [drifted : BOOLEAN, present : BOOLEAN]
    BY ResourceTypes DEF LifeInv
  <2>4. TypeOK'
    BY <1>1, <1>2, <1>4, <1>6, <2>1, <2>3 DEF TypeOK, Clouds, Object, Saved
  <2>5. ScaleInv' /\ PartsOf(call', cloud')
    BY <2>1 DEF ScaleInv, PartsOf
  <2>6. AppliedOf(fresh', cloud', saved') /\ SettlesOf(fresh', saved')
          /\ GoneOf(deleted', cloud')
    BY <1>1, <1>2, <1>6 DEF AppliedOf, SettlesOf, GoneOf
  <2> QED
    BY <1>1, <2>2, <2>4, <2>5, <2>6, AfterStep DEF LifeInv
<1> QED
  BY <1>5, <1>6 DEF ScalePut

LEMMA Disturbed ==
    ASSUME LifeInv, UNCHANGED <<kind, spec, saved, report, deleted>>, fresh' = FALSE,
           cloud' \in Clouds, \A n \in Name : cloud[n] = Absent => cloud'[n] = Absent,
           \/ call = Idle /\ call' = Idle
           \/ /\ call # Idle /\ call' \in CallType /\ call'.calm = FALSE
              /\ call'.at = call.at /\ call'.left = call.left
    PROVE  LifeInv'
<1>1. /\ TypeOK /\ kind \in Kinds /\ spec \in AllSpecs \cup {Removed}
      /\ saved = None \/ saved \in Saved
      /\ report = None \/ report \in [drifted : BOOLEAN, present : BOOLEAN]
      /\ deleted \in Name \cup {None}
  BY ResourceTypes DEF LifeInv
<1>2. CallInv'
  BY DEF LifeInv, CallInv, OfRecord
<1>3. TypeOK'
  BY <1>1 DEF TypeOK, Clouds, Object, Saved, LifeInv, CallInv, CallType
<1>4. ScaleInv' /\ PartsOf(call', cloud')
  BY DEF ScaleInv, PartsOf, Idle
<1>5. AppliedOf(fresh', cloud', saved') /\ SettlesOf(fresh', saved')
        /\ GoneOf(deleted', cloud')
  BY <1>1, BeforeStep DEF LifeInv, AppliedOf, SettlesOf, GoneOf
<1> QED
  BY <1>2, <1>3, <1>4, <1>5, AfterStep DEF LifeInv

(* Azure's objects change behind the host's back: no call is calm, nothing is   *)
(* fresh, and what was deleted does not come back.                           *)
LEMMA DisturbKeeps ==
    ASSUME LifeInv, Drift \/ Vanish
    PROVE  LifeInv'
<1>1. /\ UNCHANGED <<kind, spec, saved, report, deleted>> /\ fresh' = FALSE
      /\ call' = IF call = Idle THEN Idle ELSE [call EXCEPT !.calm = FALSE]
      /\ TypeOK
  BY DEF Drift, Vanish, Disturb, LifeInv
<1>2. cloud \in Clouds
  BY <1>1, ResourceTypes
<1>3. cloud' \in Clouds /\ \A n \in Name : cloud[n] = Absent => cloud'[n] = Absent
  <2>1. CASE Drift
    BY <1>2, <2>1 DEF Drift, Clouds, Object
  <2>2. CASE Vanish
    BY <1>2, <2>2 DEF Vanish, Clouds
  <2> QED
    BY <2>1, <2>2
<1>4. CASE call = Idle
  <2>1. call' = Idle
    BY <1>1, <1>4
  <2> QED
    BY <1>1, <1>2, <1>3, <1>4, <2>1, Disturbed
<1>5. CASE call # Idle
  <2>1. call \in CallType
    BY <1>5 DEF LifeInv, CallInv
  <2>2. /\ call' \in CallType /\ call'.calm = FALSE /\ call'.at = call.at
        /\ call'.left = call.left
    BY <1>1, <1>5, <2>1 DEF CallType
  <2> QED
    BY <1>1, <1>2, <1>3, <1>5, <2>2, Disturbed
<1> QED
  BY <1>4, <1>5

(* The user edits the specification: nothing is under way because of it.       *)
LEMMA EditKeeps ==
    ASSUME LifeInv, Edit \/ Retire \/ UNCHANGED vars
    PROVE  LifeInv'
<1>1. /\ UNCHANGED <<kind, cloud, saved, call, report, fresh, deleted>>
      /\ spec' \in AllSpecs \cup {Removed} /\ TypeOK
  BY DEF Edit, Retire, vars, Specs, AllSpecs, LifeInv, TypeOK
<1>2. CallInv' /\ ScaleInv' /\ PartsOf(call', cloud')
  BY <1>1, BeforeStep DEF LifeInv, CallInv, ScaleInv
<1>3. TypeOK'
  BY <1>1 DEF TypeOK
<1>4. AppliedOf(fresh', cloud', saved') /\ SettlesOf(fresh', saved')
        /\ GoneOf(deleted', cloud')
  BY <1>1, BeforeStep DEF LifeInv
<1> QED
  BY <1>1, <1>2, <1>3, <1>4, AfterStep DEF LifeInv

LEMMA LifeStep ==
    ASSUME LifeInv, [Next]_vars
    PROVE  LifeInv'
  BY CallsKeep, FailuresKeep, PutDoneKeeps, PartDoneKeeps, GetDoneKeeps,
     DeleteDoneKeeps, ScaleGetKeeps, ScalePutKeeps, DisturbKeeps, EditKeeps
     DEF Next, Azure

-----------------------------------------------------------------------------

(* The inductive invariant of a resource's life.                             *)
THEOREM LifeInvariant == Spec => []LifeInv
<1> QED
  BY LifeInit, LifeStep, PTL DEF Spec

(* Every variable has its type, whichever driver and whatever failed.          *)
THEOREM ResourceTypeCorrect == Spec => []TypeOK
<1>1. LifeInv => TypeOK
  BY DEF LifeInv
<1> QED
  BY <1>1, LifeInvariant, PTL

(* A Create or Update that succeeded, undisturbed, sent all its requests: the   *)
(* object has the value asked for and everything below it.                   *)
THEOREM CreateApplies == Spec => []Applied
<1>1. LifeInv => Applied
  BY DEF LifeInv
<1> QED
  BY <1>1, LifeInvariant, PTL

(* Diff asks for nothing right after what was asked for was applied.           *)
THEOREM DiffSettles == Spec => []Settles
<1>1. LifeInv => Settles
  BY DEF LifeInv
<1> QED
  BY <1>1, LifeInvariant, PTL

(* What a successful Delete was for is gone, until it is created again.        *)
THEOREM DeleteRemoves == Spec => []Gone
<1>1. LifeInv => Gone
  BY DEF LifeInv
<1> QED
  BY <1>1, LifeInvariant, PTL

(* Scale's second request, when it puts back what is there, changes nothing.    *)
LEMMA PutBackKeeps ==
    ASSUME LifeInv, Next, call.at = "putback", call.calm, call' = Idle
    PROVE  cloud' = cloud
<1>1. call # Idle /\ cloud \in Clouds
  BY NotIdle
<1>2. ScalePut \/ Drift \/ Vanish \/ Edit \/ Retire
  BY <1>1 DEF Next, Apply, CallCreate, CallUpdate, CallDelete, CallPlanned, BeginUpdate,
     CallRead, CallDetectDrift, CallScale, Begin, Azure, PutRefused, PutDone, PutFailed,
     PartDone, PartFailed, PartRefused, GetDone, GetFailed, DetectDrift, DeleteDone,
     DeleteFailed, ScaleGet
<1>3. CASE ScalePut
  <2>1. cloud["own"] # Absent /\ Head(call.left) = cloud["own"].value
    BY DEF LifeInv, ScaleInv
  <2>2. cloud["own"] \in Object
    BY <1>1, <2>1 DEF Clouds, Name
  <2>3. [value |-> cloud["own"].value, parts |-> cloud["own"].parts] = cloud["own"]
    BY <2>2 DEF Object
  <2>4. Stored("own", Head(call.left)) = [cloud EXCEPT !["own"] = cloud["own"]]
    BY <2>1, <2>3 DEF Stored
  <2>5. Stored("own", Head(call.left)) = cloud
    BY <1>1, <2>4 DEF Clouds
  <2> QED
    BY <1>3, <2>5 DEF ScalePut
<1>4. CASE Drift \/ Vanish
  <2>1. call' = [call EXCEPT !.calm = FALSE] /\ call \in CallType
    BY <1>1, <1>4, NotIdle DEF Drift, Vanish, Disturb
  <2>2. call'.at = "putback"
    BY <2>1 DEF CallType
  <2> QED
    BY <2>2 DEF Idle
<1>5. CASE Edit \/ Retire
  BY <1>5 DEF Edit, Retire
<1> QED
  BY <1>2, <1>3, <1>4, <1>5

(* Scale changes nothing but the node count, and makes no cluster.            *)
THEOREM ScaleChangesNothingElse == Spec => ScaleKeeps
<1>1. LifeInv /\ [Next]_vars
        => [call.at = "putback" /\ call.calm /\ call' = Idle => cloud' = cloud]_vars
  BY PutBackKeeps
<1> QED
  BY <1>1, LifeInvariant, PTL DEF Spec, ScaleKeeps

-----------------------------------------------------------------------------
(* What Diff has to compare with.  Only AKS scales, and its output is shown.   *)

Shows == driver.created /\ driver.read

Hides == ~driver.created /\ ~driver.read

OutputInv ==
    /\ call.at \in {"scale", "putback"} => kind = "aks"
    /\ saved # None => /\ Shows => saved.out # NoValue
                       /\ Hides => saved.out = NoValue

LEMMA KindStays == [Next]_vars => UNCHANGED kind
  BY DEF Next, Apply, CallCreate, CallUpdate, CallDelete, CallPlanned, BeginUpdate,
     CallRead, CallDetectDrift, CallScale, Begin, Azure, PutRefused, PutDone, PutFailed,
     PartDone, PartFailed, PartRefused, GetDone, GetFailed, DetectDrift, DeleteDone,
     DeleteFailed, ScaleGet, ScalePut, Drift, Vanish, Disturb, Edit, Retire, Same, vars

LEMMA ScaleOfAKS ==
    ASSUME LifeInv, [Next]_vars, call'.at \in {"scale", "putback"}
    PROVE  call.at \in {"scale", "putback"} \/ kind = "aks"
<1>1. call' # Idle
  BY DEF Idle
<1>2. CASE Apply \/ CallPlanned \/ CallRead \/ CallDetectDrift \/ CallScale
  <2>1. CASE CallScale
    BY <2>1 DEF CallScale
  <2>2. ASSUME NEW at \in {"put", "get", "delete", "detect"}, NEW s, Begin(at, s)
        PROVE  FALSE
    BY <2>2 DEF Begin, Call
  <2>3. ~ BeginUpdate
    BY <2>2 DEF BeginUpdate
  <2> QED
    BY <1>2, <2>1, <2>2, <2>3 DEF Apply, CallCreate, CallUpdate, CallDelete, CallPlanned,
       CallRead, CallDetectDrift
<1>3. CASE PutRefused \/ PutFailed \/ PartFailed \/ PartRefused \/ GetFailed
             \/ DetectDrift \/ DeleteFailed \/ GetDone \/ DeleteDone \/ ScalePut
  BY <1>1, <1>3 DEF PutRefused, PutFailed, PartFailed, PartRefused, GetFailed,
     DetectDrift, DeleteFailed, GetDone, DeleteDone, ScalePut, Fail
<1>4. CASE ScaleGet
  BY <1>4 DEF ScaleGet
<1>5. CASE PutDone \/ PartDone
  <2>1. call \in CallType
    BY <1>5, NotIdle DEF PutDone, PartDone
  <2>2. \/ call' = Idle \/ call' = [call EXCEPT !.at = "parts", !.left = Extra(call.spec)]
        \/ call' = [call EXCEPT !.left = Tail(@)]
    BY <1>5 DEF PutDone, PartDone, Fail, Succeed
  <2> QED
    BY <1>1, <2>1, <2>2 DEF CallType
<1>6. CASE Drift \/ Vanish
  <2>1. call' = [call EXCEPT !.calm = FALSE] /\ call # Idle
    BY <1>1, <1>6 DEF Drift, Vanish, Disturb
  <2>2. call \in CallType
    BY <2>1 DEF LifeInv, CallInv
  <2> QED
    BY <2>1, <2>2 DEF CallType
<1>7. CASE Edit \/ Retire \/ UNCHANGED vars
  BY <1>7 DEF Edit, Retire, vars
<1> QED
  BY <1>2, <1>3, <1>4, <1>5, <1>6, <1>7 DEF Next, Azure

(* The output that the host records, by the call that returned it.            *)
LEMMA OutputStep ==
    ASSUME LifeInv, OutputInv, [Next]_vars
    PROVE  OutputInv'
<1>1. kind' = kind /\ driver' = driver /\ driver \in {NewAll[k] : k \in AllKinds}
  BY KindStays, ResourceAssumption DEF driver, LifeInv, TypeOK
<1>2. (call'.at \in {"scale", "putback"} => kind' = "aks")
  BY <1>1, ScaleOfAKS DEF OutputInv
<1>3. CASE saved' = saved
  BY <1>1, <1>2, <1>3 DEF OutputInv, Shows, Hides
<1>4. CASE PutDone \/ PartDone
  <2> DEFINE out == CreateOutput(Request(call.spec))
  <2>1. call.spec \in AllSpecs
    BY <1>4, NotIdle DEF PutDone, PartDone
  <2>2. out = IF driver.created THEN Request(call.spec) ELSE NoValue
    BY DEF CreateOutput
  <2>3. Request(call.spec) # NoValue
    BY <2>1, RequestType, ResourceAssumption
  <2>4. saved' = saved \/ saved' = [out |-> out, id |-> call.spec.name, spec |-> call.spec]
    BY <1>4 DEF PutDone, PartDone, Fail, Succeed
  <2> HIDE DEF out
  <2>5. saved' # saved => saved'.out = out
    BY <2>4
  <2> QED
    BY <1>1, <1>2, <1>3, <2>2, <2>3, <2>5 DEF OutputInv, Shows, Hides
<1>5. CASE GetDone
  <2> DEFINE out == IF driver.read THEN cloud[Referred].value ELSE NoValue
  <2>1. call.at = "get" /\ cloud[Referred] # Absent /\ saved' = [saved EXCEPT !.out = out]
    BY <1>5 DEF GetDone
  <2>2. saved \in Saved /\ cloud[Referred] \in Object
    BY <2>1, NotIdle DEF OfRecord, Clouds
  <2>3. (driver.read => out # NoValue) /\ (~driver.read => out = NoValue)
    BY <2>2, ResourceAssumption DEF Object
  <2>4. saved'.out = out
    BY <2>1, <2>2 DEF Saved
  <2> QED
    BY <1>1, <1>2, <2>3, <2>4 DEF OutputInv, Shows, Hides
<1>6. CASE DeleteDone
  BY <1>2, <1>6 DEF DeleteDone, OutputInv
<1>7. CASE ScalePut
  <2>1. call.at = "putback" /\ (saved' = saved \/ saved' = [saved EXCEPT !.out = Head(call.left)])
    BY <1>7 DEF ScalePut, Fail
  <2>2. saved \in Saved /\ (\E v \in Value : call.left = <<v>>)
    BY <2>1, NotIdle DEF OfRecord, LifeInv, CallInv
  <2>3. Head(call.left) # NoValue
    BY <2>2, ResourceAssumption
  <2>4. saved' = saved \/ saved'.out # NoValue
    BY <2>1, <2>2, <2>3 DEF Saved
  <2>5. driver.created
    BY <2>1 DEF OutputInv, driver, NewAll, AKS, Plain
  <2> QED
    BY <1>1, <1>2, <1>3, <2>4, <2>5 DEF OutputInv, Shows, Hides
<1>8. PutDone \/ PartDone \/ GetDone \/ DeleteDone \/ ScalePut \/ saved' = saved
  BY DEF Next, Apply, CallCreate, CallUpdate, CallDelete, CallPlanned, BeginUpdate,
     CallRead, CallDetectDrift, CallScale, Begin, Azure, PutRefused, PutFailed,
     PartFailed, PartRefused, GetFailed, DetectDrift, DeleteFailed, ScaleGet,
     Drift, Vanish, Disturb, Edit, Retire, Fail, vars
<1> QED
  BY <1>3, <1>4, <1>5, <1>6, <1>7, <1>8

LEMMA Outputs == Spec => []OutputInv
<1>1. Init => OutputInv
  BY DEF Init, OutputInv, Idle
<1>2. LifeInv /\ OutputInv /\ [Next]_vars => OutputInv'
  BY OutputStep
<1> QED
  BY <1>1, <1>2, LifeInvariant, PTL DEF Spec

(* Diff of nsg, lb and redis asks for nothing ever, whatever the user wants and *)
(* whatever happened: neither Create nor Read shows the field it compares.    *)
BlindDrivers == kind \in {"nsg", "lb", "redis"} /\ saved # None => ~Diff(spec, saved.out)

THEOREM DiffIsBlind == Spec => []BlindDrivers
<1>1. kind \in {"nsg", "lb", "redis"} => driver \in {NSG, LB, Redis}
  BY DEF driver, NewAll
<1>2. kind \in {"nsg", "lb", "redis"} => Hides
  BY <1>1 DEF Hides, NSG, LB, Redis, Plain
<1>3. OutputInv => BlindDrivers
  BY <1>2 DEF OutputInv, BlindDrivers, Diff
<1> QED
  BY <1>3, Outputs, PTL

(* The drivers that send, show and compare the field see every change of the   *)
(* configuration after an undisturbed apply, but for an object they do not     *)
(* find by its name.                                                        *)
SeeingDrivers ==
    driver.compares /\ driver.applies /\ Shows /\ Addressed(saved.id) => ChangeIsSeen

THEOREM DiffSees == Spec => []SeeingDrivers
<1>1. LifeInv /\ OutputInv => SeeingDrivers
  <2> SUFFICES ASSUME LifeInv, OutputInv, driver.compares, driver.applies, Shows,
                      Addressed(saved.id), fresh, spec # Removed, spec.want \in Value,
                      saved.spec.want \in Value, spec.want # saved.spec.want
               PROVE  Diff(spec, saved.out)
    BY DEF SeeingDrivers, ChangeIsSeen
  <2>1. ~Diff(saved.spec, saved.out)
    BY ResourceAssumption DEF LifeInv, Settles
  <2>2. saved \in Saved /\ saved # None
    BY ResourceAssumption DEF LifeInv, CallInv, Saved
  <2>3. saved.spec # Removed /\ saved.out # NoValue
    BY <2>2, ResourceAssumption DEF Saved, OutputInv
  <2> QED
    BY <2>1, <2>3, ResourceAssumption DEF Diff
<1> QED
  BY <1>1, LifeInvariant, Outputs, PTL

(* A field that is configured as an empty string never settles: Create and      *)
(* Update make the object with the default, and Diff asks for the same again   *)
(* after every apply, however often it is repeated, for a replacement where    *)
(* the field has ForceNew.  For the drivers that send, show and compare it.    *)
EmptyIsAskedAgain ==
    saved # None /\ saved.spec.want = Empty
    /\ driver.compares /\ driver.applies /\ Shows =>
        /\ Diff(saved.spec, saved.out)
        /\ driver.replaces => NeedsReplace(saved.spec, saved.out)
        /\ fresh => cloud[saved.id].value = Default

THEOREM EmptyNeverSettles == Spec => []EmptyIsAskedAgain
<1>1. LifeInv /\ OutputInv => EmptyIsAskedAgain
  <2> SUFFICES ASSUME LifeInv, OutputInv, saved # None, saved.spec.want = Empty,
                      driver.compares, driver.applies, Shows
               PROVE  /\ Diff(saved.spec, saved.out)
                      /\ fresh => cloud[saved.id].value = Default
    BY DEF EmptyIsAskedAgain, NeedsReplace
  <2>1. saved \in Saved
    BY ResourceTypes DEF LifeInv
  <2>2. saved.out \in Value /\ saved.spec # Removed
    BY <2>1, ResourceAssumption DEF Saved, OutputInv
  <2>3. Diff(saved.spec, saved.out)
    BY <2>2, ResourceAssumption DEF Diff
  <2>4. fresh => cloud[saved.id].value = Default
    BY ResourceAssumption DEF LifeInv, Applied
  <2> QED
    BY <2>3, <2>4
<1> QED
  BY <1>1, LifeInvariant, Outputs, PTL

-----------------------------------------------------------------------------
(* Under which name an object is.  Only some drivers take another than the      *)
(* resource's from the configuration.                                        *)

NameAllowed(n) == n = "own" \/ driver.aliases

NamesInv ==
    /\ spec # Removed => NameAllowed(spec.name)
    /\ saved # None => NameAllowed(saved.id) /\ NameAllowed(saved.spec.name)
    /\ call # Idle => NameAllowed(call.spec.name)
    /\ deleted # None => NameAllowed(deleted)

LEMMA NamesStep ==
    ASSUME LifeInv, NamesInv, [Next]_vars
    PROVE  NamesInv'
<1>1. kind' = kind /\ driver' = driver
  BY KindStays DEF driver
<1>2. TypeOK /\ (call = Idle \/ call \in CallType) /\ (saved = None \/ saved \in Saved)
  BY ResourceTypes DEF LifeInv, CallInv
<1>3. ASSUME NEW at, NEW s, Begin(at, s), NameAllowed(s.name), deleted' \in {deleted, None}
      PROVE  NamesInv'
  <2>1. call'.spec = s /\ UNCHANGED <<spec, saved>>
    BY <1>3 DEF Begin, Call
  <2> QED
    BY <1>1, <1>3, <2>1 DEF NamesInv, NameAllowed
<1>4. CASE Apply \/ CallPlanned \/ CallRead \/ CallDetectDrift \/ CallScale
  BY <1>3, <1>4 DEF Apply, CallCreate, CallUpdate, CallDelete, CallPlanned, BeginUpdate,
     CallRead, CallDetectDrift, CallScale, NamesInv
<1>5. ASSUME call' = Idle, UNCHANGED spec, saved' = saved \/ saved' = None,
             deleted' \in {deleted, saved.id}, deleted' # deleted => saved # None
      PROVE  NamesInv'
  BY <1>1, <1>5 DEF NamesInv, NameAllowed
<1>6. CASE PutRefused \/ PutFailed \/ PartFailed \/ PartRefused \/ GetFailed
             \/ DetectDrift \/ DeleteFailed
  BY <1>5, <1>6 DEF PutRefused, PutFailed, PartFailed, PartRefused, GetFailed,
     DetectDrift, DeleteFailed, Fail, Same
<1>7. CASE DeleteDone
  <2>1. saved # None
    BY <1>7, NotIdle, ResourceAssumption DEF DeleteDone, OfRecord, Saved
  <2> QED
    BY <1>5, <1>7, <2>1 DEF DeleteDone
<1>8. CASE GetDone \/ ScalePut
  <2>1. /\ saved \in Saved /\ saved # None /\ call' = Idle /\ UNCHANGED <<spec, deleted>>
        /\ saved' = saved \/ \E out : saved' = [saved EXCEPT !.out = out]
    BY <1>8, NotIdle, ResourceAssumption
       DEF GetDone, ScalePut, OfRecord, Saved, Fail, Same
  <2>2. saved'.id = saved.id /\ saved'.spec = saved.spec
    BY <2>1 DEF Saved
  <2> QED
    BY <1>1, <2>1, <2>2 DEF NamesInv, NameAllowed
<1>9. CASE PutDone \/ PartDone \/ ScaleGet
  <2>1. call # Idle /\ call \in CallType /\ UNCHANGED <<spec, deleted>>
    BY <1>9, NotIdle DEF PutDone, PartDone, ScaleGet, Same
  <2>2. \/ saved' = saved
        \/ saved'.id = call.spec.name /\ saved'.spec = call.spec
    BY <1>9 DEF PutDone, PartDone, ScaleGet, Fail, Succeed
  <2>3. call' = Idle \/ call'.spec = call.spec
    BY <1>9, <2>1 DEF PutDone, PartDone, ScaleGet, Fail, Succeed, CallType
  <2> QED
    BY <1>1, <2>1, <2>2, <2>3 DEF NamesInv, NameAllowed
<1>10. CASE Drift \/ Vanish
  <2>1. /\ UNCHANGED <<spec, saved, deleted>>
        /\ call' = IF call = Idle THEN Idle ELSE [call EXCEPT !.calm = FALSE]
    BY <1>10 DEF Drift, Vanish, Disturb
  <2>2. call' = Idle \/ (call # Idle /\ call'.spec = call.spec)
    BY <1>2, <2>1 DEF CallType
  <2> QED
    BY <1>1, <2>1, <2>2 DEF NamesInv, NameAllowed
<1>11. CASE Edit \/ Retire \/ UNCHANGED vars
  <2>1. /\ UNCHANGED <<saved, call, deleted>>
        /\ spec' # Removed => spec' = spec \/ spec' \in Specs(kind)
    BY <1>11 DEF Edit, Retire, vars
  <2>2. \A s \in Specs(kind) : NameAllowed(s.name)
    BY DEF Specs, NameAllowed, driver
  <2> QED
    BY <1>1, <2>1, <2>2 DEF NamesInv, NameAllowed
<1> QED
  BY <1>4, <1>6, <1>7, <1>8, <1>9, <1>10, <1>11 DEF Next, Azure

LEMMA Names == Spec => []NamesInv
<1>1. Init => NamesInv
  BY DEF Init, NamesInv, NameAllowed, Specs, driver
<1>2. LifeInv /\ NamesInv /\ [Next]_vars => NamesInv'
  BY NamesStep
<1> QED
  BY <1>1, <1>2, LifeInvariant, PTL DEF Spec

(* Destroy deletes what was created, whatever name the configuration gave it,   *)
(* for every driver but that of DNS zones: blob finds its name in the          *)
(* ProviderID, the others have none but the resource's.                      *)
OthersDestroy == kind # "dns" => DestroyDeletes

THEOREM DestroyRemoves == Spec => []OthersDestroy
<1>1. LifeInv /\ NamesInv => OthersDestroy
  <2> SUFFICES ASSUME LifeInv, NamesInv, kind # "dns", deleted # None
               PROVE  cloud[deleted] = Absent
    BY DEF OthersDestroy, DestroyDeletes
  <2>1. kind \in AllKinds
    BY ResourceAssumption DEF LifeInv, TypeOK
  <2>2. driver.aliases => driver.byID
    <3>1. driver \in {ACI, AKS, SQL, Redis, VNet, LB, ACR, APIM, NSG, MSI, Cert} \cup {Blob}
      BY <2>1 DEF driver, NewAll, AllKinds
    <3>2. ~ACI.aliases /\ ~AKS.aliases /\ ~ACR.aliases /\ ~APIM.aliases
      BY DEF ACI, AKS, ACR, APIM, Plain
    <3>3. ~SQL.aliases /\ ~Redis.aliases /\ ~VNet.aliases /\ ~LB.aliases
      BY DEF SQL, Redis, VNet, LB, Plain
    <3>4. ~NSG.aliases /\ ~MSI.aliases /\ ~Cert.aliases /\ Blob.byID
      BY DEF NSG, MSI, Cert, Blob, Plain
    <3> QED
      BY <3>1, <3>2, <3>3, <3>4
  <2> QED
    BY <2>2 DEF NamesInv, NameAllowed, LifeInv, Gone, Addressed
<1> QED
  BY <1>1, LifeInvariant, Names, PTL

=============================================================================
