---------------------------- MODULE StateStoreProofs ----------------------------
(***************************************************************************)
(* GetState, SaveState, ListStates and DeleteState for any number of        *)
(* handlers, resource ids, blobs, statuses and late writes.                 *)
(***************************************************************************)
EXTENDS StateStore, TLAPS

Handler == [pc : {"idle", "get", "save", "delete", "pages", "download", "answered"},
            rid : ResourceID \union {NoResource},
            status : Status \union {AnyStatus, NoStatus},
            answer : {"none", "ok", "not_found", "found", "error", "listed"},
            found : Record \union {NoBlob}]

Locals == [unlisted : SUBSET Blob, names : SUBSET Blob,
           results : SUBSET Record, skipped : SUBSET Blob]

Write == [blob : Blob, value : Record \union {NoBlob}]

History == [changed : SUBSET Blob, absent : SUBSET Blob]

(* The arguments of a request that is still to be sent.                      *)
Arguments(c) ==
    /\ rpc[c].pc \in {"get", "save", "delete"} => rpc[c].rid \in ResourceID
    /\ rpc[c].pc = "save" => rpc[c].status \in Status

(* The handlers that still send requests.                                   *)
Working(c) == rpc[c].pc \notin {"idle", "answered"}

(* A blob that is missing now was missing during every call at work.          *)
Watched(c) ==
    Working(c) => \A b \in Blob : content[b] = NoBlob => b \in past[c].absent

(* The listings that go well so far.                                         *)
Lists(c) == rpc[c].pc \in {"pages", "download"} \/ rpc[c].answer = "listed"

(* A record that no write touched is on a page still to come, under a name to  *)
(* download, among the results, or its download failed.                      *)
Covered(c) ==
    \A b \in Blob :
        content[b] \in Record /\ Matches(content[b], rpc[c].status) /\ b \notin past[c].changed
            => \/ b \in listing[c].unlisted \union listing[c].names \union listing[c].skipped
               \/ content[b] \in listing[c].results

(* What holds of each handler.  Only one that is done has an answer.          *)
HandlerInv(c) ==
    /\ rpc[c].pc # "answered" => rpc[c].answer = "none"
    /\ Watched(c)
    /\ rpc[c].answer = "not_found" => BlobOf(c) \in past[c].absent
    /\ Lists(c) => /\ Covered(c)
                   /\ rpc[c].pc # "pages" => listing[c].unlisted = {}
                   /\ rpc[c].answer = "listed" => listing[c].names = {}

StoreInv == TypeOK /\ \A c \in Call : HandlerInv(c)

LEMMA StoreTypes ==
    TypeOK <=> /\ content \in [Blob -> Content]
               /\ rpc \in [Call -> Handler]
               /\ listing \in [Call -> Locals]
               /\ late \subseteq Write
               /\ past \in [Call -> History]
               /\ \A c \in Call : Arguments(c)
  BY DEF TypeOK, Handler, Locals, Write, History, Arguments

-----------------------------------------------------------------------------
(* What a step that is about one handler leaves to the others.               *)

LEMMA OtherHandlers ==
    ASSUME NEW d, HandlerInv(d), Arguments(d), UNCHANGED content,
           rpc'[d] = rpc[d], listing'[d] = listing[d], past'[d] = past[d]
    PROVE  HandlerInv(d)' /\ Arguments(d)'
  BY DEF HandlerInv, Arguments, Watched, Working, Lists, Covered, BlobOf, Matches

(* A write is in the history of every handler at work.                       *)
LEMMA PutIsSeen ==
    ASSUME TypeOK, NEW b \in Blob, NEW v \in Record \union {NoBlob}, Put(b, v),
           NEW d \in Call, HandlerInv(d), rpc'[d] = rpc[d], listing'[d] = listing[d]
    PROVE  HandlerInv(d)' /\ Arguments(d)'
<1>1. /\ content \in [Blob -> Content] /\ past \in [Call -> History]
      /\ Arguments(d)
  BY StoreTypes
<1>2. content' = [content EXCEPT ![b] = v]
  BY DEF Put
<1>3. /\ past[d].absent \subseteq past'[d].absent
      /\ past[d].changed \subseteq past'[d].changed
      /\ rpc[d].pc # "idle" => /\ b \in past'[d].changed
                               /\ v = NoBlob => b \in past'[d].absent
  BY <1>1 DEF Put, History
<1>4. Watched(d)'
  BY <1>1, <1>2, <1>3 DEF HandlerInv, Watched, Working
<1>5. Lists(d) => rpc[d].pc # "idle"
  BY DEF HandlerInv, Lists
<1>6. Lists(d) => Covered(d)'
  <2> SUFFICES ASSUME Lists(d), NEW a \in Blob, content'[a] \in Record,
                      Matches(content'[a], rpc'[d].status), a \notin past'[d].changed
               PROVE  \/ a \in listing'[d].unlisted \union listing'[d].names
                                   \union listing'[d].skipped
                      \/ content'[a] \in listing'[d].results
    BY DEF Covered, Matches
  <2>1. a # b /\ a \notin past[d].changed
    BY <1>3, <1>5
  <2>2. content'[a] = content[a]
    BY <1>1, <1>2, <2>1
  <2> QED
    BY <2>1, <2>2 DEF HandlerInv, Covered
<1>7. HandlerInv(d)'
  BY <1>3, <1>4, <1>6 DEF HandlerInv, Lists, BlobOf
<1> QED
  BY <1>1, <1>7 DEF Arguments

LEMMA PutTypes ==
    ASSUME TypeOK, NEW b \in Blob, NEW v \in Record \union {NoBlob}, Put(b, v)
    PROVE  content' \in [Blob -> Content] /\ past' \in [Call -> History]
<1>1. content \in [Blob -> Content] /\ past \in [Call -> History]
  BY StoreTypes
<1>2. content' \in [Blob -> Content]
  BY <1>1 DEF Put, Content
<1>3. \A c \in Call : past[c].changed \subseteq Blob /\ past[c].absent \subseteq Blob
  BY <1>1 DEF History
<1>4. past' \in [Call -> History]
  BY <1>1, <1>3 DEF Put, History
<1> QED
  BY <1>2, <1>4

(* A reply to the host.                                                     *)
LEMMA ReplyMoves ==
    ASSUME TypeOK, NEW c \in Call, NEW f \in Record \union {NoBlob},
           NEW a \in {"ok", "not_found", "found", "error", "listed"}, Reply(c, a, f)
    PROVE  /\ rpc' \in [Call -> Handler] /\ Arguments(c)'
           /\ \A d \in Call \ {c} : rpc'[d] = rpc[d]
           /\ rpc'[c].pc = "answered" /\ rpc'[c].answer = a
           /\ rpc'[c].rid = rpc[c].rid /\ rpc'[c].status = rpc[c].status
<1>1. rpc \in [Call -> Handler]
  BY StoreTypes
<1>2. rpc'[c] = [pc |-> "answered", rid |-> rpc[c].rid, status |-> rpc[c].status,
                 answer |-> a, found |-> f]
  BY <1>1 DEF Reply
<1>3. rpc'[c] \in Handler
  BY <1>1, <1>2 DEF Handler
<1> QED
  BY <1>1, <1>2, <1>3 DEF Reply, Arguments

LEMMA BeginMoves ==
    ASSUME TypeOK, NEW c \in Call, NEW pc, NEW rid, NEW status, Begin(c, pc, rid, status),
           pc \in {"get", "save", "delete", "pages"},
           rid \in ResourceID \union {NoResource},
           status \in Status \union {AnyStatus, NoStatus},
           pc \in {"get", "save", "delete"} => rid \in ResourceID,
           pc = "save" => status \in Status
    PROVE  /\ rpc' \in [Call -> Handler] /\ past' \in [Call -> History]
           /\ Arguments(c)'
           /\ \A d \in Call \ {c} : rpc'[d] = rpc[d] /\ past'[d] = past[d]
           /\ rpc'[c].pc = pc /\ rpc'[c].answer = "none"
           /\ past'[c].absent = {b \in Blob : content[b] = NoBlob}
<1>1. rpc \in [Call -> Handler] /\ past \in [Call -> History]
  BY StoreTypes
<1> DEFINE r == [IdleCall EXCEPT !.pc = pc, !.rid = rid, !.status = status]
<1>2. /\ rpc' = [rpc EXCEPT ![c] = r]
      /\ r \in Handler
      /\ r.pc = pc /\ r.rid = rid /\ r.status = status /\ r.answer = "none"
  <2>1. IdleCall \in Handler /\ IdleCall.answer = "none"
    BY DEF IdleCall, Handler
  <2> QED
    BY <2>1 DEF Begin, Handler
<1> HIDE DEF r
<1>3. past' = [past EXCEPT ![c] = [changed |-> {},
                                   absent |-> {b \in Blob : content[b] = NoBlob}]]
  BY DEF Begin
<1>4. /\ rpc' \in [Call -> Handler]
      /\ rpc'[c].pc = pc /\ rpc'[c].answer = "none" /\ rpc'[c].rid = rid
      /\ rpc'[c].status = status
      /\ \A d \in Call \ {c} : rpc'[d] = rpc[d]
  BY <1>1, <1>2
<1>5. /\ past' \in [Call -> History]
      /\ past'[c].absent = {b \in Blob : content[b] = NoBlob}
      /\ \A d \in Call \ {c} : past'[d] = past[d]
  BY <1>1, <1>3 DEF History
<1> QED
  BY <1>4, <1>5 DEF Arguments

-----------------------------------------------------------------------------
(* The steps.                                                               *)

LEMMA StoreInit == InitStore => StoreInv
<1> SUFFICES ASSUME InitStore PROVE StoreInv
  OBVIOUS
<1>1. IdleCall \in Handler
  BY DEF IdleCall, Handler
<1>2. TypeOK
  BY <1>1, StoreTypes DEF InitStore, Content, IdleCall, NoListing, NoHistory,
                          Locals, History, Arguments
<1>3. \A c \in Call : HandlerInv(c)
  BY DEF InitStore, IdleCall, HandlerInv, Watched, Working, Lists
<1> QED
  BY <1>2, <1>3 DEF StoreInv

(* A call begins.                                                           *)
LEMMA CallKeeps ==
    ASSUME StoreInv, NEW c \in Call,
           \/ \E r \in ResourceID : CallGet(c, r)
           \/ \E rec \in Record : CallSave(c, rec)
           \/ \E r \in ResourceID : CallDelete(c, r)
           \/ \E f \in Status \union {AnyStatus} : CallList(c, f)
    PROVE  StoreInv'
<1>1. PICK pc \in {"get", "save", "delete", "pages"},
           rid \in ResourceID \union {NoResource},
           status \in Status \union {AnyStatus, NoStatus} :
          /\ Begin(c, pc, rid, status)
          /\ pc \in {"get", "save", "delete"} => rid \in ResourceID
          /\ pc = "save" => status \in Status
          /\ IF pc = "pages" THEN CallList(c, status) ELSE UNCHANGED listing
  BY DEF CallGet, CallSave, CallDelete, CallList, Record
<1>2. TypeOK /\ HandlerInv(c)
  BY DEF StoreInv
<1>3. UNCHANGED <<content, late>>
  BY DEF CallGet, CallSave, CallDelete, CallList
<1>4. /\ content \in [Blob -> Content] /\ late \subseteq Write
      /\ listing \in [Call -> Locals]
  BY <1>2, StoreTypes
<1>5. /\ rpc' \in [Call -> Handler] /\ past' \in [Call -> History]
      /\ Arguments(c)'
      /\ \A d \in Call \ {c} : rpc'[d] = rpc[d] /\ past'[d] = past[d]
      /\ rpc'[c].pc = pc /\ rpc'[c].answer = "none"
      /\ past'[c].absent = {b \in Blob : content[b] = NoBlob}
  BY <1>1, <1>2, BeginMoves
<1>6. /\ listing' \in [Call -> Locals]
      /\ \A d \in Call \ {c} : listing'[d] = listing[d]
      /\ pc = "pages" => listing'[c].unlisted = Blob
  BY <1>1, <1>4 DEF CallList, NoListing, Locals
<1>7. HandlerInv(c)'
  BY <1>3, <1>5, <1>6 DEF HandlerInv, Watched, Working, Lists, Covered
<1>8. \A d \in Call \ {c} : HandlerInv(d)' /\ Arguments(d)'
  BY <1>2, <1>3, <1>5, <1>6, StoreTypes, OtherHandlers DEF StoreInv
<1>9. TypeOK'
  BY <1>3, <1>4, <1>5, <1>6, <1>8, StoreTypes DEF TypeOK, Handler, Locals, Write, History,
                                                  Arguments
<1> QED
  BY <1>7, <1>8, <1>9 DEF StoreInv

(* A handler goes idle, or a record without an id is refused.                 *)
LEMMA IdleKeeps ==
    ASSUME StoreInv, NEW c \in Call, RejectSave(c) \/ End(c)
    PROVE  StoreInv'
<1>1. /\ TypeOK /\ UNCHANGED <<content, late>>
      /\ rpc \in [Call -> Handler] /\ listing \in [Call -> Locals]
      /\ past \in [Call -> History] /\ content \in [Blob -> Content] /\ late \subseteq Write
  BY StoreTypes DEF StoreInv, RejectSave, End
<1> DEFINE refused == [IdleCall EXCEPT !.pc = "answered", !.answer = "error"]
<1>2. /\ IdleCall \in Handler /\ IdleCall.pc = "idle" /\ IdleCall.answer = "none"
      /\ refused \in Handler /\ refused.pc = "answered" /\ refused.answer = "error"
  BY DEF IdleCall, Handler
<1>3. NoListing \in Locals /\ NoHistory \in History
  BY DEF NoListing, Locals, NoHistory, History
<1> HIDE DEF refused
<1>4. /\ rpc' = [rpc EXCEPT ![c] = IdleCall] \/ rpc' = [rpc EXCEPT ![c] = refused]
      /\ \/ UNCHANGED <<listing, past>>
         \/ /\ listing' = [listing EXCEPT ![c] = NoListing]
            /\ past' = [past EXCEPT ![c] = NoHistory]
  BY DEF RejectSave, End, refused
<1>5. /\ rpc' \in [Call -> Handler] /\ listing' \in [Call -> Locals]
      /\ past' \in [Call -> History]
  BY <1>1, <1>2, <1>3, <1>4
<1>6. /\ rpc'[c].pc \in {"idle", "answered"} /\ rpc'[c].answer \in {"none", "error"}
      /\ rpc'[c].pc = "idle" => rpc'[c].answer = "none"
      /\ \A d \in Call \ {c} : /\ rpc'[d] = rpc[d] /\ listing'[d] = listing[d]
                               /\ past'[d] = past[d]
  BY <1>1, <1>2, <1>4
<1>7. HandlerInv(c)' /\ Arguments(c)'
  BY <1>6 DEF HandlerInv, Arguments, Watched, Working, Lists
<1>8. \A d \in Call \ {c} : HandlerInv(d)' /\ Arguments(d)'
  BY <1>1, <1>6, StoreTypes, OtherHandlers DEF StoreInv
<1>9. TypeOK'
  BY <1>1, <1>5, <1>7, <1>8, StoreTypes DEF TypeOK, Handler, Locals, Write, History,
                                            Arguments
<1> QED
  BY <1>7, <1>8, <1>9 DEF StoreInv

(* A handler answers without having changed a blob in this step: "not found"  *)
(* only of a blob that is missing, "listed" only when nothing is left.       *)
LEMMA AnswerKeeps ==
    ASSUME StoreInv, NEW c \in Call, Working(c), NEW f \in Record \union {NoBlob},
           NEW a \in {"ok", "not_found", "found", "error", "listed"}, Reply(c, a, f),
           a = "not_found" => rpc[c].rid \in ResourceID /\ content[BlobOf(c)] = NoBlob,
           a = "listed" => rpc[c].pc = "download" /\ listing[c].names = {},
           UNCHANGED <<content, past>>, late' \subseteq Write,
           listing' \in [Call -> Locals],
           \A d \in Call \ {c} : listing'[d] = listing[d],
           a = "listed" => listing'[c] = listing[c]
    PROVE  StoreInv'
<1>1. /\ TypeOK /\ HandlerInv(c)
      /\ past \in [Call -> History] /\ content \in [Blob -> Content]
  BY StoreTypes DEF StoreInv
<1>2. /\ rpc' \in [Call -> Handler] /\ Arguments(c)'
      /\ \A d \in Call \ {c} : rpc'[d] = rpc[d]
      /\ rpc'[c].pc = "answered" /\ rpc'[c].answer = a
      /\ rpc'[c].rid = rpc[c].rid /\ rpc'[c].status = rpc[c].status
  BY <1>1, ReplyMoves
<1>3. a = "not_found" => BlobOf(c) \in past[c].absent
  <2> SUFFICES ASSUME a = "not_found" PROVE BlobOf(c) \in past[c].absent
    OBVIOUS
  <2>1. BlobOf(c) \in Blob
    BY StateStoreAssumption DEF BlobOf
  <2> QED
    BY <1>1, <2>1 DEF HandlerInv, Watched
<1>4. a = "listed" => Covered(c)' /\ listing'[c].unlisted = {} /\ listing'[c].names = {}
  BY <1>1, <1>2 DEF HandlerInv, Lists, Covered, Matches
<1>5. HandlerInv(c)'
  BY <1>2, <1>3, <1>4 DEF HandlerInv, Watched, Working, Lists, BlobOf
<1>6. \A d \in Call \ {c} : HandlerInv(d)' /\ Arguments(d)'
  BY <1>1, <1>2, StoreTypes, OtherHandlers DEF StoreInv
<1>7. TypeOK'
  BY <1>1, <1>2, <1>6, StoreTypes DEF TypeOK, Handler, Locals, Write, History, Arguments
<1> QED
  BY <1>5, <1>6, <1>7 DEF StoreInv

LEMMA RepliesKeep ==
    ASSUME StoreInv, NEW c \in Call,
           \/ Get(c) \/ GetFailed(c) \/ WriteFailed(c) \/ ListFailed(c) \/ Listed(c)
           \/ Delete(c, FALSE) /\ UNCHANGED content
    PROVE  StoreInv'
<1>1. /\ TypeOK /\ Arguments(c) /\ late \subseteq Write
      /\ content \in [Blob -> Content] /\ listing \in [Call -> Locals]
  BY StoreTypes DEF StoreInv
<1>2. rpc[c].rid \in ResourceID => BlobOf(c) \in Blob
  BY StateStoreAssumption DEF BlobOf
<1>3. CASE Get(c)
  <2>1. Working(c) /\ rpc[c].rid \in ResourceID /\ UNCHANGED <<content, listing, late, past>>
    BY <1>1, <1>3 DEF Get, Working, Arguments
  <2>2. \/ content[BlobOf(c)] = NoBlob /\ Reply(c, "not_found", NoBlob)
        \/ Reply(c, "error", NoBlob)
        \/ content[BlobOf(c)] \in Record /\ Reply(c, "found", content[BlobOf(c)])
    BY <1>3 DEF Get
  <2> QED
    BY <1>1, <2>1, <2>2, AnswerKeeps
<1>4. CASE GetFailed(c)
  <2>1. Working(c) /\ Reply(c, "error", NoBlob) /\ UNCHANGED <<content, listing, late, past>>
    BY <1>4 DEF GetFailed, Working
  <2> QED
    BY <1>1, <2>1, AnswerKeeps
<1>5. CASE WriteFailed(c)
  <2>1. Working(c) /\ Reply(c, "error", NoBlob) /\ UNCHANGED <<content, listing, past>>
    BY <1>5 DEF WriteFailed, Working
  <2>2. WriteOf(c) \in Write
    BY <1>1, <1>2, <1>5 DEF WriteFailed, WriteOf, Write, Arguments, Record
  <2>3. late' \subseteq Write
    BY <1>1, <1>5, <2>2 DEF WriteFailed
  <2> QED
    BY <1>1, <2>1, <2>3, AnswerKeeps
<1>6. CASE ListFailed(c)
  <2>1. /\ Working(c) /\ Reply(c, "error", NoBlob) /\ UNCHANGED <<content, late, past>>
        /\ listing' = [listing EXCEPT ![c] = NoListing]
    BY <1>6 DEF ListFailed, Working
  <2>2. listing' \in [Call -> Locals] /\ \A d \in Call \ {c} : listing'[d] = listing[d]
    BY <1>1, <2>1 DEF NoListing, Locals
  <2> QED
    BY <1>1, <2>1, <2>2, AnswerKeeps
<1>7. CASE Listed(c)
  <2>1. /\ Working(c) /\ Reply(c, "listed", NoBlob)
        /\ UNCHANGED <<content, listing, late, past>>
        /\ rpc[c].pc = "download" /\ listing[c].names = {}
    BY <1>7 DEF Listed, Working
  <2> QED
    BY <1>1, <2>1, AnswerKeeps
<1>8. CASE Delete(c, FALSE) /\ UNCHANGED content
  <2>1. /\ Working(c) /\ rpc[c].rid \in ResourceID /\ UNCHANGED <<content, listing, late>>
    BY <1>1, <1>8 DEF Delete, Working, Arguments
  <2>2. \/ content[BlobOf(c)] # NoBlob /\ Put(BlobOf(c), NoBlob)
        \/ /\ content[BlobOf(c)] = NoBlob /\ Reply(c, "not_found", NoBlob)
           /\ UNCHANGED past
    BY <1>8 DEF Delete
  <2>3. ~(content[BlobOf(c)] # NoBlob /\ Put(BlobOf(c), NoBlob))
    BY <1>1, <1>2, <2>1 DEF Put
  <2> QED
    BY <1>1, <2>1, <2>2, <2>3, AnswerKeeps
<1> QED
  BY <1>3, <1>4, <1>5, <1>6, <1>7, <1>8

(* A write takes effect, and its handler answers, repeats it, or is long gone. *)
LEMMA WriteKeeps ==
    ASSUME StoreInv, NEW b \in Blob, NEW v \in Record \union {NoBlob}, Put(b, v),
           UNCHANGED listing, late' \subseteq Write,
           UNCHANGED rpc \/ \E c \in Call : Reply(c, "ok", NoBlob)
    PROVE  StoreInv'
<1>1. /\ TypeOK /\ rpc \in [Call -> Handler] /\ listing \in [Call -> Locals]
  BY StoreTypes DEF StoreInv
<1>2. content' \in [Blob -> Content] /\ past' \in [Call -> History]
  BY <1>1, PutTypes
<1>3. /\ rpc' \in [Call -> Handler]
      /\ \A d \in Call : rpc'[d] = rpc[d] \/ /\ rpc'[d].pc = "answered"
                                              /\ rpc'[d].answer = "ok"
                                              /\ Arguments(d)'
  <2>1. CASE UNCHANGED rpc
    BY <1>1, <2>1
  <2>2. CASE \E c \in Call : Reply(c, "ok", NoBlob)
    BY <1>1, <2>2, ReplyMoves
  <2> QED
    BY <2>1, <2>2
<1>4. \A d \in Call : HandlerInv(d)' /\ Arguments(d)'
  <2> SUFFICES ASSUME NEW d \in Call PROVE HandlerInv(d)' /\ Arguments(d)'
    OBVIOUS
  <2>1. CASE rpc'[d] = rpc[d]
    BY <1>1, <2>1, PutIsSeen DEF StoreInv
  <2>2. CASE rpc'[d].pc = "answered" /\ rpc'[d].answer = "ok" /\ Arguments(d)'
    BY <2>2 DEF HandlerInv, Watched, Working, Lists
  <2> QED
    BY <1>3, <2>1, <2>2
<1>5. TypeOK'
  BY <1>1, <1>2, <1>3, <1>4, StoreTypes DEF TypeOK, Handler, Locals, Write, History,
                                            Arguments
<1> QED
  BY <1>4, <1>5 DEF StoreInv

LEMMA WritesKeep ==
    ASSUME StoreInv,
           \/ \E c \in Call, resent \in BOOLEAN : Save(c, resent) \/ Delete(c, resent)
           \/ \E q \in late : Deliver(q)
    PROVE  StoreInv'
<1>1. /\ late \subseteq Write /\ content \in [Blob -> Content]
      /\ \A c \in Call : Arguments(c)
  BY StoreTypes DEF StoreInv
<1>2. ASSUME NEW c \in Call, NEW resent \in BOOLEAN, Save(c, resent) PROVE StoreInv'
  <2>1. BlobOf(c) \in Blob
    BY <1>1, <1>2, StateStoreAssumption DEF Save, Arguments, BlobOf
  <2>2. [rid |-> rpc[c].rid, status |-> rpc[c].status] \in Record
    BY <1>1, <1>2 DEF Save, Arguments, Record
  <2> QED
    BY <1>1, <1>2, <2>1, <2>2, WriteKeeps DEF Save
<1>3. ASSUME NEW c \in Call, NEW resent \in BOOLEAN, Delete(c, resent) PROVE StoreInv'
  <2>1. BlobOf(c) \in Blob
    BY <1>1, <1>3, StateStoreAssumption DEF Delete, Arguments, BlobOf
  <2>2. CASE content[BlobOf(c)] # NoBlob
    BY <1>1, <1>3, <2>1, <2>2, WriteKeeps DEF Delete
  <2>3. CASE content[BlobOf(c)] = NoBlob
    <3>1. Delete(c, FALSE) /\ UNCHANGED content
      BY <1>3, <2>3 DEF Delete
    <3> QED
      BY <3>1, RepliesKeep
  <2> QED
    BY <2>2, <2>3
<1>4. ASSUME NEW q \in late, Deliver(q) PROVE StoreInv'
  <2>1. /\ q \in Write /\ q.blob \in Blob /\ q.value \in Record \union {NoBlob}
        /\ late' \subseteq Write /\ UNCHANGED <<rpc, listing>>
    BY <1>1, <1>4 DEF Deliver, Write
  <2>2. CASE Put(q.blob, q.value)
    BY <2>1, <2>2, WriteKeeps
  <2>3. CASE UNCHANGED <<content, past>>
    BY <2>1, <2>3, StoreTypes, OtherHandlers
       DEF StoreInv, TypeOK, Handler, Locals, Write, History, Arguments
  <2> QED
    BY <1>4, <2>2, <2>3 DEF Deliver
<1> QED
  BY <1>2, <1>3, <1>4

(* A listing reads a page, or downloads or skips a name: no record gets lost   *)
(* between the four sets.                                                    *)
LEMMA ListKeeps ==
    ASSUME StoreInv, NEW c \in Call, NextPage(c) \/ Download(c) \/ SkipFailed(c)
    PROVE  StoreInv'
<1> DEFINE l == listing[c]
<1>1. /\ TypeOK /\ HandlerInv(c) /\ Arguments(c)
      /\ content \in [Blob -> Content] /\ past \in [Call -> History] /\ late \subseteq Write
      /\ rpc \in [Call -> Handler] /\ listing \in [Call -> Locals] /\ l \in Locals
  BY StoreTypes DEF StoreInv
<1>2. /\ UNCHANGED <<content, late, past>>
      /\ rpc[c].pc \in {"pages", "download"} /\ rpc[c].answer = "none" /\ Covered(c)
      /\ rpc[c].pc = "download" => l.unlisted = {}
  BY <1>1 DEF NextPage, Download, SkipFailed, HandlerInv, Lists
<1>3. /\ \A d \in Call \ {c} : rpc'[d] = rpc[d] /\ listing'[d] = listing[d]
      /\ rpc' \in [Call -> Handler] /\ listing' \in [Call -> Locals]
      /\ rpc'[c].pc \in {"pages", "download"} /\ rpc'[c].answer = "none"
      /\ rpc'[c].status = rpc[c].status
      /\ Covered(c)'
      /\ rpc'[c].pc # "pages" => listing'[c].unlisted = {}
  <2>1. CASE NextPage(c)
    <3>1. PICK page \in (SUBSET l.unlisted) \ {{}} :
            /\ listing' = [listing EXCEPT ![c] =
                  [l EXCEPT !.unlisted = @ \ page,
                            !.names = @ \union {b \in page : content[b] # NoBlob}]]
            /\ IF page = l.unlisted THEN rpc' = [rpc EXCEPT ![c].pc = "download"]
                                    ELSE UNCHANGED rpc
      BY <2>1 DEF NextPage
    <3>2. page \subseteq Blob /\ rpc[c].pc = "pages"
      BY <1>1, <2>1 DEF NextPage, Locals
    <3>3. /\ listing' \in [Call -> Locals]
          /\ listing'[c].unlisted = l.unlisted \ page
          /\ listing'[c].names = l.names \union {b \in page : content[b] # NoBlob}
          /\ listing'[c].results = l.results /\ listing'[c].skipped = l.skipped
          /\ \A d \in Call \ {c} : listing'[d] = listing[d]
      BY <1>1, <3>1, <3>2 DEF Locals
    <3>4. /\ rpc' \in [Call -> Handler]
          /\ rpc'[c].pc \in {"pages", "download"} /\ rpc'[c].answer = "none"
          /\ rpc'[c].status = rpc[c].status
          /\ rpc'[c].pc # "pages" => page = l.unlisted
          /\ \A d \in Call \ {c} : rpc'[d] = rpc[d]
      BY <1>1, <1>2, <3>1, <3>2 DEF Handler
    <3>5. Covered(c)'
      <4> SUFFICES ASSUME NEW b \in Blob, content[b] \in Record,
                          Matches(content[b], rpc[c].status), b \notin past[c].changed
                   PROVE  \/ b \in listing'[c].unlisted \union listing'[c].names
                                       \union listing'[c].skipped
                          \/ content[b] \in listing'[c].results
        BY <1>2, <3>4 DEF Covered, Matches
      <4>1. content[b] # NoBlob
        BY StateStoreAssumption DEF Record
      <4> QED
        BY <1>2, <3>3, <4>1 DEF Covered
    <3> QED
      BY <3>3, <3>4, <3>5
  <2>2. CASE Download(c)
    <3>1. PICK b \in l.names :
            listing' = [listing EXCEPT ![c] =
               [l EXCEPT !.names = @ \ {b},
                         !.results = @ \union
                           {rec \in {content[b]} \intersect Record :
                                Matches(rec, rpc[c].status)}]]
      BY <2>2 DEF Download
    <3>2. /\ listing' \in [Call -> Locals]
          /\ listing'[c].unlisted = l.unlisted /\ listing'[c].skipped = l.skipped
          /\ listing'[c].names = l.names \ {b}
          /\ listing'[c].results = l.results \union
                {rec \in {content[b]} \intersect Record : Matches(rec, rpc[c].status)}
          /\ \A d \in Call \ {c} : listing'[d] = listing[d]
      BY <1>1, <3>1 DEF Locals
    <3>3. UNCHANGED rpc /\ rpc[c].pc = "download"
      BY <2>2 DEF Download
    <3>4. Covered(c)'
      BY <1>2, <3>2, <3>3 DEF Covered, Matches
    <3> QED
      BY <1>1, <1>2, <3>2, <3>3, <3>4
  <2>3. CASE SkipFailed(c)
    <3>1. PICK b \in l.names :
            listing' = [listing EXCEPT ![c] =
               [l EXCEPT !.names = @ \ {b}, !.skipped = @ \union {b}]]
      BY <2>3 DEF SkipFailed
    <3>2. /\ listing' \in [Call -> Locals]
          /\ listing'[c].unlisted = l.unlisted /\ listing'[c].results = l.results
          /\ listing'[c].names = l.names \ {b} /\ listing'[c].skipped = l.skipped \union {b}
          /\ \A d \in Call \ {c} : listing'[d] = listing[d]
      BY <1>1, <3>1 DEF Locals
    <3>3. UNCHANGED rpc /\ rpc[c].pc = "download"
      BY <2>3 DEF SkipFailed
    <3>4. Covered(c)'
      BY <1>2, <3>2, <3>3 DEF Covered, Matches
    <3> QED
      BY <1>1, <1>2, <3>2, <3>3, <3>4
  <2> QED
    BY <2>1, <2>2, <2>3
<1>4. HandlerInv(c)' /\ Arguments(c)'
  BY <1>1, <1>2, <1>3 DEF HandlerInv, Arguments, Watched, Working, Lists
<1>5. \A d \in Call \ {c} : HandlerInv(d)' /\ Arguments(d)'
  BY <1>1, <1>2, <1>3, StoreTypes, OtherHandlers DEF StoreInv
<1>6. TypeOK'
  BY <1>1, <1>2, <1>3, <1>4, <1>5, StoreTypes
     DEF TypeOK, Handler, Locals, Write, History, Arguments
<1> QED
  BY <1>4, <1>5, <1>6 DEF StoreInv

LEMMA StoreStep ==
    ASSUME StoreInv, [NextStore]_storeVars
    PROVE  StoreInv'
<1>1. CASE UNCHANGED storeVars
  <2>1. UNCHANGED <<content, rpc, listing, late, past>>
    BY <1>1 DEF storeVars
  <2> QED
    BY <2>1, StoreTypes, OtherHandlers DEF StoreInv, TypeOK
<1>2. ASSUME NEW c \in Call,
             \/ GetState(c) \/ SaveState(c) \/ DeleteState(c)
             \/ ListStates(c) \/ WriteFailed(c) \/ End(c)
      PROVE  StoreInv'
  BY <1>2, CallKeeps, IdleKeeps, RepliesKeep, WritesKeep, ListKeeps
     DEF GetState, SaveState, DeleteState, ListStates
<1>3. ASSUME NEW q \in late, Deliver(q) PROVE StoreInv'
  BY <1>3, WritesKeep
<1> QED
  BY <1>1, <1>2, <1>3 DEF NextStore

-----------------------------------------------------------------------------

(* The inductive invariant of the storing half of the backend.               *)
THEOREM StoreInvariant == SpecStore => []StoreInv
<1> QED
  BY StoreInit, StoreStep, PTL DEF SpecStore

(* Handlers, blobs, listings and late writes have their types: no answer, page *)
(* or late write brings a value that the code could not hold.               *)
THEOREM TypeCorrect == SpecStore => []TypeOK
<1>1. StoreInv => TypeOK
  BY DEF StoreInv
<1> QED
  BY <1>1, StoreInvariant, PTL

(* "Not found" of GetState and DeleteState was true at some moment of the call, *)
(* whatever other handlers and late writes did.                             *)
THEOREM NotFound == SpecStore => []NotFoundIsTrue
<1>1. StoreInv => NotFoundIsTrue
  BY DEF StoreInv, HandlerInv, NotFoundIsTrue
<1> QED
  BY <1>1, StoreInvariant, PTL

(* ListStates misses no matching record that nobody wrote meanwhile, but for   *)
(* those whose own download failed.                                         *)
THEOREM Listings == SpecStore => []ListComplete
<1>1. StoreInv => ListComplete
  <2> SUFFICES ASSUME StoreInv, NEW c \in Call, rpc[c].answer = "listed",
                      NEW b \in Unlisted(c)
               PROVE  b \in listing[c].skipped
    BY DEF ListComplete
  <2>1. /\ b \in Blob /\ content[b] \in Record /\ Matches(content[b], rpc[c].status)
        /\ b \notin past[c].changed /\ content[b] \notin listing[c].results
    BY DEF Unlisted
  <2>2. Covered(c) /\ listing[c].names = {} /\ listing[c].unlisted = {}
    BY DEF StoreInv, HandlerInv, Lists
  <2> QED
    BY <2>1, <2>2 DEF Covered
<1> QED
  BY <1>1, StoreInvariant, PTL

-----------------------------------------------------------------------------
(* Which record a resource id is answered with.                              *)

(* A record is in the blob of its id, one under way is sent there, and a     *)
(* record found is from the blob of the id that was asked for.                *)
InItsBlob(v, b) == v \in Record => StateBlob[v.rid] = b

FoundInBlob(c) ==
    rpc[c].answer = "found" => /\ rpc[c].rid \in ResourceID /\ rpc[c].found \in Record
                               /\ InItsBlob(rpc[c].found, BlobOf(c))

PlaceInv == /\ \A b \in Blob : InItsBlob(content[b], b)
            /\ \A q \in late : InItsBlob(q.value, q.blob)
            /\ \A c \in Call : FoundInBlob(c)

LEMMA PutPlaced ==
    ASSUME TypeOK, PlaceInv, NEW b \in Blob, NEW v, Put(b, v), InItsBlob(v, b)
    PROVE  \A a \in Blob : InItsBlob(content'[a], a)
<1>1. content \in [Blob -> Content]
  BY StoreTypes
<1>2. content' = [content EXCEPT ![b] = v]
  BY DEF Put
<1> QED
  BY <1>1, <1>2 DEF PlaceInv

(* A reply other than a record found says nothing of one.                    *)
LEMMA OthersFound ==
    ASSUME TypeOK, PlaceInv, NEW c \in Call,
           \A d \in Call \ {c} : rpc'[d] = rpc[d],
           rpc'[c].answer # "found"
    PROVE  \A d \in Call : FoundInBlob(d)'
  BY DEF PlaceInv, FoundInBlob, BlobOf, InItsBlob

LEMMA PlaceStep == StoreInv /\ PlaceInv /\ [NextStore]_storeVars => PlaceInv'
<1> SUFFICES ASSUME StoreInv, PlaceInv, [NextStore]_storeVars PROVE PlaceInv'
  OBVIOUS
<1>1. /\ TypeOK /\ \A c \in Call : HandlerInv(c) /\ Arguments(c)
      /\ rpc \in [Call -> Handler] /\ late \subseteq Write /\ content \in [Blob -> Content]
  BY StoreTypes DEF StoreInv
<1>2. \A c \in Call : rpc[c].rid \in ResourceID => BlobOf(c) \in Blob
  BY StateStoreAssumption DEF BlobOf
<1>3. ASSUME UNCHANGED <<content, late>>, \A c \in Call : FoundInBlob(c)'
      PROVE  PlaceInv'
  BY <1>3 DEF PlaceInv
<1>4. CASE UNCHANGED storeVars
  <2>1. UNCHANGED <<content, rpc, late>>
    BY <1>4 DEF storeVars
  <2> QED
    BY <2>1 DEF PlaceInv, FoundInBlob, BlobOf
<1>5. ASSUME NEW c \in Call,
             \/ \E r \in ResourceID : CallGet(c, r)
             \/ \E rec \in Record : CallSave(c, rec)
             \/ \E r \in ResourceID : CallDelete(c, r)
             \/ \E f \in Status \union {AnyStatus} : CallList(c, f)
             \/ RejectSave(c) \/ End(c)
      PROVE  PlaceInv'
  <2>1. UNCHANGED <<content, late>>
    BY <1>5 DEF CallGet, CallSave, CallDelete, CallList, RejectSave, End
  <2>2. \E r : rpc' = [rpc EXCEPT ![c] = r] /\ r.answer \in {"none", "error"}
    <3>1. CASE RejectSave(c)
      <4> DEFINE r == [IdleCall EXCEPT !.pc = "answered", !.answer = "error"]
      <4>1. rpc' = [rpc EXCEPT ![c] = r] /\ r.answer = "error"
        BY <3>1 DEF RejectSave, IdleCall
      <4> HIDE DEF r
      <4> QED
        BY <4>1
    <3>2. CASE End(c)
      <4>1. rpc' = [rpc EXCEPT ![c] = IdleCall] /\ IdleCall.answer = "none"
        BY <3>2 DEF End, IdleCall
      <4> QED
        BY <4>1
    <3>3. CASE ~RejectSave(c) /\ ~End(c)
      <4>1. PICK pc, rid, status : Begin(c, pc, rid, status)
        BY <1>5, <3>3 DEF CallGet, CallSave, CallDelete, CallList
      <4> DEFINE r == [IdleCall EXCEPT !.pc = pc, !.rid = rid, !.status = status]
      <4>2. rpc' = [rpc EXCEPT ![c] = r] /\ r.answer = "none"
        BY <4>1 DEF Begin, IdleCall
      <4> HIDE DEF r
      <4> QED
        BY <4>2
    <3> QED
      BY <3>1, <3>2, <3>3
  <2>3. rpc'[c].answer # "found" /\ \A d \in Call \ {c} : rpc'[d] = rpc[d]
    BY <1>1, <2>2
  <2> QED
    BY <1>1, <1>3, <2>1, <2>3, OthersFound
<1>6. ASSUME NEW c \in Call,
             \/ NextPage(c) \/ Download(c) \/ SkipFailed(c)
      PROVE  PlaceInv'
  <2>1. UNCHANGED <<content, late>> /\ rpc[c].answer = "none"
    BY <1>1, <1>6 DEF NextPage, Download, SkipFailed, HandlerInv
  <2>2. UNCHANGED rpc \/ rpc' = [rpc EXCEPT ![c].pc = "download"]
    BY <1>6 DEF NextPage, Download, SkipFailed
  <2>3. rpc'[c].answer # "found" /\ \A d \in Call \ {c} : rpc'[d] = rpc[d]
    BY <1>1, <2>1, <2>2 DEF Handler
  <2> QED
    BY <1>1, <1>3, <2>1, <2>3, OthersFound
<1>7. ASSUME NEW c \in Call, Get(c) PROVE PlaceInv'
  <2> DEFINE v == content[BlobOf(c)]
  <2>1. /\ UNCHANGED <<content, late>> /\ BlobOf(c) \in Blob
        /\ rpc[c].rid \in ResourceID
        /\ \/ Reply(c, "not_found", NoBlob) \/ Reply(c, "error", NoBlob)
           \/ v \in Record /\ Reply(c, "found", v)
    BY <1>1, <1>2, <1>7 DEF Get, Arguments
  <2>2. ASSUME NEW a \in {"not_found", "error"}, Reply(c, a, NoBlob) PROVE PlaceInv'
    <3>1. rpc'[c].answer = a /\ \A d \in Call \ {c} : rpc'[d] = rpc[d]
      BY <1>1, <2>2, ReplyMoves
    <3> QED
      BY <1>1, <1>3, <2>1, <3>1, OthersFound
  <2>3. CASE v \in Record /\ Reply(c, "found", v)
    <3>1. rpc'[c] = [pc |-> "answered", rid |-> rpc[c].rid, status |-> rpc[c].status,
                     answer |-> "found", found |-> v]
      BY <1>1, <2>3 DEF Reply
    <3>2. \A d \in Call \ {c} : rpc'[d] = rpc[d]
      BY <1>1, <2>3 DEF Reply
    <3>3. InItsBlob(v, BlobOf(c))
      BY <2>1 DEF PlaceInv
    <3>4. FoundInBlob(c)'
      BY <2>1, <2>3, <3>1, <3>3 DEF FoundInBlob, BlobOf, InItsBlob
    <3>5. \A d \in Call \ {c} : FoundInBlob(d)'
      BY <3>2 DEF PlaceInv, FoundInBlob, BlobOf, InItsBlob
    <3> QED
      BY <1>3, <2>1, <3>4, <3>5
  <2> QED
    BY <2>1, <2>2, <2>3
<1>8. ASSUME NEW c \in Call, GetFailed(c) \/ ListFailed(c) \/ Listed(c) PROVE PlaceInv'
  <2>1. PICK a \in {"error", "listed"} : Reply(c, a, NoBlob)
    BY <1>8 DEF GetFailed, ListFailed, Listed
  <2>2. UNCHANGED <<content, late>>
    BY <1>8 DEF GetFailed, ListFailed, Listed
  <2>3. rpc'[c].answer = a /\ \A d \in Call \ {c} : rpc'[d] = rpc[d]
    BY <1>1, <2>1, ReplyMoves
  <2> QED
    BY <1>1, <1>3, <2>2, <2>3, OthersFound
<1>9. ASSUME NEW c \in Call, WriteFailed(c) PROVE PlaceInv'
  <2>1. /\ UNCHANGED content /\ Reply(c, "error", NoBlob)
        /\ late' = late \/ late' = late \union {WriteOf(c)}
    BY <1>9 DEF WriteFailed
  <2>2. InItsBlob(WriteOf(c).value, WriteOf(c).blob)
    BY StateStoreAssumption DEF WriteOf, InItsBlob, BlobOf, Record
  <2>3. rpc'[c].answer = "error" /\ \A d \in Call \ {c} : rpc'[d] = rpc[d]
    BY <1>1, <2>1, ReplyMoves
  <2>4. \A d \in Call : FoundInBlob(d)'
    BY <1>1, <2>3, OthersFound
  <2> QED
    BY <2>1, <2>2, <2>4 DEF PlaceInv
<1>10. ASSUME NEW c \in Call, NEW resent \in BOOLEAN, Save(c, resent) \/ Delete(c, resent)
       PROVE  PlaceInv'
  <2>1. /\ UNCHANGED late /\ BlobOf(c) \in Blob /\ rpc[c].answer = "none"
        /\ UNCHANGED rpc \/ Reply(c, "ok", NoBlob) \/ Reply(c, "not_found", NoBlob)
    BY <1>1, <1>2, <1>10 DEF Save, Delete, Arguments, HandlerInv
  <2>2. rpc'[c].answer # "found" /\ \A d \in Call \ {c} : rpc'[d] = rpc[d]
    <3>1. CASE UNCHANGED rpc
      BY <2>1, <3>1
    <3>2. ASSUME NEW a \in {"ok", "not_found"}, Reply(c, a, NoBlob)
          PROVE  rpc'[c].answer # "found" /\ \A d \in Call \ {c} : rpc'[d] = rpc[d]
      BY <1>1, <3>2, ReplyMoves
    <3> QED
      BY <2>1, <3>1, <3>2
  <2>3. \A d \in Call : FoundInBlob(d)'
    BY <1>1, <2>2, OthersFound
  <2>4. \/ UNCHANGED content
        \/ \E v : Put(BlobOf(c), v) /\ InItsBlob(v, BlobOf(c))
    <3>1. InItsBlob(NoBlob, BlobOf(c))
      BY StateStoreAssumption DEF InItsBlob, Record
    <3>2. InItsBlob([rid |-> rpc[c].rid, status |-> rpc[c].status], BlobOf(c))
      BY DEF InItsBlob, BlobOf
    <3> QED
      BY <1>10, <3>1, <3>2 DEF Save, Delete
  <2>5. \A b \in Blob : InItsBlob(content'[b], b)
    BY <1>1, <2>1, <2>4, PutPlaced DEF PlaceInv
  <2> QED
    BY <2>1, <2>3, <2>5 DEF PlaceInv
<1>11. ASSUME NEW q \in late, Deliver(q) PROVE PlaceInv'
  <2>1. /\ UNCHANGED rpc /\ late' \subseteq late /\ q.blob \in Blob
        /\ UNCHANGED content \/ Put(q.blob, q.value)
    BY <1>1, <1>11 DEF Deliver, Write
  <2>2. InItsBlob(q.value, q.blob)
    BY DEF PlaceInv
  <2>3. \A b \in Blob : InItsBlob(content'[b], b)
    BY <1>1, <2>1, <2>2, PutPlaced DEF PlaceInv
  <2> QED
    BY <2>1, <2>3 DEF PlaceInv, FoundInBlob, BlobOf, InItsBlob
<1> QED
  BY <1>4, <1>5, <1>6, <1>7, <1>8, <1>9, <1>10, <1>11
     DEF NextStore, GetState, SaveState, DeleteState, ListStates

LEMMA Placed == SpecStore => []PlaceInv
<1>1. InitStore => PlaceInv
  BY StateStoreAssumption DEF InitStore, PlaceInv, InItsBlob, FoundInBlob, IdleCall, Record
<1> QED
  BY <1>1, PlaceStep, StoreInvariant, PTL DEF SpecStore

(* What GetState finds is of an id with the same blob: the record of another id *)
(* is answered only where sanitizeID merges the two.                          *)
FoundShareBlob ==
    \A c \in Call : rpc[c].answer = "found" => StateBlob[rpc[c].found.rid] = BlobOf(c)

(* So where sanitizeID maps different ids to different blobs, the record of the  *)
(* id is the one retrieved, whatever was saved or arrived late: what            *)
(* store_alias refutes is true of those ids.                                   *)
UnmergedOwnRecord ==
    (\A r, s \in ResourceID : StateBlob[r] = StateBlob[s] => r = s) => GetReturnsOwnRecord

THEOREM RecordsFound == SpecStore => [](FoundShareBlob /\ UnmergedOwnRecord)
<1>1. StoreInv /\ PlaceInv => FoundShareBlob /\ UnmergedOwnRecord
  <2> SUFFICES ASSUME StoreInv, PlaceInv PROVE FoundShareBlob /\ UnmergedOwnRecord
    OBVIOUS
  <2>1. ASSUME NEW c \in Call, rpc[c].answer = "found"
        PROVE  /\ rpc[c].found.rid \in ResourceID
               /\ rpc[c].rid \in ResourceID
               /\ StateBlob[rpc[c].found.rid] = StateBlob[rpc[c].rid]
    BY <2>1 DEF PlaceInv, FoundInBlob, InItsBlob, BlobOf, Record
  <2>2. FoundShareBlob
    BY <2>1 DEF FoundShareBlob, BlobOf
  <2>3. UnmergedOwnRecord
    BY <2>1 DEF UnmergedOwnRecord, GetReturnsOwnRecord
  <2> QED
    BY <2>2, <2>3
<1> QED
  BY <1>1, StoreInvariant, Placed, PTL

=============================================================================
