----------------------------- MODULE StateStore -----------------------------
(***************************************************************************)
(* The storing half of the iac.state backend: GetState, SaveState,         *)
(* ListStates and DeleteState (internal/statebackend_server.go) on blobs   *)
(* of Azure (internal/statebackend/azure_blob.go). None of them takes the  *)
(* store's mutex or looks at a lease: each is one or more plain requests,  *)
(* and those of concurrent calls interleave.                               *)
(***************************************************************************)
EXTENDS FiniteSets, Naturals

CONSTANTS Call,        \* RPC handler goroutines
          ResourceID,  \* resource ids named by the host
          Blob,        \* state blobs under the prefix
          StateBlob,   \* StateBlob[r]: sanitizeID maps several ids to one blob
          Status,      \* values of the one filtered field that is modelled
          AnyStatus,   \* a filter without an allow-listed key
          MaxLate,     \* bound: writes still travelling after their caller gave up
          NoBlob, Corrupt, \* contents: no blob, and bytes that do not decode
          NoResource, NoStatus

ASSUME StateStoreAssumption ==
    /\ StateBlob \in [ResourceID -> Blob]
    /\ AnyStatus \notin Status /\ NoStatus \notin Status \union {AnyStatus}
    /\ NoResource \notin ResourceID
    /\ NoBlob \notin [rid : ResourceID, status : Status]
    /\ Corrupt \notin [rid : ResourceID, status : Status] \union {NoBlob}
    /\ MaxLate \in Nat

VARIABLES content,  \* content[b]: the record stored in blob b
          rpc,      \* rpc[c]: where the handler c is, its arguments and its answer
          listing,  \* listing[c]: the local variables of a ListStates
          late,     \* writes whose caller returned before they took effect
          past      \* auxiliary: what happened to the blobs since call c began

storeVars == <<content, rpc, listing, late, past>>

Record  == [rid : ResourceID, status : Status]
Content == Record \union {NoBlob, Corrupt}

Matches(rec, filter) == filter \in {AnyStatus, rec.status}

(* Arguments: an id (get, delete), a record (save), a status (list).       *)
IdleCall  == [pc |-> "idle", rid |-> NoResource, status |-> NoStatus,
              answer |-> "none", found |-> NoBlob]
NoListing == [unlisted |-> {}, names |-> {}, results |-> {}, skipped |-> {}]
NoHistory == [changed |-> {}, absent |-> {}]

InitStore ==
    /\ content \in [Blob -> {NoBlob, Corrupt}]
    /\ rpc = [c \in Call |-> IdleCall]
    /\ listing = [c \in Call |-> NoListing]
    /\ late = {}
    /\ past = [c \in Call |-> NoHistory]

-----------------------------------------------------------------------------
(* Azure's side of a write, and the history every call keeps of it.        *)

Put(b, v) ==
    /\ content' = [content EXCEPT ![b] = v]
    /\ past' = [c \in Call |-> IF rpc[c].pc = "idle" THEN past[c] ELSE
                  [changed |-> past[c].changed \union {b},
                   absent  |-> past[c].absent \union (IF v = NoBlob THEN {b} ELSE {})]]

Begin(c, pc, rid, status) ==
    /\ rpc[c].pc = "idle"
    /\ rpc' = [rpc EXCEPT ![c] = [IdleCall EXCEPT !.pc = pc, !.rid = rid, !.status = status]]
    /\ past' = [past EXCEPT ![c] = [changed |-> {},
                                    absent  |-> {b \in Blob : content[b] = NoBlob}]]

Reply(c, answer, found) ==
    rpc' = [rpc EXCEPT ![c] = [pc |-> "answered", rid |-> @.rid, status |-> @.status,
                               answer |-> answer, found |-> found]]

BlobOf(c) == StateBlob[rpc[c].rid]

(* The host has the answer; the goroutine ends. *)
End(c) == /\ rpc[c].pc = "answered"
          /\ rpc' = [rpc EXCEPT ![c] = IdleCall]
          /\ listing' = [listing EXCEPT ![c] = NoListing]
          /\ past' = [past EXCEPT ![c] = NoHistory]
          /\ UNCHANGED <<content, late>>

-----------------------------------------------------------------------------
(* GetState *)

CallGet(c, r) == Begin(c, "get", r, NoStatus) /\ UNCHANGED <<content, listing, late>>

(* Fault: every failed download is taken for a missing blob. *)
GetFailedIsNotFound(c) ==
    /\ rpc[c].pc = "get"
    /\ Reply(c, "not_found", NoBlob)
    /\ UNCHANGED <<content, listing, late, past>>

(* Throttled, no network, or a body that breaks off. *)
GetFailed(c) ==
    /\ rpc[c].pc = "get"
    /\ Reply(c, "error", NoBlob)
    /\ UNCHANGED <<content, listing, late, past>>

(* Fault: the error of json.Unmarshal is ignored. *)
GetUndecoded(c) ==
    LET v == content[BlobOf(c)] IN
    /\ rpc[c].pc = "get"
    /\ \/ v = NoBlob /\ Reply(c, "not_found", NoBlob)
       \/ v # NoBlob /\ Reply(c, "found", v)
    /\ UNCHANGED <<content, listing, late, past>>

(* A missing blob is the answer Exists = false, not an error. *)
Get(c) ==
    LET v == content[BlobOf(c)] IN
    /\ rpc[c].pc = "get"
    /\ \/ v = NoBlob  /\ Reply(c, "not_found", NoBlob)
       \/ v = Corrupt /\ Reply(c, "error", NoBlob)
       \/ v \in Record /\ Reply(c, "found", v)
    /\ UNCHANGED <<content, listing, late, past>>

-----------------------------------------------------------------------------
(* SaveState and DeleteState. "resent": the reply is lost and the SDK      *)
(* repeats the request, which then finds its own effect, or another's.     *)

CallSave(c, rec) == Begin(c, "save", rec.rid, rec.status) /\ UNCHANGED <<content, listing, late>>
(* A record without a resource id is refused before any request. *)
RejectSave(c) ==
    /\ rpc[c].pc = "idle"
    /\ rpc' = [rpc EXCEPT ![c] = [IdleCall EXCEPT !.pc = "answered", !.answer = "error"]]
    /\ UNCHANGED <<content, listing, late, past>>

CallDelete(c, r) == Begin(c, "delete", r, NoStatus) /\ UNCHANGED <<content, listing, late>>

Save(c, resent) ==
    /\ rpc[c].pc = "save"
    /\ Put(BlobOf(c), [rid |-> rpc[c].rid, status |-> rpc[c].status])
    /\ IF resent THEN UNCHANGED rpc ELSE Reply(c, "ok", NoBlob)
    /\ UNCHANGED <<listing, late>>

Delete(c, resent) ==
    LET b == BlobOf(c) IN
    /\ rpc[c].pc = "delete"
    /\ \/ /\ content[b] # NoBlob
          /\ Put(b, NoBlob)
          /\ IF resent THEN UNCHANGED rpc ELSE Reply(c, "ok", NoBlob)
       \/ /\ content[b] = NoBlob /\ ~resent
          /\ Reply(c, "not_found", NoBlob)
          /\ UNCHANGED <<content, past>>
    /\ UNCHANGED <<listing, late>>

(* The request fails or the context of the call ends; it may arrive late.  *)
WriteOf(c) == [blob |-> BlobOf(c),
               value |-> IF rpc[c].pc = "delete" THEN NoBlob
                         ELSE [rid |-> rpc[c].rid, status |-> rpc[c].status]]

WriteFailed(c) ==
    /\ rpc[c].pc \in {"save", "delete"}
    /\ Reply(c, "error", NoBlob)
    /\ \/ UNCHANGED late
       \/ /\ late' = late \union {WriteOf(c)}
          /\ Cardinality(late') <= MaxLate
    /\ UNCHANGED <<content, listing, past>>

Deliver(q) == /\ late' = late \ {q}
              /\ \/ Put(q.blob, q.value)
                 \/ UNCHANGED <<content, past>>
              /\ UNCHANGED <<rpc, listing>>

-----------------------------------------------------------------------------
(* ListStates: the names, page by page, then one download per name.        *)

CallList(c, filter) ==
    /\ Begin(c, "pages", NoResource, filter)
    /\ listing' = [listing EXCEPT ![c] = [NoListing EXCEPT !.unlisted = Blob]]
    /\ UNCHANGED <<content, late>>

(* Fault: without the loop over pager.More() only one page is read. *)
OnePage(c) ==
    LET l == listing[c] IN
    /\ rpc[c].pc = "pages"
    /\ \E page \in (SUBSET l.unlisted) \ {{}} :
         listing' = [listing EXCEPT ![c] =
             [l EXCEPT !.unlisted = {}, !.names = {b \in page : content[b] # NoBlob}]]
    /\ rpc' = [rpc EXCEPT ![c].pc = "download"]
    /\ UNCHANGED <<content, late, past>>

(* A page reports the blobs of its range that exist when it is served.     *)
NextPage(c) ==
    LET l == listing[c] IN
    /\ rpc[c].pc = "pages"
    /\ \E page \in (SUBSET l.unlisted) \ {{}} :
         /\ listing' = [listing EXCEPT ![c] =
                [l EXCEPT !.unlisted = @ \ page,
                          !.names = @ \union {b \in page : content[b] # NoBlob}]]
         /\ IF page = l.unlisted THEN rpc' = [rpc EXCEPT ![c].pc = "download"]
                                 ELSE UNCHANGED rpc
    /\ UNCHANGED <<content, late, past>>

(* A record that decodes and matches is added, anything else is skipped:   *)
(* a blob deleted since it was listed, and bytes that do not decode.       *)
Download(c) ==
    LET l == listing[c] IN
    /\ rpc[c].pc = "download"
    /\ \E b \in l.names :
         listing' = [listing EXCEPT ![c] =
             [l EXCEPT !.names = @ \ {b},
                       !.results = @ \union
                           {rec \in {content[b]} \intersect Record : Matches(rec, rpc[c].status)}]]
    /\ UNCHANGED <<content, rpc, late, past>>

(* So is a blob whose download failed for the moment, *)
SkipFailed(c) ==
    LET l == listing[c] IN
    /\ rpc[c].pc = "download"
    /\ \E b \in l.names :
         listing' = [listing EXCEPT ![c] =
             [l EXCEPT !.names = @ \ {b}, !.skipped = @ \union {b}]]
    /\ UNCHANGED <<content, rpc, late, past>>

(* but the end of the call's context, and a failed page, end the listing.  *)
ListFailed(c) == /\ rpc[c].pc \in {"pages", "download"}
                 /\ Reply(c, "error", NoBlob)
                 /\ listing' = [listing EXCEPT ![c] = NoListing]
                 /\ UNCHANGED <<content, late, past>>

Listed(c) == /\ rpc[c].pc = "download"
             /\ listing[c].names = {}
             /\ Reply(c, "listed", NoBlob)
             /\ UNCHANGED <<content, listing, late, past>>

-----------------------------------------------------------------------------

GetState(c)    == (\E r \in ResourceID : CallGet(c, r)) \/ Get(c) \/ GetFailed(c)
SaveState(c)   == (\E rec \in Record : CallSave(c, rec)) \/ RejectSave(c) \/ \E resent \in BOOLEAN : Save(c, resent)
DeleteState(c) == (\E r \in ResourceID : CallDelete(c, r)) \/ \E resent \in BOOLEAN : Delete(c, resent)
ListStates(c)  == \/ \E filter \in Status \union {AnyStatus} : CallList(c, filter)
                  \/ NextPage(c) \/ Download(c) \/ SkipFailed(c) \/ ListFailed(c) \/ Listed(c)

NextStore == \/ \E c \in Call : \/ GetState(c) \/ SaveState(c) \/ DeleteState(c)
                                \/ ListStates(c) \/ WriteFailed(c) \/ End(c)
             \/ \E q \in late : Deliver(q)

SpecStore == InitStore /\ [][NextStore]_storeVars

-----------------------------------------------------------------------------
(* Properties *)

(* The values of the variables.                                            *)
TypeOK ==
    /\ content \in [Blob -> Content]
    /\ rpc \in [Call -> [pc : {"idle", "get", "save", "delete", "pages", "download", "answered"},
                         rid : ResourceID \union {NoResource},
                         status : Status \union {AnyStatus, NoStatus},
                         answer : {"none", "ok", "not_found", "found", "error", "listed"},
                         found : Record \union {NoBlob}]]
    /\ listing \in [Call -> [unlisted : SUBSET Blob, names : SUBSET Blob,
                             results : SUBSET Record, skipped : SUBSET Blob]]
    /\ late \subseteq [blob : Blob, value : Record \union {NoBlob}]
    /\ past \in [Call -> [changed : SUBSET Blob, absent : SUBSET Blob]]
    /\ \A c \in Call : /\ rpc[c].pc \in {"get", "save", "delete"} => rpc[c].rid \in ResourceID
                       /\ rpc[c].pc = "save" => rpc[c].status \in Status

(* "Not found" is never a guess: when GetState says that there is no       *)
(* record, or DeleteState that there was none, the blob was missing at     *)
(* some moment of the call. A host that trusts the answer creates anew.    *)
NotFoundIsTrue ==
    \A c \in Call : rpc[c].answer = "not_found" => BlobOf(c) \in past[c].absent

(* A listing that succeeds has every matching record that no write touched *)
(* during the call, except those whose own download failed.                *)
Unlisted(c) == {b \in Blob : /\ content[b] \in Record
                             /\ Matches(content[b], rpc[c].status)
                             /\ b \notin past[c].changed
                             /\ content[b] \notin listing[c].results}

ListComplete ==
    \A c \in Call : rpc[c].answer = "listed" => Unlisted(c) \subseteq listing[c].skipped

(* azure_blob.go:194-196: only genuinely unreadable blobs are skipped.     *)
OnlyUnreadableSkipped ==
    \A c \in Call : rpc[c].answer = "listed" => Unlisted(c) = {}

(* azure_blob.go:147: the record of a resource id is the one retrieved.    *)
GetReturnsOwnRecord ==
    \A c \in Call : rpc[c].answer = "found" => rpc[c].found.rid = rpc[c].rid

=============================================================================
