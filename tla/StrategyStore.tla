--------------------------- MODULE StrategyStore ---------------------------
(***************************************************************************)
(* The strategies of FSU100 and where they live: the registry in memory    *)
(* (core/plugin_store.py), the plugins shipped in the image, and in the    *)
(* results bucket an overrides/ blob per tuned plugin, a strategies/ blob  *)
(* per authored one, and the audit log of the tunings.  LiveEngine         *)
(* (src/engine.py) tunes, saves, deletes and rehydrates them in requests   *)
(* that overlap at every call of the bucket.                               *)
(*                                                                         *)
(* The content of a strategy is the number of the edit that produced it,   *)
(* and 0 for the shipped one.                                              *)
(***************************************************************************)
EXTENDS Integers, FiniteSets

CONSTANTS
  Names,          \* names of strategies
  Shipped,        \* those in the image's plugins directory
  Requests,       \* requests that may be under way at once
  MaxEdits,       \* bound on tunings and saves
  MaxRestarts,    \* bound on the restarts of the process
  NoName

ASSUME NamesAssumption == Shipped \subseteq Names /\ NoName \notin Names
ASSUME BoundsAssumption == MaxEdits \in Nat /\ MaxRestarts \in Nat

Absent == -1
Edits == 1..MaxEdits
Contents == -1..MaxEdits

VARIABLES
  betting,        \* _auto_betting or _manual_betting
  mem,            \* PluginStore._plugins
  override,       \* overrides/<name>.json
  blob,           \* strategies/<name>.json
  audit,          \* the edits with a row in audit/<date>.jsonl
  pc,             \* the call of the bucket, or the step after it, a request is at
  name,           \* the strategy a request is about
  edit,           \* the edit it makes
  todo,           \* the blobs a deletion is still to read
  got,            \* the content it has just read
  seen,           \* the audit log as it read it
  edits,          \* edits so far
  \* history
  restarts,
  tunings,        \* the edits that are tunings
  logged,         \* the tunings whose audit row was written
  late,           \* requests under way when betting came on
  overlapped,     \* two requests were under way at once since the start
  failed,         \* a call of the bucket failed since the start
  raced           \* two appends to the audit log overlapped, ever

reqVars == <<pc, name, edit, todo, got, seen>>
bucketVars == <<override, blob, audit>>
historyVars == <<restarts, tunings, logged, late, overlapped, failed, raced>>
vars == <<betting, mem, override, blob, audit, pc, name, edit, todo, got, seen, edits,
          restarts, tunings, logged, late, overlapped, failed, raced>>

UnderWay == {r \in Requests : pc[r] # "idle"}
Deleting == {"deleting", "deleted", "listing", "hydrating", "loaded"}

----------------------------------------------------------------------------
(* The registry                                                            *)

\* PluginStore.refresh: the plugins on disk, and nothing else.
OnDisk == [n \in Names |-> IF n \in Shipped THEN 0 ELSE Absent]

\* The overrides of the plugins on disk, then every strategy over them, of those
\* blobs that can be read.
Hydrated_OverridesLast(n, overrides, strategies) ==
  IF n \in Shipped \intersect overrides /\ override[n] # Absent THEN override[n]
  ELSE IF n \in strategies /\ blob[n] # Absent THEN blob[n]
  ELSE OnDisk[n]

Hydrated(n, overrides, strategies) ==
  IF n \in strategies /\ blob[n] # Absent THEN blob[n]
  ELSE IF n \in Shipped \intersect overrides /\ override[n] # Absent THEN override[n]
  ELSE OnDisk[n]

\* What a restart would serve under a name.
Boot(n) == Hydrated(n, Names, Names)

----------------------------------------------------------------------------

\* A first start: nothing in the bucket.
Init ==
  /\ betting = FALSE
  /\ mem = OnDisk
  /\ override = [n \in Names |-> Absent]
  /\ blob = [n \in Names |-> Absent]
  /\ audit = {}
  /\ pc = [r \in Requests |-> "idle"]
  /\ name = [r \in Requests |-> NoName]
  /\ edit = [r \in Requests |-> 0]
  /\ todo = [r \in Requests |-> {}]
  /\ got = [r \in Requests |-> Absent]
  /\ seen = [r \in Requests |-> {}]
  /\ edits = 0
  /\ restarts = 0 /\ tunings = {} /\ logged = {} /\ late = {}
  /\ overlapped = FALSE /\ failed = FALSE /\ raced = FALSE

----------------------------------------------------------------------------
(* A request begins, and ends                                              *)

\* The flags are read once, under the lock.
Begin(r, n, stage, e) ==
  /\ pc[r] = "idle"
  /\ ~betting
  /\ pc' = [pc EXCEPT ![r] = stage]
  /\ name' = [name EXCEPT ![r] = n]
  /\ edit' = [edit EXCEPT ![r] = e]
  /\ overlapped' = (overlapped \/ UnderWay # {})
  /\ UNCHANGED <<betting, bucketVars, todo, got, seen, restarts, logged, late, failed, raced>>

NewEdit(e) == edits < MaxEdits /\ e = edits + 1 /\ edits' = e

End(r) ==
  /\ pc' = [pc EXCEPT ![r] = "idle"]
  /\ name' = [name EXCEPT ![r] = NoName]
  /\ edit' = [edit EXCEPT ![r] = 0]
  /\ todo' = [todo EXCEPT ![r] = {}]
  /\ got' = [got EXCEPT ![r] = Absent]
  /\ seen' = [seen EXCEPT ![r] = {}]
  /\ late' = late \ {r}

----------------------------------------------------------------------------
(* apply_variable_patches                                                  *)

\* Definitions named X_... are mutants of X: a bug the code could have had, which
\* some property must notice.

\* The check of the flags and the mutation of the plugin, with no await between.
Tune(r, n) ==
  \E e \in Edits :
    /\ NewEdit(e)
    /\ mem[n] # Absent
    /\ Begin(r, n, "storing", e)
    /\ mem' = [mem EXCEPT ![n] = e]
    /\ tunings' = tunings \union {e}

\* The override is uploaded as the plugin was right after the mutation.
StoreOverride(r) ==
  /\ pc[r] = "storing"
  /\ override' = [override EXCEPT ![name[r]] = edit[r]]
  /\ pc' = [pc EXCEPT ![r] = "auditing"]
  /\ UNCHANGED <<betting, mem, blob, audit, name, edit, todo, got, seen, edits, historyVars>>

\* PermissionDenied is logged, here and for the audit row, and the request goes on.
StoreRefused(r) ==
  /\ pc[r] = "storing"
  /\ pc' = [pc EXCEPT ![r] = "auditing"]
  /\ failed' = TRUE
  /\ UNCHANGED <<betting, mem, bucketVars, name, edit, todo, got, seen, edits, restarts,
                 tunings, logged, late, overlapped, raced>>

\* append_jsonl downloads the log ...
ReadAudit(r) ==
  /\ pc[r] = "auditing"
  /\ pc' = [pc EXCEPT ![r] = "appending"]
  /\ seen' = [seen EXCEPT ![r] = audit]
  /\ raced' = (raced \/ \E s \in Requests \ {r} : pc[s] = "appending")
  /\ UNCHANGED <<betting, mem, bucketVars, name, edit, todo, got, edits, restarts,
                 tunings, logged, late, overlapped, failed>>

WriteAudit_RowOnly(r) ==
  /\ pc[r] = "appending"
  /\ audit' = {edit[r]}
  /\ logged' = logged \union {edit[r]}
  /\ End(r)
  /\ UNCHANGED <<betting, mem, override, blob, edits, restarts, tunings, overlapped, failed,
                 raced>>

\* ... and uploads it again with the row at its end.
WriteAudit(r) ==
  /\ pc[r] = "appending"
  /\ audit' = seen[r] \union {edit[r]}
  /\ logged' = logged \union {edit[r]}
  /\ End(r)
  /\ UNCHANGED <<betting, mem, override, blob, edits, restarts, tunings, overlapped, failed,
                 raced>>

AuditRefused(r) ==
  /\ pc[r] \in {"auditing", "appending"}
  /\ End(r)
  /\ failed' = TRUE
  /\ UNCHANGED <<betting, mem, bucketVars, edits, restarts, tunings, logged, overlapped,
                 raced>>

----------------------------------------------------------------------------
(* save_strategy                                                           *)

Save_FlagsUnread(r, n) ==
  \E e \in Edits :
    /\ NewEdit(e)
    /\ pc[r] = "idle"
    /\ pc' = [pc EXCEPT ![r] = "uploading"]
    /\ name' = [name EXCEPT ![r] = n]
    /\ edit' = [edit EXCEPT ![r] = e]
    /\ overlapped' = (overlapped \/ UnderWay # {})
    /\ UNCHANGED <<betting, mem, bucketVars, todo, got, seen, restarts, tunings, logged,
                   late, failed, raced>>

Save(r, n) ==
  \E e \in Edits :
    /\ NewEdit(e)
    /\ Begin(r, n, "uploading", e)
    /\ UNCHANGED <<mem, tunings>>

UploadStrategy(r) ==
  /\ pc[r] = "uploading"
  /\ blob' = [blob EXCEPT ![name[r]] = edit[r]]
  /\ pc' = [pc EXCEPT ![r] = "uploaded"]
  /\ UNCHANGED <<betting, mem, override, audit, name, edit, todo, got, seen, edits,
                 historyVars>>

\* The coroutine resumes after the upload: PluginStore.upsert.
Upsert(r) ==
  /\ pc[r] = "uploaded"
  /\ mem' = [mem EXCEPT ![name[r]] = edit[r]]
  /\ End(r)
  /\ UNCHANGED <<betting, bucketVars, edits, restarts, tunings, logged, overlapped, failed,
                 raced>>

----------------------------------------------------------------------------
(* delete_strategy                                                         *)

Delete(r, n) ==
  /\ Begin(r, n, "deleting", 0)
  /\ UNCHANGED <<mem, edits, tunings>>

DeleteBlob(r) ==
  /\ pc[r] = "deleting"
  /\ blob' = [blob EXCEPT ![name[r]] = Absent]
  /\ pc' = [pc EXCEPT ![r] = "deleted"]
  /\ UNCHANGED <<betting, mem, override, audit, name, edit, todo, got, seen, edits,
                 historyVars>>

\* remove, then refresh: what is on disk is all that is left.
Refresh(r) ==
  /\ pc[r] = "deleted"
  /\ mem' = OnDisk
  /\ pc' = [pc EXCEPT ![r] = "listing"]
  /\ UNCHANGED <<betting, bucketVars, name, edit, todo, got, seen, edits, historyVars>>

\* hydrate_strategies_from_gcs lists the strategies ...
ListBlobs_OwnExcluded(r) ==
  /\ pc[r] = "listing"
  /\ todo' = [todo EXCEPT ![r] = {n \in Names \ {name[r]} : blob[n] # Absent}]
  /\ pc' = [pc EXCEPT ![r] = "hydrating"]
  /\ UNCHANGED <<betting, mem, bucketVars, name, edit, got, seen, edits, historyVars>>

ListBlobs(r) ==
  /\ pc[r] = "listing"
  /\ todo' = [todo EXCEPT ![r] = {n \in Names : blob[n] # Absent}]
  /\ pc' = [pc EXCEPT ![r] = "hydrating"]
  /\ UNCHANGED <<betting, mem, bucketVars, name, edit, got, seen, edits, historyVars>>

ReadBlob_Missing(r, n) ==
  /\ pc[r] = "hydrating"
  /\ n \in todo[r]
  /\ name' = [name EXCEPT ![r] = n]
  /\ got' = [got EXCEPT ![r] = blob[n]]
  /\ pc' = [pc EXCEPT ![r] = "loaded"]
  /\ UNCHANGED <<betting, mem, bucketVars, edit, todo, seen, edits, historyVars>>

\* ... and reads them one by one; one that has gone in the meantime is skipped.
ReadBlob(r, n) ==
  /\ pc[r] = "hydrating"
  /\ n \in todo[r]
  /\ IF blob[n] = Absent
     THEN /\ todo' = [todo EXCEPT ![r] = @ \ {n}]
          /\ UNCHANGED <<pc, name, got>>
     ELSE /\ name' = [name EXCEPT ![r] = n]
          /\ got' = [got EXCEPT ![r] = blob[n]]
          /\ pc' = [pc EXCEPT ![r] = "loaded"]
          /\ UNCHANGED todo
  /\ UNCHANGED <<betting, mem, bucketVars, edit, seen, edits, historyVars>>

LoadBlob(r) ==
  /\ pc[r] = "loaded"
  /\ mem' = [mem EXCEPT ![name[r]] = got[r]]
  /\ todo' = [todo EXCEPT ![r] = @ \ {name[r]}]
  /\ got' = [got EXCEPT ![r] = Absent]
  /\ pc' = [pc EXCEPT ![r] = "hydrating"]
  /\ UNCHANGED <<betting, bucketVars, name, edit, seen, edits, historyVars>>

\* A blob that cannot be read is skipped.
ReadRefused(r, n) ==
  /\ pc[r] = "hydrating"
  /\ n \in todo[r]
  /\ todo' = [todo EXCEPT ![r] = @ \ {n}]
  /\ failed' = TRUE
  /\ UNCHANGED <<betting, mem, bucketVars, pc, name, edit, got, seen, edits, restarts,
                 tunings, logged, late, overlapped, raced>>

HydrateEnds(r) ==
  /\ pc[r] = "hydrating"
  /\ todo[r] = {}
  /\ End(r)
  /\ UNCHANGED <<betting, mem, bucketVars, edits, restarts, tunings, logged, overlapped,
                 failed, raced>>

----------------------------------------------------------------------------
(* Failures, flags and restarts                                            *)

\* Any other error of a call to the bucket ends the request, the call done or not; of
\* an upload or a deletion so does PermissionDenied.
Raise(r) ==
  /\ \/ /\ pc[r] = "storing"
        /\ override' \in {override, [override EXCEPT ![name[r]] = edit[r]]}
        /\ UNCHANGED <<blob, audit>>
     \/ /\ pc[r] = "appending"
        /\ audit' \in {audit, seen[r] \union {edit[r]}}
        /\ UNCHANGED <<override, blob>>
     \/ /\ pc[r] = "uploading"
        /\ blob' \in {blob, [blob EXCEPT ![name[r]] = edit[r]]}
        /\ UNCHANGED <<override, audit>>
     \/ /\ pc[r] = "deleting"
        /\ blob' \in {blob, [blob EXCEPT ![name[r]] = Absent]}
        /\ UNCHANGED <<override, audit>>
     \/ /\ pc[r] \in {"auditing", "listing", "hydrating"}
        /\ UNCHANGED bucketVars
  /\ End(r)
  /\ failed' = TRUE
  /\ UNCHANGED <<betting, mem, edits, restarts, tunings, logged, overlapped, raced>>

SetBetting ==
  /\ betting' = ~betting
  /\ late' = IF betting THEN {} ELSE UnderWay
  /\ UNCHANGED <<mem, bucketVars, reqVars, edits, restarts, tunings, logged, overlapped,
                 failed, raced>>

\* The lifespan hydrates overrides, then strategies, before any request; what it
\* cannot read it skips.
Restart ==
  /\ restarts < MaxRestarts
  /\ restarts' = restarts + 1
  /\ betting' = FALSE
  /\ \E overrides, strategies \in SUBSET Names :
       /\ mem' = [n \in Names |-> Hydrated(n, overrides, strategies)]
       /\ failed' = (overrides \intersect strategies # Names)
  /\ pc' = [r \in Requests |-> "idle"]
  /\ name' = [r \in Requests |-> NoName]
  /\ edit' = [r \in Requests |-> 0]
  /\ todo' = [r \in Requests |-> {}]
  /\ got' = [r \in Requests |-> Absent]
  /\ seen' = [r \in Requests |-> {}]
  /\ late' = {}
  /\ overlapped' = FALSE
  /\ UNCHANGED <<bucketVars, edits, tunings, logged, raced>>

----------------------------------------------------------------------------

Request(r) ==
  \/ \E n \in Names : Tune(r, n) \/ Save(r, n) \/ Delete(r, n)
  \/ StoreOverride(r) \/ StoreRefused(r) \/ ReadAudit(r) \/ WriteAudit(r) \/ AuditRefused(r)
  \/ UploadStrategy(r) \/ Upsert(r)
  \/ DeleteBlob(r) \/ Refresh(r) \/ ListBlobs(r)
  \/ \E n \in Names : ReadBlob(r, n) \/ ReadRefused(r, n)
  \/ LoadBlob(r) \/ HydrateEnds(r)
  \/ Raise(r)

Next ==
  \/ \E r \in Requests : Request(r)
  \/ SetBetting
  \/ Restart

Spec == Init /\ [][Next]_vars

----------------------------------------------------------------------------
(* Properties                                                              *)

\* The types of the variables, and which request holds what.
TypeOK ==
  /\ betting \in BOOLEAN
  /\ mem \in [Names -> Contents]
  /\ override \in [Names -> Contents]
  /\ blob \in [Names -> Contents]
  /\ audit \subseteq Edits
  /\ pc \in [Requests -> {"idle", "storing", "auditing", "appending", "uploading",
                          "uploaded"} \union Deleting]
  /\ name \in [Requests -> Names \union {NoName}]
  /\ edit \in [Requests -> 0..MaxEdits]
  /\ todo \in [Requests -> SUBSET Names]
  /\ got \in [Requests -> Contents]
  /\ seen \in [Requests -> SUBSET Edits]
  /\ edits \in 0..MaxEdits
  /\ restarts \in Nat
  /\ tunings \subseteq Edits /\ logged \subseteq Edits
  /\ late \subseteq Requests
  /\ overlapped \in BOOLEAN /\ failed \in BOOLEAN /\ raced \in BOOLEAN
  /\ \A r \in Requests : pc[r] # "idle" => name[r] \in Names
  /\ \A r \in Requests : pc[r] \in {"storing", "auditing", "appending", "uploading",
                                    "uploaded"} => edit[r] \in Edits
  /\ \A r \in Requests : pc[r] = "loaded" => got[r] # Absent

\* A deletion empties the registry of every authored strategy and reads them back one
\* by one (delete_strategy).  However requests overlap it, once no deletion is under
\* way a strategy in the bucket is in memory, but for one whose save is about to put
\* it there, and unless a call of the bucket failed.
AuthoredVisible ==
  ~failed /\ (\A r \in Requests : pc[r] \notin Deleting) =>
    \A n \in Names :
      blob[n] # Absent /\ (\A r \in Requests : pc[r] = "uploaded" => name[r] # n)
        => mem[n] # Absent

\* With nothing under way, no overlap and no failure since the start, a restart would
\* serve what memory serves: but for a tuning of an authored strategy, which the
\* strategy's blob shadows, and a tuning that a deletion put out of memory, which
\* comes back (hydrate_overrides_from_gcs, hydrate_strategies_from_gcs).
RestartKeeps ==
  UnderWay = {} /\ ~overlapped /\ ~failed =>
    \A n \in Names :
      \/ mem[n] = Boot(n)
      \/ mem[n] \in tunings /\ blob[n] # Absent
      \/ mem[n] = 0 /\ override[n] \in tunings

\* A row written to the audit log stays there, unless two appends overlapped
\* (append_jsonl: "not safe for concurrent writers").
AuditKeeps == ~raced => logged \subseteq audit

\* While betting is on, the strategies in memory change only under requests that
\* were let in before it came on, and never by a tuning.
FrozenButForLate ==
  [][betting /\ betting' /\ mem' # mem =>
       /\ tunings' = tunings
       /\ \E r \in late : pc'[r] # pc[r]]_vars
=============================================================================
