------------------------ MODULE StrategyStoreProofs ------------------------
(***************************************************************************)
(* The invariants of StrategyStore, proved for any names, requests and     *)
(* bounds.                                                                 *)
(***************************************************************************)
EXTENDS StrategyStore, TLAPS

\* A strategy of the bucket that is not in memory is about to get there.
OnItsWay(n) ==
  \E r \in Requests :
    \/ pc[r] = "uploaded" /\ name[r] = n
    \/ pc[r] \in {"deleted", "listing"}
    \/ pc[r] \in {"hydrating", "loaded"} /\ n \in todo[r]

VisibleInv ==
  /\ TypeOK
  /\ ~failed => \A n \in Names : blob[n] # Absent => mem[n] # Absent \/ OnItsWay(n)

\* As long as no two appends overlapped, a request that has read the log holds all
\* of it.
AuditInv ==
  /\ TypeOK
  /\ ~raced =>
       /\ logged \subseteq audit
       /\ \A r \in Requests : pc[r] = "appending" =>
            logged \subseteq seen[r] /\ \A s \in Requests \ {r} : pc[s] # "appending"

\* Every request under way while betting is on was let in before.
LateInv == TypeOK /\ (betting => UnderWay \subseteq late)

\* What RestartKeeps says of one name.
Kept(n) ==
  \/ mem[n] = Boot(n)
  \/ mem[n] \in tunings /\ blob[n] # Absent
  \/ mem[n] = 0 /\ override[n] \in tunings

\* Where contents come from.
Provenance ==
  /\ \A n \in Names : override[n] \in tunings \union {Absent}
  /\ \A n \in Names : blob[n] \in Edits \union {Absent}
  /\ \A n \in Names : mem[n] = 0 => n \in Shipped
  /\ \A r \in Requests : pc[r] = "storing" => edit[r] \in tunings
  /\ \A r \in Requests : pc[r] = "loaded" => got[r] \in Edits

\* What a request that no other overlaps leaves for its later steps to repair.
StageKept(r) ==
  /\ pc[r] \in {"auditing", "appending", "uploading", "deleting"} => \A n \in Names : Kept(n)
  /\ pc[r] = "storing" =>
       /\ mem[name[r]] = edit[r]
       /\ name[r] \in Shipped \/ blob[name[r]] # Absent
       /\ \A n \in Names \ {name[r]} : Kept(n)
  /\ pc[r] = "uploaded" =>
       blob[name[r]] = edit[r] /\ \A n \in Names \ {name[r]} : Kept(n)
  /\ pc[r] = "listing" => mem = OnDisk
  /\ pc[r] \in {"hydrating", "loaded"} =>
       \A n \in Names : IF n \in todo[r] THEN blob[n] # Absent ELSE Kept(n)
  /\ pc[r] = "loaded" => got[r] = blob[name[r]]

Sole == \A r, s \in UnderWay : r = s

KeepInv ==
  /\ TypeOK
  /\ Provenance
  /\ ~overlapped /\ ~failed =>
       /\ Sole
       /\ UnderWay = {} => \A n \in Names : Kept(n)
       /\ \A r \in Requests : StageKept(r)

----------------------------------------------------------------------------
(* Types                                                                   *)

\* Numbers of edits are contents, and so are the marks of absence and of the image.
LEMMA ContentsFacts ==
  /\ Absent \in Contents /\ 0 \in Contents /\ Edits \subseteq Contents
  /\ 0 \in 0..MaxEdits /\ Edits \subseteq 0..MaxEdits
  /\ Absent \notin Edits /\ 0 # Absent /\ 0 \notin Edits
BY BoundsAssumption DEF Absent, Contents, Edits

\* What is on disk, and what is hydrated, are contents.
LEMMA HydratedType ==
  ASSUME TypeOK, NEW overrides, NEW strategies, NEW n \in Names
  PROVE  OnDisk[n] \in Contents /\ Hydrated(n, overrides, strategies) \in Contents
<1>1. OnDisk[n] \in Contents
  BY ContentsFacts DEF OnDisk
<1>2. override[n] \in Contents /\ blob[n] \in Contents
  BY DEF TypeOK
<1> QED
  BY <1>1, <1>2 DEF Hydrated

\* A request that ends keeps the types of what the requests hold.
LEMMA EndType ==
  ASSUME TypeOK, NEW r \in Requests, End(r)
  PROVE  /\ pc' \in [Requests -> {"idle", "storing", "auditing", "appending", "uploading",
                                  "uploaded"} \union Deleting]
         /\ name' \in [Requests -> Names \union {NoName}]
         /\ edit' \in [Requests -> 0..MaxEdits]
         /\ todo' \in [Requests -> SUBSET Names]
         /\ got' \in [Requests -> Contents]
         /\ seen' \in [Requests -> SUBSET Edits]
         /\ late' \subseteq Requests
         /\ \A s \in Requests : pc'[s] # "idle" => name'[s] \in Names
         /\ \A s \in Requests : pc'[s] \in {"storing", "auditing", "appending", "uploading",
                                            "uploaded"} => edit'[s] \in Edits
         /\ \A s \in Requests : pc'[s] = "loaded" => got'[s] # Absent
<1>1. \A s \in Requests : pc'[s] # "idle" =>
        s # r /\ pc'[s] = pc[s] /\ name'[s] = name[s] /\ edit'[s] = edit[s] /\ got'[s] = got[s]
  BY DEF TypeOK, End
<1>2. /\ pc' \in [Requests -> {"idle", "storing", "auditing", "appending", "uploading",
                                "uploaded"} \union Deleting]
      /\ name' \in [Requests -> Names \union {NoName}]
      /\ edit' \in [Requests -> 0..MaxEdits]
      /\ todo' \in [Requests -> SUBSET Names]
      /\ got' \in [Requests -> Contents]
      /\ seen' \in [Requests -> SUBSET Edits]
      /\ late' \subseteq Requests
  BY ContentsFacts DEF TypeOK, End
<1>3. \A s \in Requests : pc'[s] # "idle" => name'[s] \in Names
  BY <1>1 DEF TypeOK
<1>4. \A s \in Requests : pc'[s] \in {"storing", "auditing", "appending", "uploading",
                                      "uploaded"} => edit'[s] \in Edits
  BY <1>1 DEF TypeOK
<1>5. \A s \in Requests : pc'[s] = "loaded" => got'[s] # Absent
  BY <1>1 DEF TypeOK
<1> QED
  BY <1>2, <1>3, <1>4, <1>5

\* A request that begins keeps the types, too.
LEMMA BeginType ==
  ASSUME TypeOK, NEW r \in Requests, NEW n \in Names, NEW e \in 0..MaxEdits, NEW stage,
         Begin(r, n, stage, e),
         stage \in {"storing", "uploading", "deleting"}, stage # "deleting" => e \in Edits,
         edits' \in 0..MaxEdits, tunings' \subseteq Edits, mem' \in [Names -> Contents]
  PROVE  TypeOK'
<1> USE DEF bucketVars, Deleting
<1>1. /\ pc' \in [Requests -> {"idle", "storing", "auditing", "appending", "uploading",
                                "uploaded"} \union Deleting]
      /\ name' \in [Requests -> Names \union {NoName}]
      /\ edit' \in [Requests -> 0..MaxEdits]
      /\ overlapped' \in BOOLEAN
  BY DEF TypeOK, Begin
<1>2. \A s \in Requests : s # r => pc'[s] = pc[s] /\ name'[s] = name[s] /\ edit'[s] = edit[s]
  BY DEF TypeOK, Begin
<1>3. pc'[r] = stage /\ name'[r] = n /\ edit'[r] = e
  BY DEF TypeOK, Begin
<1>4. \A s \in Requests : pc'[s] # "idle" => name'[s] \in Names
  BY <1>2, <1>3 DEF TypeOK
<1>5. \A s \in Requests : pc'[s] \in {"storing", "auditing", "appending", "uploading",
                                      "uploaded"} => edit'[s] \in Edits
  BY <1>2, <1>3 DEF TypeOK
<1>6. \A s \in Requests : pc'[s] = "loaded" => got'[s] # Absent
  BY <1>2, <1>3 DEF TypeOK, Begin
<1>7. UNCHANGED <<betting, override, blob, audit, todo, got, seen, restarts, logged, late,
                  failed, raced>>
  BY DEF Begin
<1> QED
  BY <1>1, <1>4, <1>5, <1>6, <1>7 DEF TypeOK

\* An edit takes the next number.
LEMMA NewEditType ==
  ASSUME TypeOK, NEW e \in Edits, NewEdit(e)
  PROVE  edits' \in 0..MaxEdits /\ e \in 0..MaxEdits
BY ContentsFacts DEF TypeOK, NewEdit, Edits

\* Every step of a request keeps the types.
LEMMA RequestType ==
  ASSUME TypeOK, NEW r \in Requests, Request(r)
  PROVE  TypeOK'
<1> USE DEF bucketVars, historyVars
<1>1. ASSUME NEW n \in Names, Tune(r, n) PROVE TypeOK'
  <2>1. PICK e \in Edits : /\ NewEdit(e)
                           /\ Begin(r, n, "storing", e)
                           /\ mem' = [mem EXCEPT ![n] = e]
                           /\ tunings' = tunings \union {e}
    BY <1>1 DEF Tune
  <2>2. mem' \in [Names -> Contents] /\ tunings' \subseteq Edits
    BY <2>1, ContentsFacts DEF TypeOK
  <2> QED
    BY <2>1, <2>2, NewEditType, BeginType
<1>2. ASSUME NEW n \in Names, Save(r, n) PROVE TypeOK'
  <2>1. PICK e \in Edits : /\ NewEdit(e)
                           /\ Begin(r, n, "uploading", e)
                           /\ UNCHANGED <<mem, tunings>>
    BY <1>2 DEF Save
  <2>2. mem' \in [Names -> Contents] /\ tunings' \subseteq Edits
    BY <2>1 DEF TypeOK
  <2> QED
    BY <2>1, <2>2, NewEditType, BeginType
<1>3. ASSUME NEW n \in Names, Delete(r, n) PROVE TypeOK'
  <2>1. Begin(r, n, "deleting", 0) /\ UNCHANGED <<mem, edits, tunings>>
    BY <1>3 DEF Delete
  <2>2. mem' \in [Names -> Contents] /\ tunings' \subseteq Edits /\ edits' \in 0..MaxEdits
    BY <2>1 DEF TypeOK
  <2> QED
    BY <2>1, <2>2, ContentsFacts, BeginType
<1>4. CASE StoreOverride(r)
  <2>1. name[r] \in Names /\ edit[r] \in Edits
    BY <1>4 DEF TypeOK, StoreOverride
  <2>2. override' \in [Names -> Contents]
    BY <1>4, <2>1, ContentsFacts DEF TypeOK, StoreOverride
  <2> QED
    BY <1>4, <2>2 DEF TypeOK, StoreOverride
<1>5. CASE StoreRefused(r)
  BY <1>5 DEF TypeOK, StoreRefused
<1>6. CASE ReadAudit(r)
  <2>1. raced' \in BOOLEAN
    BY <1>6 DEF TypeOK, ReadAudit
  <2> QED
    BY <1>6, <2>1 DEF TypeOK, ReadAudit
<1>7. CASE WriteAudit(r)
  <2>1. edit[r] \in Edits /\ seen[r] \subseteq Edits
    BY <1>7 DEF TypeOK, WriteAudit
  <2>2. audit' \subseteq Edits /\ logged' \subseteq Edits
    BY <1>7, <2>1 DEF TypeOK, WriteAudit
  <2>3. End(r) /\ UNCHANGED <<betting, mem, override, blob, edits, restarts, tunings,
                              overlapped, failed, raced>>
    BY <1>7 DEF WriteAudit
  <2> QED
    BY <2>2, <2>3, EndType DEF TypeOK
<1>8. CASE AuditRefused(r)
  <2>1. End(r) /\ failed' = TRUE
        /\ UNCHANGED <<betting, mem, override, blob, audit, edits, restarts, tunings, logged,
                       overlapped, raced>>
    BY <1>8 DEF AuditRefused
  <2> QED
    BY <2>1, EndType DEF TypeOK
<1>9. CASE UploadStrategy(r)
  <2>1. name[r] \in Names /\ edit[r] \in Edits
    BY <1>9 DEF TypeOK, UploadStrategy
  <2>2. blob' \in [Names -> Contents]
    BY <1>9, <2>1, ContentsFacts DEF TypeOK, UploadStrategy
  <2> QED
    BY <1>9, <2>2 DEF TypeOK, UploadStrategy
<1>10. CASE Upsert(r)
  <2>1. name[r] \in Names /\ edit[r] \in Edits
    BY <1>10 DEF TypeOK, Upsert
  <2>2. mem' \in [Names -> Contents]
    BY <1>10, <2>1, ContentsFacts DEF TypeOK, Upsert
  <2>3. End(r) /\ UNCHANGED <<betting, override, blob, audit, edits, restarts, tunings, logged,
                              overlapped, failed, raced>>
    BY <1>10 DEF Upsert
  <2> QED
    BY <2>2, <2>3, EndType DEF TypeOK
<1>11. CASE DeleteBlob(r)
  <2>1. blob' \in [Names -> Contents]
    BY <1>11, ContentsFacts DEF TypeOK, DeleteBlob
  <2> QED
    BY <1>11, <2>1 DEF TypeOK, DeleteBlob, Deleting
<1>12. CASE Refresh(r)
  <2>1. mem' \in [Names -> Contents]
    BY <1>12, ContentsFacts DEF TypeOK, Refresh, OnDisk
  <2> QED
    BY <1>12, <2>1 DEF TypeOK, Refresh, Deleting
<1>13. CASE ListBlobs(r)
  BY <1>13 DEF TypeOK, ListBlobs, Deleting
<1>14. ASSUME NEW n \in Names, ReadBlob(r, n) PROVE TypeOK'
  <2>1. CASE blob[n] = Absent
    BY <1>14, <2>1 DEF TypeOK, ReadBlob
  <2>2. CASE blob[n] # Absent
    BY <1>14, <2>2 DEF TypeOK, ReadBlob, Deleting
  <2> QED
    BY <2>1, <2>2
<1>15. ASSUME NEW n \in Names, ReadRefused(r, n) PROVE TypeOK'
  BY <1>15 DEF TypeOK, ReadRefused
<1>16. CASE LoadBlob(r)
  <2>1. name[r] \in Names /\ got[r] \in Contents
    BY <1>16 DEF TypeOK, LoadBlob
  <2>2. mem' \in [Names -> Contents]
    BY <1>16, <2>1 DEF TypeOK, LoadBlob
  <2> QED
    BY <1>16, <2>2, ContentsFacts DEF TypeOK, LoadBlob, Deleting
<1>17. CASE HydrateEnds(r)
  <2>1. End(r) /\ UNCHANGED <<betting, mem, override, blob, audit, edits, restarts, tunings,
                              logged, overlapped, failed, raced>>
    BY <1>17 DEF HydrateEnds
  <2> QED
    BY <2>1, EndType DEF TypeOK
<1>18. CASE Raise(r)
  <2>1. pc[r] \in {"storing", "appending", "uploading"} => edit[r] \in Edits
    BY DEF TypeOK
  <2>2. name[r] \in Names /\ seen[r] \subseteq Edits
    BY <1>18 DEF TypeOK, Raise
  <2>3. /\ override' \in [Names -> Contents]
        /\ blob' \in [Names -> Contents]
        /\ audit' \subseteq Edits
    <3>1. \A f \in [Names -> Contents], c \in Contents :
            [f EXCEPT ![name[r]] = c] \in [Names -> Contents]
      BY <2>2
    <3>2. CASE /\ pc[r] = "storing"
               /\ override' \in {override, [override EXCEPT ![name[r]] = edit[r]]}
               /\ UNCHANGED <<blob, audit>>
      BY <3>1, <3>2, <2>1, ContentsFacts DEF TypeOK
    <3>3. CASE /\ pc[r] = "appending"
               /\ audit' \in {audit, seen[r] \union {edit[r]}}
               /\ UNCHANGED <<override, blob>>
      BY <3>3, <2>1, <2>2 DEF TypeOK
    <3>4. CASE /\ pc[r] = "uploading"
               /\ blob' \in {blob, [blob EXCEPT ![name[r]] = edit[r]]}
               /\ UNCHANGED <<override, audit>>
      BY <3>1, <3>4, <2>1, ContentsFacts DEF TypeOK
    <3>5. CASE /\ pc[r] = "deleting"
               /\ blob' \in {blob, [blob EXCEPT ![name[r]] = Absent]}
               /\ UNCHANGED <<override, audit>>
      BY <3>1, <3>5, ContentsFacts DEF TypeOK
    <3>6. CASE UNCHANGED bucketVars
      BY <3>6 DEF TypeOK, bucketVars
    <3> QED
      BY <1>18, <3>2, <3>3, <3>4, <3>5, <3>6 DEF Raise
  <2>4. End(r) /\ failed' = TRUE
        /\ UNCHANGED <<betting, mem, edits, restarts, tunings, logged, overlapped, raced>>
    BY <1>18 DEF Raise
  <2> QED
    BY <2>3, <2>4, EndType DEF TypeOK
<1> QED
  BY <1>1, <1>2, <1>3, <1>4, <1>5, <1>6, <1>7, <1>8, <1>9, <1>10, <1>11, <1>12, <1>13,
     <1>14, <1>15, <1>16, <1>17, <1>18 DEF Request

\* The initial states are well typed.
LEMMA TypeInit == Init => TypeOK
<1> SUFFICES ASSUME Init PROVE TypeOK
  OBVIOUS
<1>1. OnDisk \in [Names -> Contents]
  BY ContentsFacts DEF OnDisk
<1>2. /\ override \in [Names -> Contents] /\ blob \in [Names -> Contents]
      /\ edit \in [Requests -> 0..MaxEdits] /\ got \in [Requests -> Contents]
      /\ todo \in [Requests -> SUBSET Names] /\ seen \in [Requests -> SUBSET Edits]
      /\ name \in [Requests -> Names \union {NoName}]
  BY ContentsFacts DEF Init
<1>3. \A r \in Requests : pc[r] = "idle"
  BY DEF Init
<1> QED
  BY <1>1, <1>2, <1>3, ContentsFacts DEF Init, TypeOK

\* Every step keeps the types.
LEMMA TypeStep == TypeOK /\ [Next]_vars => TypeOK'
<1> SUFFICES ASSUME TypeOK, [Next]_vars PROVE TypeOK'
  OBVIOUS
<1> USE DEF bucketVars, historyVars, reqVars
<1>1. CASE \E r \in Requests : Request(r)
  BY <1>1, RequestType
<1>2. CASE SetBetting
  <2>1. late' \subseteq Requests /\ betting' \in BOOLEAN
    BY <1>2 DEF TypeOK, SetBetting, UnderWay
  <2> QED
    BY <1>2, <2>1 DEF TypeOK, SetBetting
<1>3. CASE Restart
  <2>1. PICK overrides, strategies \in SUBSET Names :
          /\ mem' = [n \in Names |-> Hydrated(n, overrides, strategies)]
          /\ failed' = (overrides \intersect strategies # Names)
    BY <1>3 DEF Restart
  <2>2. mem' \in [Names -> Contents] /\ failed' \in BOOLEAN
    BY <2>1, HydratedType
  <2>3. /\ edit' \in [Requests -> 0..MaxEdits] /\ got' \in [Requests -> Contents]
        /\ todo' \in [Requests -> SUBSET Names] /\ seen' \in [Requests -> SUBSET Edits]
        /\ name' \in [Requests -> Names \union {NoName}] /\ restarts' \in Nat
    BY <1>3, ContentsFacts DEF Restart, TypeOK
  <2>4. \A r \in Requests : pc'[r] = "idle"
    BY <1>3 DEF Restart
  <2>5. pc' = [r \in Requests |-> "idle"] /\ late' = {} /\ betting' = FALSE
        /\ overlapped' = FALSE
        /\ UNCHANGED <<override, blob, audit, edits, tunings, logged, raced>>
    BY <1>3 DEF Restart
  <2> QED
    BY <2>2, <2>3, <2>4, <2>5 DEF TypeOK
<1>4. CASE UNCHANGED vars
  BY <1>4 DEF TypeOK, vars
<1> QED
  BY <1>1, <1>2, <1>3, <1>4 DEF Next

\* Every reachable state is well typed.
THEOREM TypeOKHolds == Spec => []TypeOK
<1>1. Init => TypeOK
  BY TypeInit
<1>2. TypeOK /\ [Next]_vars => TypeOK'
  BY TypeStep
<1> QED
  BY <1>1, <1>2, PTL DEF Spec

----------------------------------------------------------------------------
(* The audit log                                                           *)

\* A step that appends nothing and starts no append keeps the invariant.
LEMMA AuditQuiet ==
  ASSUME AuditInv, TypeOK', UNCHANGED <<audit, logged>>, raced => raced',
         \A r \in Requests : pc'[r] = "appending" =>
           pc[r] = "appending" /\ seen'[r] = seen[r]
  PROVE  AuditInv'
<1> SUFFICES ASSUME ~raced'
             PROVE  /\ (logged \subseteq audit)'
                    /\ \A r \in Requests : pc'[r] = "appending" =>
                         /\ logged' \subseteq seen'[r]
                         /\ \A s \in Requests \ {r} : pc'[s] # "appending"
  BY DEF AuditInv
<1> QED
  BY DEF AuditInv

\* Every step keeps the invariant of the audit log.
LEMMA AuditStep == AuditInv /\ [Next]_vars => AuditInv'
<1> SUFFICES ASSUME AuditInv, [Next]_vars PROVE AuditInv'
  OBVIOUS
<1> USE DEF bucketVars, historyVars, reqVars
<1>0. TypeOK /\ TypeOK'
  BY TypeStep DEF AuditInv
<1>1. ASSUME NEW r \in Requests, Request(r) PROVE AuditInv'
  <2>1. CASE \E n \in Names : Tune(r, n) \/ Save(r, n) \/ Delete(r, n)
    <3>1. /\ \E stage \in {"storing", "uploading", "deleting"} : pc' = [pc EXCEPT ![r] = stage]
          /\ UNCHANGED <<audit, logged, raced, seen>>
      BY <2>1 DEF Tune, Save, Delete, Begin
    <3>2. \A s \in Requests : pc'[s] = "appending" => pc[s] = "appending"
      BY <1>0, <3>1 DEF TypeOK
    <3> QED
      BY <1>0, <3>1, <3>2, AuditQuiet
  <2>2. CASE \/ StoreOverride(r) \/ StoreRefused(r) \/ UploadStrategy(r) \/ DeleteBlob(r)
             \/ Refresh(r) \/ ListBlobs(r) \/ LoadBlob(r)
             \/ \E n \in Names : ReadBlob(r, n) \/ ReadRefused(r, n)
    <3>1. /\ UNCHANGED <<audit, logged, raced, seen>>
          /\ \/ UNCHANGED pc
             \/ \E stage \in {"auditing", "uploaded", "deleted", "listing", "hydrating",
                              "loaded"} : pc' = [pc EXCEPT ![r] = stage]
      BY <2>2 DEF StoreOverride, StoreRefused, UploadStrategy, DeleteBlob, Refresh, ListBlobs,
                  LoadBlob, ReadBlob, ReadRefused
    <3>2. \A s \in Requests : pc'[s] = "appending" => pc[s] = "appending"
      BY <1>0, <3>1 DEF TypeOK
    <3> QED
      BY <1>0, <3>1, <3>2, AuditQuiet
  <2>3. CASE AuditRefused(r) \/ Upsert(r) \/ HydrateEnds(r)
    <3>1. UNCHANGED <<audit, logged, raced>> /\ End(r)
      BY <2>3 DEF AuditRefused, Upsert, HydrateEnds
    <3>2. \A s \in Requests : pc'[s] = "appending" => pc[s] = "appending" /\ seen'[s] = seen[s]
      BY <1>0, <3>1 DEF TypeOK, End
    <3> QED
      BY <1>0, <3>1, <3>2, AuditQuiet
  <2>4. CASE ReadAudit(r)
    <3> SUFFICES ASSUME ~raced'
                 PROVE  /\ (logged \subseteq audit)'
                        /\ \A q \in Requests : pc'[q] = "appending" =>
                             /\ logged' \subseteq seen'[q]
                             /\ \A s \in Requests \ {q} : pc'[s] # "appending"
      BY <1>0 DEF AuditInv
    <3>1. /\ ~raced /\ UNCHANGED <<audit, logged>>
          /\ \A s \in Requests \ {r} : pc[s] # "appending"
      BY <2>4 DEF ReadAudit
    <3>2. /\ \A s \in Requests \ {r} : pc'[s] # "appending"
          /\ seen'[r] = audit
      BY <1>0, <2>4, <3>1 DEF TypeOK, ReadAudit
    <3> QED
      BY <3>1, <3>2 DEF AuditInv
  <2>5. ASSUME pc[r] = "appending", End(r), audit' = seen[r] \union {edit[r]},
               logged' \subseteq logged \union {edit[r]}, UNCHANGED raced
        PROVE  AuditInv'
    <3> SUFFICES ASSUME ~raced'
                 PROVE  /\ (logged \subseteq audit)'
                        /\ \A q \in Requests : pc'[q] = "appending" =>
                             /\ logged' \subseteq seen'[q]
                             /\ \A s \in Requests \ {q} : pc'[s] # "appending"
      BY <1>0 DEF AuditInv
    <3>1. logged \subseteq seen[r] /\ \A s \in Requests \ {r} : pc[s] # "appending"
      BY <2>5 DEF AuditInv
    <3>2. \A s \in Requests : pc'[s] # "appending"
      BY <1>0, <2>5, <3>1 DEF TypeOK, End
    <3> QED
      BY <2>5, <3>1, <3>2
  <2>6. CASE WriteAudit(r)
    BY <2>5, <2>6 DEF WriteAudit
  <2>7. CASE Raise(r)
    <3>1. End(r) /\ UNCHANGED <<logged, raced>>
      BY <2>7 DEF Raise
    <3>2. CASE pc[r] = "appending" /\ audit' = seen[r] \union {edit[r]}
      BY <2>5, <3>1, <3>2
    <3>3. CASE UNCHANGED audit
      <4>1. \A s \in Requests : pc'[s] = "appending" => pc[s] = "appending" /\ seen'[s] = seen[s]
        BY <1>0, <3>1 DEF TypeOK, End
      <4> QED
        BY <1>0, <3>1, <3>3, <4>1, AuditQuiet
    <3> QED
      BY <2>7, <3>2, <3>3 DEF Raise
  <2> QED
    BY <1>1, <2>1, <2>2, <2>3, <2>4, <2>6, <2>7 DEF Request
<1>2. CASE SetBetting \/ UNCHANGED vars
  <2>1. UNCHANGED <<audit, logged, raced, pc, seen>>
    BY <1>2 DEF SetBetting, vars
  <2> QED
    BY <1>0, <2>1, AuditQuiet
<1>3. CASE Restart
  <2>1. UNCHANGED <<audit, logged, raced>> /\ \A r \in Requests : pc'[r] = "idle"
    BY <1>3 DEF Restart
  <2> QED
    BY <1>0, <2>1, AuditQuiet
<1> QED
  BY <1>1, <1>2, <1>3 DEF Next

\* No row of the audit log is ever lost but to appends that overlap.
THEOREM AuditKeepsHolds == Spec => []AuditKeeps
<1>1. Init => AuditInv
  BY TypeInit DEF Init, AuditInv
<1>2. AuditInv /\ [Next]_vars => AuditInv'
  BY AuditStep
<1>3. AuditInv => AuditKeeps
  BY DEF AuditInv, AuditKeeps
<1> QED
  BY <1>1, <1>2, <1>3, PTL DEF Spec

----------------------------------------------------------------------------
(* What betting freezes                                                    *)

\* Every step keeps LateInv.
LEMMA LateStep == LateInv /\ [Next]_vars => LateInv'
<1> SUFFICES ASSUME LateInv, [Next]_vars, betting' PROVE (UnderWay \subseteq late)'
  BY TypeStep DEF LateInv
<1> USE DEF bucketVars, historyVars, reqVars
<1>0. TypeOK /\ (betting => UnderWay \subseteq late)
  BY DEF LateInv
<1>1. ASSUME NEW r \in Requests, Request(r) PROVE (UnderWay \subseteq late)'
  <2>1. CASE \E n \in Names : Tune(r, n) \/ Save(r, n) \/ Delete(r, n)
    <3>1. ~betting /\ UNCHANGED betting
      BY <2>1 DEF Tune, Save, Delete, Begin
    <3> QED
      BY <3>1
  <2>2. CASE \/ StoreOverride(r) \/ StoreRefused(r) \/ UploadStrategy(r) \/ DeleteBlob(r)
             \/ Refresh(r) \/ ListBlobs(r) \/ LoadBlob(r) \/ ReadAudit(r)
             \/ \E n \in Names : ReadBlob(r, n) \/ ReadRefused(r, n)
    <3>1. /\ UNCHANGED <<betting, late>> /\ pc[r] # "idle"
          /\ \/ UNCHANGED pc
             \/ \E stage \in {"auditing", "appending", "uploaded", "deleted", "listing",
                              "hydrating", "loaded"} : pc' = [pc EXCEPT ![r] = stage]
      BY <2>2 DEF StoreOverride, StoreRefused, UploadStrategy, DeleteBlob, Refresh, ListBlobs,
                  LoadBlob, ReadAudit, ReadBlob, ReadRefused
    <3>2. \A s \in Requests : pc'[s] # "idle" => pc[s] # "idle"
      BY <1>0, <3>1 DEF TypeOK
    <3> QED
      BY <1>0, <3>1, <3>2 DEF UnderWay
  <2>3. CASE AuditRefused(r) \/ Upsert(r) \/ HydrateEnds(r) \/ WriteAudit(r) \/ Raise(r)
    <3>1. UNCHANGED betting /\ End(r)
      BY <2>3 DEF AuditRefused, Upsert, HydrateEnds, WriteAudit, Raise
    <3>2. \A s \in Requests : pc'[s] # "idle" => pc[s] # "idle" /\ s # r
      BY <1>0, <3>1 DEF TypeOK, End
    <3>3. late' = late \ {r}
      BY <3>1 DEF End
    <3> QED
      BY <1>0, <3>1, <3>2, <3>3 DEF UnderWay
  <2> QED
    BY <1>1, <2>1, <2>2, <2>3 DEF Request
<1>2. CASE SetBetting
  BY <1>2 DEF SetBetting, UnderWay
<1>3. CASE Restart
  BY <1>3 DEF Restart
<1>4. CASE UNCHANGED vars
  BY <1>0, <1>4 DEF vars, UnderWay
<1> QED
  BY <1>1, <1>2, <1>3, <1>4 DEF Next

\* While betting is on no tuning changes a strategy, and only requests let in before
\* change one at all.
THEOREM FrozenButForLateHolds == Spec => FrozenButForLate
<1>1. Init => LateInv
  BY TypeInit DEF Init, LateInv
<1>2. LateInv /\ [Next]_vars => LateInv'
  BY LateStep
<1>3. LateInv /\ [Next]_vars =>
        [betting /\ betting' /\ mem' # mem =>
           /\ tunings' = tunings
           /\ \E r \in late : pc'[r] # pc[r]]_vars
  <2> SUFFICES ASSUME LateInv, [Next]_vars, betting, betting', mem' # mem
               PROVE  tunings' = tunings /\ \E r \in late : pc'[r] # pc[r]
    OBVIOUS
  <2> USE DEF bucketVars, historyVars, reqVars
  <2>1. ~SetBetting /\ ~Restart /\ ~(UNCHANGED vars)
    BY DEF SetBetting, Restart, vars
  <2>2. PICK r \in Requests : Request(r)
    BY <2>1 DEF Next
  <2>3. Upsert(r) \/ Refresh(r) \/ LoadBlob(r)
    BY <2>2 DEF Request, Tune, Save, Delete, Begin, StoreOverride, StoreRefused, ReadAudit,
                WriteAudit, AuditRefused, UploadStrategy, DeleteBlob, ListBlobs, ReadBlob,
                ReadRefused, HydrateEnds, Raise
  <2>4. r \in late
    BY <2>3 DEF LateInv, UnderWay, Upsert, Refresh, LoadBlob
  <2>5. tunings' = tunings /\ pc'[r] # pc[r]
    BY <2>3 DEF LateInv, TypeOK, Upsert, Refresh, LoadBlob, End
  <2> QED
    BY <2>4, <2>5
<1> QED
  BY <1>1, <1>2, <1>3, PTL DEF Spec, FrozenButForLate

----------------------------------------------------------------------------
(* Authored strategies in memory                                           *)

\* A step that takes nothing out of memory or off its way, and puts nothing in the
\* bucket, keeps the invariant.
LEMMA VisibleQuiet ==
  ASSUME VisibleInv, TypeOK', failed => failed',
         \A n \in Names : blob'[n] # Absent => blob[n] # Absent,
         \A n \in Names : mem[n] # Absent => mem'[n] # Absent,
         \A n \in Names : blob'[n] # Absent /\ OnItsWay(n) => OnItsWay(n)' \/ mem'[n] # Absent
  PROVE  VisibleInv'
<1> SUFFICES ASSUME ~failed', NEW n \in Names, blob'[n] # Absent
             PROVE  mem'[n] # Absent \/ OnItsWay(n)'
  BY DEF VisibleInv
<1> QED
  BY DEF VisibleInv

\* A request that ends takes off its way only what it was loading itself.
LEMMA EndOnItsWay ==
  ASSUME TypeOK, NEW r \in Requests, End(r), NEW n \in Names, OnItsWay(n)
  PROVE  \/ OnItsWay(n)'
         \/ pc[r] = "uploaded" /\ name[r] = n
         \/ pc[r] \in {"deleted", "listing"}
         \/ pc[r] \in {"hydrating", "loaded"} /\ n \in todo[r]
<1>1. \A s \in Requests : s # r => pc'[s] = pc[s] /\ name'[s] = name[s] /\ todo'[s] = todo[s]
  BY DEF TypeOK, End
<1> QED
  BY <1>1 DEF OnItsWay

\* Every step of a request keeps the invariant.
LEMMA VisibleRequest ==
  ASSUME VisibleInv, TypeOK', NEW r \in Requests, Request(r)
  PROVE  VisibleInv'
<1> USE DEF bucketVars, historyVars, reqVars
<1>0. TypeOK
  BY DEF VisibleInv
<1>1. CASE \E n \in Names : Tune(r, n) \/ Save(r, n) \/ Delete(r, n)
  <2>1. PICK n \in Names : Tune(r, n) \/ Save(r, n) \/ Delete(r, n)
    BY <1>1
  <2>2. /\ UNCHANGED <<blob, failed, todo>> /\ pc[r] = "idle"
        /\ \A s \in Requests : s # r => pc'[s] = pc[s] /\ name'[s] = name[s]
    BY <1>0, <2>1 DEF TypeOK, Tune, Save, Delete, Begin
  <2>3. mem' = mem \/ \E e \in Edits : mem' = [mem EXCEPT ![n] = e]
    BY <2>1 DEF Tune, Save, Delete
  <2>4. \A m \in Names : mem[m] # Absent => mem'[m] # Absent
    BY <1>0, <2>3, ContentsFacts DEF TypeOK
  <2>5. \A m \in Names : OnItsWay(m) => OnItsWay(m)'
    BY <2>2 DEF OnItsWay
  <2> QED
    BY <2>2, <2>4, <2>5, VisibleQuiet
<1>2. CASE StoreOverride(r) \/ StoreRefused(r) \/ ReadAudit(r)
  <2>1. /\ UNCHANGED <<blob, mem, todo, name>> /\ (failed => failed')
        /\ pc[r] \in {"storing", "auditing"}
        /\ \A s \in Requests : s # r => pc'[s] = pc[s]
    BY <1>0, <1>2 DEF TypeOK, StoreOverride, StoreRefused, ReadAudit
  <2>2. \A m \in Names : OnItsWay(m) => OnItsWay(m)'
    BY <2>1 DEF OnItsWay
  <2> QED
    BY <2>1, <2>2, VisibleQuiet
<1>3. CASE WriteAudit(r)
  <2>1. UNCHANGED <<blob, mem, failed>> /\ pc[r] = "appending" /\ End(r)
    BY <1>3 DEF WriteAudit
  <2>2. \A m \in Names : OnItsWay(m) => OnItsWay(m)'
    BY <1>0, <2>1, EndOnItsWay
  <2> QED
    BY <2>1, <2>2, VisibleQuiet
<1>4. CASE AuditRefused(r) \/ Raise(r) \/ \E n \in Names : ReadRefused(r, n)
  BY <1>4 DEF AuditRefused, Raise, ReadRefused, VisibleInv
<1>5. CASE UploadStrategy(r)
  <2>1. /\ UNCHANGED <<mem, todo, name, failed>>
        /\ pc[r] = "uploading" /\ pc'[r] = "uploaded"
        /\ \A s \in Requests : s # r => pc'[s] = pc[s]
        /\ \A m \in Names : m # name[r] => blob'[m] = blob[m]
    BY <1>0, <1>5 DEF TypeOK, UploadStrategy
  <2>2. \A m \in Names : OnItsWay(m) => OnItsWay(m)'
    BY <2>1 DEF OnItsWay
  <2>3. OnItsWay(name[r])'
    BY <2>1 DEF OnItsWay
  <2> QED
    BY <2>1, <2>2, <2>3 DEF VisibleInv
<1>6. CASE Upsert(r)
  <2>1. UNCHANGED <<blob, failed>> /\ pc[r] = "uploaded" /\ End(r)
        /\ mem' = [mem EXCEPT ![name[r]] = edit[r]]
    BY <1>6 DEF Upsert
  <2>2. name[r] \in Names /\ edit[r] \in Edits
    BY <1>0, <2>1 DEF TypeOK
  <2>3. \A m \in Names : mem[m] # Absent \/ m = name[r] => mem'[m] # Absent
    BY <1>0, <2>1, <2>2, ContentsFacts DEF TypeOK
  <2>4. \A m \in Names : OnItsWay(m) => OnItsWay(m)' \/ m = name[r]
    BY <1>0, <2>1, EndOnItsWay
  <2> QED
    BY <2>1, <2>3, <2>4, VisibleQuiet
<1>7. CASE DeleteBlob(r)
  <2>1. /\ UNCHANGED <<mem, todo, name, failed>>
        /\ pc[r] = "deleting"
        /\ \A s \in Requests : s # r => pc'[s] = pc[s]
        /\ \A m \in Names : blob'[m] # Absent => blob[m] # Absent
    BY <1>0, <1>7 DEF TypeOK, DeleteBlob
  <2>2. \A m \in Names : OnItsWay(m) => OnItsWay(m)'
    BY <2>1 DEF OnItsWay
  <2> QED
    BY <2>1, <2>2, VisibleQuiet
<1>8. CASE Refresh(r)
  <2>1. \A m \in Names : OnItsWay(m)'
    BY <1>0, <1>8 DEF TypeOK, Refresh, OnItsWay
  <2> QED
    BY <1>8, <2>1 DEF VisibleInv, Refresh
<1>9. CASE ListBlobs(r)
  <2>1. \A m \in Names : blob'[m] # Absent => OnItsWay(m)'
    BY <1>0, <1>9 DEF TypeOK, ListBlobs, OnItsWay
  <2> QED
    BY <1>9, <2>1 DEF VisibleInv, ListBlobs
<1>10. ASSUME NEW n \in Names, ReadBlob(r, n) PROVE VisibleInv'
  <2>1. UNCHANGED <<blob, mem, failed>> /\ pc[r] = "hydrating"
    BY <1>10 DEF ReadBlob
  <2>2. CASE blob[n] = Absent
    <3>1. /\ UNCHANGED <<pc, name>>
          /\ \A s \in Requests, m \in Names : m \in todo[s] => m \in todo'[s] \/ m = n
      BY <1>0, <1>10, <2>2 DEF TypeOK, ReadBlob
    <3>2. \A m \in Names : blob[m] # Absent /\ OnItsWay(m) => OnItsWay(m)'
      BY <2>2, <3>1 DEF OnItsWay
    <3> QED
      BY <2>1, <3>2, VisibleQuiet
  <2>3. CASE blob[n] # Absent
    <3>1. /\ UNCHANGED todo /\ pc'[r] = "loaded"
          /\ \A s \in Requests : s # r => pc'[s] = pc[s] /\ name'[s] = name[s]
      BY <1>0, <1>10, <2>3 DEF TypeOK, ReadBlob
    <3>2. \A m \in Names : OnItsWay(m) => OnItsWay(m)'
      BY <2>1, <3>1 DEF OnItsWay
    <3> QED
      BY <2>1, <3>2, VisibleQuiet
  <2> QED
    BY <2>2, <2>3
<1>11. CASE LoadBlob(r)
  <2>1. /\ UNCHANGED <<blob, failed, name>> /\ pc[r] = "loaded" /\ pc'[r] = "hydrating"
        /\ \A s \in Requests : s # r => pc'[s] = pc[s] /\ todo'[s] = todo[s]
        /\ todo'[r] = todo[r] \ {name[r]}
    BY <1>0, <1>11 DEF TypeOK, LoadBlob
  <2>2. name[r] \in Names /\ got[r] # Absent
    BY <1>0, <2>1 DEF TypeOK
  <2>3. \A m \in Names : mem[m] # Absent \/ m = name[r] => mem'[m] # Absent
    BY <1>0, <1>11, <2>2 DEF TypeOK, LoadBlob
  <2>4. \A m \in Names : OnItsWay(m) => OnItsWay(m)' \/ m = name[r]
    BY <2>1 DEF OnItsWay
  <2> QED
    BY <2>1, <2>3, <2>4, VisibleQuiet
<1>12. CASE HydrateEnds(r)
  <2>1. UNCHANGED <<blob, mem, failed>> /\ pc[r] = "hydrating" /\ todo[r] = {} /\ End(r)
    BY <1>12 DEF HydrateEnds
  <2>2. \A m \in Names : OnItsWay(m) => OnItsWay(m)'
    BY <1>0, <2>1, EndOnItsWay
  <2> QED
    BY <2>1, <2>2, VisibleQuiet
<1> QED
  BY <1>1, <1>2, <1>3, <1>4, <1>5, <1>6, <1>7, <1>8, <1>9, <1>10, <1>11, <1>12 DEF Request

\* Once no deletion is under way a strategy in the bucket is in memory, or its save
\* is about to put it there, however requests overlapped, unless the bucket failed.
THEOREM AuthoredVisibleHolds == Spec => []AuthoredVisible
<1>1. Init => VisibleInv
  BY TypeInit DEF Init, VisibleInv
<1>2. VisibleInv /\ [Next]_vars => VisibleInv'
  <2> SUFFICES ASSUME VisibleInv, [Next]_vars PROVE VisibleInv'
    OBVIOUS
  <2>0. TypeOK /\ TypeOK'
    BY TypeStep DEF VisibleInv
  <2>1. CASE \E r \in Requests : Request(r)
    BY <2>0, <2>1, VisibleRequest
  <2>2. CASE SetBetting \/ UNCHANGED vars
    <3>1. UNCHANGED <<blob, mem, failed, pc, name, todo>>
      BY <2>2 DEF SetBetting, vars, bucketVars, reqVars
    <3> QED
      BY <2>0, <3>1, VisibleQuiet DEF OnItsWay
  <2>3. CASE Restart
    <3>1. PICK overrides, strategies \in SUBSET Names :
            /\ mem' = [n \in Names |-> Hydrated(n, overrides, strategies)]
            /\ failed' = (overrides \intersect strategies # Names)
      BY <2>3 DEF Restart
    <3>2. ~failed' => \A n \in Names : blob[n] # Absent => mem'[n] = blob[n]
      BY <3>1 DEF Hydrated
    <3> QED
      BY <2>0, <2>3, <3>2 DEF VisibleInv, Restart, bucketVars
  <2> QED
    BY <2>1, <2>2, <2>3 DEF Next
<1>3. VisibleInv => AuthoredVisible
  BY DEF VisibleInv, AuthoredVisible, OnItsWay, Deleting
<1> QED
  BY <1>1, <1>2, <1>3, PTL DEF Spec

----------------------------------------------------------------------------
(* What a restart keeps                                                    *)

\* Contents keep the provenance they have.
LEMMA ProvenanceStep == TypeOK /\ Provenance /\ [Next]_vars => Provenance'
<1> SUFFICES ASSUME TypeOK, Provenance, [Next]_vars PROVE Provenance'
  OBVIOUS
<1> USE DEF bucketVars, historyVars, reqVars
<1>0. TypeOK'
  BY TypeStep
<1>1. ASSUME NEW r \in Requests, Request(r) PROVE Provenance'
  <2>1. ASSUME NEW n \in Names, Tune(r, n) PROVE Provenance'
    <3>1. PICK e \in Edits : /\ Begin(r, n, "storing", e)
                             /\ mem' = [mem EXCEPT ![n] = e]
                             /\ tunings' = tunings \union {e}
      BY <2>1 DEF Tune
    <3>2. /\ \A s \in Requests \ {r} : pc'[s] = pc[s] /\ edit'[s] = edit[s]
          /\ pc'[r] = "storing" /\ edit'[r] = e /\ UNCHANGED <<override, blob, got>>
      BY <3>1 DEF TypeOK, Begin
    <3>3. \A m \in Names : mem'[m] = 0 => mem[m] = 0
      BY <3>1, ContentsFacts DEF TypeOK
    <3> QED
      BY <3>1, <3>2, <3>3 DEF Provenance
  <2>2. ASSUME NEW n \in Names, Save(r, n) \/ Delete(r, n) PROVE Provenance'
    <3>1. /\ \A s \in Requests \ {r} : pc'[s] = pc[s] /\ edit'[s] = edit[s]
          /\ pc'[r] \in {"uploading", "deleting"}
          /\ UNCHANGED <<override, blob, got, mem, tunings>>
      BY <2>2 DEF TypeOK, Save, Delete, Begin
    <3> QED
      BY <3>1 DEF Provenance
  <2>3. CASE StoreOverride(r)
    <3>1. /\ pc[r] = "storing" /\ pc'[r] = "auditing"
          /\ \A s \in Requests \ {r} : pc'[s] = pc[s]
          /\ \A m \in Names : override'[m] \in {override[m], edit[r]}
          /\ UNCHANGED <<mem, blob, tunings, edit, got>>
      BY <2>3 DEF TypeOK, StoreOverride
    <3> QED
      BY <3>1 DEF Provenance
  <2>4. CASE \/ StoreRefused(r) \/ ReadAudit(r) \/ ListBlobs(r)
             \/ \E n \in Names : ReadRefused(r, n)
    <3>1. /\ pc'[r] \in {"auditing", "appending", "hydrating"}
          /\ \A s \in Requests \ {r} : pc'[s] = pc[s]
          /\ UNCHANGED <<mem, override, blob, tunings, edit, got>>
      BY <2>4 DEF TypeOK, StoreRefused, ReadAudit, ListBlobs, ReadRefused
    <3> QED
      BY <3>1 DEF Provenance
  <2>5. CASE UploadStrategy(r) \/ DeleteBlob(r)
    <3>1. /\ pc[r] = "uploading" => edit[r] \in Edits
          /\ \A m \in Names : \/ blob'[m] = blob[m]
                              \/ blob'[m] = Absent
                              \/ blob'[m] = edit[r] /\ pc[r] = "uploading"
          /\ pc'[r] \in {"uploaded", "deleted"}
          /\ \A s \in Requests \ {r} : pc'[s] = pc[s]
          /\ UNCHANGED <<mem, override, tunings, edit, got>>
      BY <2>5 DEF TypeOK, UploadStrategy, DeleteBlob
    <3> QED
      BY <3>1 DEF Provenance
  <2>6. CASE Refresh(r)
    <3>1. \A m \in Names : mem'[m] = 0 => m \in Shipped
      BY <2>6 DEF Refresh, OnDisk, Absent
    <3>2. /\ pc'[r] = "listing"
          /\ \A s \in Requests \ {r} : pc'[s] = pc[s]
          /\ UNCHANGED <<override, blob, tunings, edit, got>>
      BY <2>6 DEF TypeOK, Refresh
    <3> QED
      BY <3>1, <3>2 DEF Provenance
  <2>7. ASSUME NEW n \in Names, ReadBlob(r, n) PROVE Provenance'
    <3>1. /\ pc'[r] \in {"hydrating", "loaded"}
          /\ pc'[r] = "loaded" => got'[r] = blob[n] /\ blob[n] # Absent
          /\ \A s \in Requests \ {r} : pc'[s] = pc[s] /\ got'[s] = got[s]
          /\ UNCHANGED <<mem, override, blob, tunings, edit>>
      BY <2>7 DEF TypeOK, ReadBlob
    <3> QED
      BY <3>1 DEF Provenance
  <2>8. CASE LoadBlob(r)
    <3>1. /\ pc[r] = "loaded" /\ pc'[r] = "hydrating"
          /\ \A s \in Requests \ {r} : pc'[s] = pc[s] /\ got'[s] = got[s]
          /\ \A m \in Names : mem'[m] \in {mem[m], got[r]}
          /\ UNCHANGED <<override, blob, tunings, edit>>
      BY <2>8 DEF TypeOK, LoadBlob
    <3> QED
      BY <3>1, ContentsFacts DEF Provenance
  <2>9. CASE WriteAudit(r) \/ AuditRefused(r) \/ Upsert(r) \/ HydrateEnds(r) \/ Raise(r)
    <3>1. End(r) /\ UNCHANGED tunings
      BY <2>9 DEF WriteAudit, AuditRefused, Upsert, HydrateEnds, Raise
    <3>2. \A s \in Requests : pc'[s] # "idle" =>
            pc'[s] = pc[s] /\ edit'[s] = edit[s] /\ got'[s] = got[s]
      BY <3>1 DEF TypeOK, End
    <3>3. \A m \in Names : \/ mem'[m] = mem[m]
                           \/ mem'[m] = edit[r] /\ pc[r] = "uploaded"
      <4>1. \/ UNCHANGED mem
            \/ pc[r] = "uploaded" /\ mem' = [mem EXCEPT ![name[r]] = edit[r]]
        BY <2>9 DEF WriteAudit, AuditRefused, Upsert, HydrateEnds, Raise
      <4> QED
        BY <4>1 DEF TypeOK
    <3>4. /\ \A m \in Names : \/ override'[m] = override[m]
                              \/ override'[m] = edit[r] /\ pc[r] = "storing"
          /\ \A m \in Names : \/ blob'[m] \in {blob[m], Absent}
                              \/ blob'[m] = edit[r] /\ pc[r] = "uploading"
      <4>1. CASE Raise(r)
        <5>1. \/ UNCHANGED override
              \/ pc[r] = "storing" /\ override' = [override EXCEPT ![name[r]] = edit[r]]
          BY <4>1 DEF Raise
        <5>2. \/ UNCHANGED blob
              \/ blob' = [blob EXCEPT ![name[r]] = Absent]
              \/ pc[r] = "uploading" /\ blob' = [blob EXCEPT ![name[r]] = edit[r]]
          BY <4>1 DEF Raise
        <5> QED
          BY <5>1, <5>2 DEF TypeOK
      <4>2. CASE WriteAudit(r) \/ AuditRefused(r) \/ Upsert(r) \/ HydrateEnds(r)
        <5>1. UNCHANGED <<override, blob>>
          BY <4>2 DEF WriteAudit, AuditRefused, Upsert, HydrateEnds
        <5> QED
          BY <5>1
      <4> QED
        BY <2>9, <4>1, <4>2
    <3>5. pc[r] \in {"uploaded", "uploading"} => edit[r] \in Edits
      BY DEF TypeOK
    <3>6. \A m \in Names : override'[m] \in tunings' \union {Absent}
      BY <3>1, <3>4 DEF Provenance
    <3>7. \A m \in Names : blob'[m] \in Edits \union {Absent}
      BY <3>4, <3>5 DEF Provenance
    <3>8. \A m \in Names : mem'[m] = 0 => m \in Shipped
      BY <3>3, <3>5, ContentsFacts DEF Provenance
    <3>9. \A s \in Requests : /\ pc'[s] = "storing" => edit'[s] \in tunings'
                              /\ pc'[s] = "loaded" => got'[s] \in Edits
      BY <3>1, <3>2 DEF Provenance
    <3> QED
      BY <3>6, <3>7, <3>8, <3>9 DEF Provenance
  <2> QED
    BY <1>1, <2>1, <2>2, <2>3, <2>4, <2>5, <2>6, <2>7, <2>8, <2>9 DEF Request
<1>2. CASE SetBetting \/ UNCHANGED vars
  BY <1>2 DEF SetBetting, vars, Provenance
<1>3. CASE Restart
  <2>1. PICK overrides, strategies \in SUBSET Names :
          mem' = [n \in Names |-> Hydrated(n, overrides, strategies)]
    BY <1>3 DEF Restart
  <2>2. ASSUME NEW n \in Names, mem'[n] = 0 PROVE n \in Shipped
    <3>1. blob[n] # 0 /\ override[n] # 0
      BY ContentsFacts DEF Provenance, TypeOK
    <3> QED
      BY <2>1, <2>2, <3>1, ContentsFacts DEF Hydrated, OnDisk
  <2>3. (\A r \in Requests : pc'[r] = "idle") /\ UNCHANGED <<override, blob, tunings>>
    BY <1>3 DEF Restart
  <2> QED
    BY <2>2, <2>3 DEF Provenance
<1> QED
  BY <1>1, <1>2, <1>3 DEF Next

\* A name nothing has touched is kept as it was.
LEMMA KeptSame ==
  ASSUME NEW n, Kept(n), tunings \subseteq tunings',
         mem'[n] = mem[n], override'[n] = override[n], blob'[n] = blob[n]
  PROVE  Kept(n)'
BY DEF Kept, Boot, Hydrated, OnDisk

\* When the only request under way takes a step, nobody else has anything to repair.
LEMMA LoneStep ==
  ASSUME TypeOK, NEW r \in Requests, \A s \in Requests \ {r} : pc'[s] = "idle",
         pc'[r] = "idle" => \A n \in Names : Kept(n)',
         StageKept(r)'
  PROVE  /\ Sole'
         /\ UnderWay' = {} => \A n \in Names : Kept(n)'
         /\ \A s \in Requests : StageKept(s)'
<1>1. \A s \in Requests \ {r} : StageKept(s)'
  BY DEF StageKept
<1>2. UnderWay' \subseteq {r}
  BY DEF UnderWay
<1> QED
  BY <1>1, <1>2 DEF Sole, UnderWay

\* A request that begins finds every name kept, and leaves the one it tunes to repair.
LEMMA KeepBegin ==
  ASSUME KeepInv, ~overlapped', ~failed', NEW r \in Requests, NEW n \in Names,
         Tune(r, n) \/ Save(r, n) \/ Delete(r, n)
  PROVE  StageKept(r)' /\ pc'[r] # "idle" /\ \A s \in Requests \ {r} : pc'[s] = "idle"
<1> USE DEF bucketVars
<1>1. PICK stage \in {"storing", "uploading", "deleting"}, e \in 0..MaxEdits :
        /\ Begin(r, n, stage, e)
        /\ stage = "storing" => Tune(r, n)
        /\ stage # "storing" => UNCHANGED <<mem, tunings>>
  <2>1. CASE Tune(r, n)
    BY <2>1, ContentsFacts DEF Tune
  <2>2. CASE Save(r, n)
    BY <2>2, ContentsFacts DEF Save
  <2>3. CASE Delete(r, n)
    BY <2>3, ContentsFacts DEF Delete
  <2> QED
    BY <2>1, <2>2, <2>3
<1>2. UnderWay = {} /\ ~overlapped /\ ~failed
  BY <1>1 DEF Begin
<1>3. \A m \in Names : Kept(m)
  BY <1>2 DEF KeepInv
<1>4. /\ pc'[r] = stage /\ name'[r] = n /\ UNCHANGED <<override, blob>>
      /\ \A s \in Requests \ {r} : pc'[s] = "idle"
  BY <1>1, <1>2 DEF Begin, UnderWay, KeepInv, TypeOK
<1>5. CASE stage = "storing"
  <2>1. PICK d \in Edits : /\ mem[n] # Absent /\ Begin(r, n, "storing", d)
                           /\ mem' = [mem EXCEPT ![n] = d]
                           /\ tunings' = tunings \union {d}
    BY <1>1, <1>5 DEF Tune
  <2>2. mem'[n] = edit'[r] /\ \A m \in Names \ {n} : mem'[m] = mem[m]
    BY <2>1 DEF Begin, KeepInv, TypeOK
  <2>3. n \in Shipped \/ blob[n] # Absent
    BY <1>3, <2>1, ContentsFacts DEF Kept, Boot, Hydrated, OnDisk, KeepInv, Provenance
  <2>4. \A m \in Names \ {n} : Kept(m)'
    BY <1>3, <1>4, <2>1, <2>2, KeptSame
  <2> QED
    BY <1>4, <1>5, <2>2, <2>3, <2>4 DEF StageKept
<1>6. CASE stage # "storing"
  <2>1. \A m \in Names : Kept(m)'
    BY <1>1, <1>3, <1>4, <1>6, KeptSame
  <2> QED
    BY <1>4, <1>6, <2>1 DEF StageKept
<1> QED
  BY <1>4, <1>5, <1>6

\* The later steps of a request that is alone and meets no failure.
LEMMA KeepWork ==
  ASSUME KeepInv, ~overlapped, ~failed, ~failed', NEW r \in Requests, Request(r),
         pc[r] # "idle"
  PROVE  /\ StageKept(r)'
         /\ pc'[r] = "idle" => \A n \in Names : Kept(n)'
         /\ \A s \in Requests \ {r} : pc'[s] = "idle"
<1> USE DEF bucketVars, historyVars
<1>0. TypeOK /\ Provenance /\ StageKept(r)
  BY DEF KeepInv
<1>1. \A s \in Requests \ {r} : pc[s] = "idle"
  BY DEF KeepInv, Sole, UnderWay
<1> DEFINE Goal == /\ StageKept(r)'
                   /\ pc'[r] = "idle" => \A n \in Names : Kept(n)'
                   /\ \A s \in Requests \ {r} : pc'[s] = "idle"
<1>2. CASE StoreOverride(r)
  <2>0. PICK m \in Names : m = name[r]
    BY <1>0, <1>2 DEF StoreOverride, TypeOK
  <2>1. /\ pc[r] = "storing" /\ pc'[r] = "auditing"
        /\ \A s \in Requests \ {r} : pc'[s] = "idle"
        /\ UNCHANGED <<mem, blob, tunings>>
        /\ override'[m] = edit[r]
        /\ \A n \in Names \ {m} : override'[n] = override[n]
        /\ edit[r] \in tunings /\ edit[r] \in Edits
    BY <1>0, <2>0, <1>1, <1>2 DEF StoreOverride, TypeOK, Provenance
  <2>2. \A n \in Names \ {m} : Kept(n)'
    BY <1>0, <2>0, <2>1, KeptSame DEF StageKept
  <2>3. Kept(m)'
    BY <1>0, <2>0, <2>1, ContentsFacts DEF StageKept, Kept, Boot, Hydrated
  <2> QED
    BY <2>1, <2>2, <2>3 DEF StageKept
<1>3. CASE ReadAudit(r)
  <2>1. /\ pc[r] = "auditing" /\ pc'[r] = "appending"
        /\ \A s \in Requests \ {r} : pc'[s] = "idle"
        /\ UNCHANGED <<mem, override, blob, tunings>>
    BY <1>0, <1>1, <1>3 DEF ReadAudit, TypeOK
  <2>2. \A n \in Names : Kept(n)'
    BY <1>0, <2>1, KeptSame DEF StageKept
  <2> QED
    BY <2>1, <2>2 DEF StageKept
<1>4. CASE WriteAudit(r)
  <2>1. /\ pc[r] = "appending" /\ pc'[r] = "idle"
        /\ \A s \in Requests \ {r} : pc'[s] = "idle"
        /\ UNCHANGED <<mem, override, blob, tunings>>
    BY <1>0, <1>1, <1>4 DEF WriteAudit, End, TypeOK
  <2>2. \A n \in Names : Kept(n)'
    BY <1>0, <2>1, KeptSame DEF StageKept
  <2> QED
    BY <2>1, <2>2 DEF StageKept
<1>5. CASE UploadStrategy(r)
  <2>1. /\ pc[r] = "uploading" /\ pc'[r] = "uploaded"
        /\ \A s \in Requests \ {r} : pc'[s] = "idle"
        /\ UNCHANGED <<mem, override, tunings, name, edit>>
        /\ blob'[name[r]] = edit[r]
        /\ \A n \in Names \ {name[r]} : blob'[n] = blob[n]
    BY <1>0, <1>1, <1>5 DEF UploadStrategy, TypeOK
  <2>2. \A n \in Names \ {name[r]} : Kept(n)'
    BY <1>0, <2>1, KeptSame DEF StageKept
  <2> QED
    BY <2>1, <2>2 DEF StageKept
<1>6. CASE Upsert(r)
  <2>0. PICK m \in Names : m = name[r]
    BY <1>0, <1>6 DEF Upsert, TypeOK
  <2>1. /\ pc[r] = "uploaded" /\ pc'[r] = "idle"
        /\ \A s \in Requests \ {r} : pc'[s] = "idle"
        /\ UNCHANGED <<override, blob, tunings>>
        /\ mem'[m] = edit[r] /\ edit[r] \in Edits
        /\ \A n \in Names \ {m} : mem'[n] = mem[n]
    BY <1>0, <2>0, <1>1, <1>6 DEF Upsert, End, TypeOK
  <2>2. \A n \in Names \ {m} : Kept(n)'
    BY <1>0, <2>0, <2>1, KeptSame DEF StageKept
  <2>3. Kept(m)'
    BY <1>0, <2>0, <2>1, ContentsFacts DEF StageKept, Kept, Boot, Hydrated
  <2> QED
    BY <2>1, <2>2, <2>3 DEF StageKept
<1>7. CASE DeleteBlob(r)
  <2>1. pc'[r] = "deleted" /\ \A s \in Requests \ {r} : pc'[s] = "idle"
    BY <1>0, <1>1, <1>7 DEF DeleteBlob, TypeOK
  <2> QED
    BY <2>1 DEF StageKept
<1>8. CASE Refresh(r)
  <2>1. /\ pc'[r] = "listing" /\ mem' = OnDisk
        /\ \A s \in Requests \ {r} : pc'[s] = "idle"
    BY <1>0, <1>1, <1>8 DEF Refresh, TypeOK
  <2> QED
    BY <2>1 DEF StageKept, OnDisk
<1>9. CASE ListBlobs(r)
  <2>1. /\ pc[r] = "listing" /\ pc'[r] = "hydrating"
        /\ todo'[r] = {n \in Names : blob[n] # Absent}
        /\ \A s \in Requests \ {r} : pc'[s] = "idle"
        /\ UNCHANGED <<mem, override, blob, tunings>>
    BY <1>0, <1>1, <1>9 DEF ListBlobs, TypeOK
  <2>2. ASSUME NEW n \in Names, blob[n] = Absent PROVE Kept(n)'
    BY <1>0, <2>1, <2>2, ContentsFacts
    DEF StageKept, Provenance, Kept, Boot, Hydrated, OnDisk
  <2> QED
    BY <2>1, <2>2 DEF StageKept
<1>10. ASSUME NEW n \in Names, ReadBlob(r, n) PROVE Goal
  <2>1. /\ pc[r] = "hydrating" /\ n \in todo[r]
        /\ \A s \in Requests \ {r} : pc'[s] = "idle"
        /\ UNCHANGED <<mem, override, blob, tunings>>
    BY <1>0, <1>1, <1>10 DEF ReadBlob, TypeOK
  <2>2. blob[n] # Absent
    BY <1>0, <2>1 DEF StageKept
  <2>3. pc'[r] = "loaded" /\ name'[r] = n /\ got'[r] = blob[n] /\ todo'[r] = todo[r]
    BY <1>0, <1>10, <2>2 DEF ReadBlob, TypeOK
  <2>4. \A m \in Names : IF m \in todo'[r] THEN blob'[m] # Absent ELSE Kept(m)'
    BY <1>0, <2>1, <2>3, KeptSame DEF StageKept
  <2> QED
    BY <2>1, <2>3, <2>4 DEF StageKept
<1>11. CASE LoadBlob(r)
  <2>0. PICK m \in Names : m = name[r]
    BY <1>0, <1>11 DEF LoadBlob, TypeOK
  <2>1. /\ pc[r] = "loaded" /\ pc'[r] = "hydrating" /\ todo'[r] = todo[r] \ {m}
        /\ \A s \in Requests \ {r} : pc'[s] = "idle"
        /\ UNCHANGED <<override, blob, tunings>>
        /\ mem'[m] = got[r] /\ got[r] # Absent
        /\ \A n \in Names \ {m} : mem'[n] = mem[n]
    BY <1>0, <2>0, <1>1, <1>11 DEF LoadBlob, TypeOK
  <2>2. Kept(m)'
    BY <1>0, <2>0, <2>1 DEF StageKept, Kept, Boot, Hydrated
  <2>3. ASSUME NEW n \in Names \ {m}
        PROVE  IF n \in todo'[r] THEN blob'[n] # Absent ELSE Kept(n)'
    BY <1>0, <2>0, <2>1, KeptSame DEF StageKept
  <2> QED
    BY <2>1, <2>2, <2>3 DEF StageKept
<1>12. CASE HydrateEnds(r)
  <2>1. /\ pc[r] = "hydrating" /\ pc'[r] = "idle" /\ todo[r] = {}
        /\ \A s \in Requests \ {r} : pc'[s] = "idle"
        /\ UNCHANGED <<mem, override, blob, tunings>>
    BY <1>0, <1>1, <1>12 DEF HydrateEnds, End, TypeOK
  <2>2. \A n \in Names : Kept(n)'
    BY <1>0, <2>1, KeptSame DEF StageKept
  <2> QED
    BY <2>1, <2>2 DEF StageKept
<1>13. CASE \/ \E n \in Names : Tune(r, n) \/ Save(r, n) \/ Delete(r, n) \/ ReadRefused(r, n)
            \/ StoreRefused(r) \/ AuditRefused(r) \/ Raise(r)
  BY <1>13 DEF Tune, Save, Delete, Begin, ReadRefused, StoreRefused, AuditRefused, Raise
<1> QED
  BY <1>2, <1>3, <1>4, <1>5, <1>6, <1>7, <1>8, <1>9, <1>10, <1>11, <1>12, <1>13 DEF Request

\* With nothing under way, no overlap and no failure since the start, a restart
\* would serve what memory serves: but for a tuning the strategy's own blob shadows
\* and one that a deletion put out of memory.
THEOREM RestartKeepsHolds == Spec => []RestartKeeps
<1>1. Init => KeepInv
  <2> SUFFICES ASSUME Init PROVE KeepInv
    OBVIOUS
  <2>1. TypeOK
    BY TypeInit
  <2>2. Provenance
    BY DEF Init, Provenance, OnDisk, Absent
  <2>3. \A n \in Names : Kept(n)
    BY DEF Init, Kept, Boot, Hydrated, OnDisk
  <2>4. (\A r \in Requests : StageKept(r)) /\ UnderWay = {}
    BY DEF Init, StageKept, UnderWay
  <2> QED
    BY <2>1, <2>2, <2>3, <2>4 DEF KeepInv, Sole
<1>2. KeepInv /\ [Next]_vars => KeepInv'
  <2> SUFFICES ASSUME KeepInv, [Next]_vars PROVE KeepInv'
    OBVIOUS
  <2>0. TypeOK /\ TypeOK' /\ Provenance'
    BY TypeStep, ProvenanceStep DEF KeepInv
  <2> DEFINE Goal == ~overlapped' /\ ~failed' =>
                       /\ Sole'
                       /\ UnderWay' = {} => \A n \in Names : Kept(n)'
                       /\ \A r \in Requests : StageKept(r)'
  <2>1. ASSUME NEW r \in Requests, Request(r) PROVE Goal
    <3> SUFFICES ASSUME ~overlapped', ~failed' PROVE Goal
      OBVIOUS
    <3>1. CASE \E n \in Names : Tune(r, n) \/ Save(r, n) \/ Delete(r, n)
      BY <2>0, <3>1, KeepBegin, LoneStep
    <3>2. CASE ~ \E n \in Names : Tune(r, n) \/ Save(r, n) \/ Delete(r, n)
      <4>1. pc[r] # "idle" /\ ~overlapped /\ ~failed
        BY <2>1, <3>2 DEF Request, StoreOverride, StoreRefused, ReadAudit, WriteAudit,
          AuditRefused, UploadStrategy, Upsert, DeleteBlob, Refresh, ListBlobs, ReadBlob,
          ReadRefused, LoadBlob, HydrateEnds, Raise, historyVars
      <4> QED
        BY <2>0, <2>1, <4>1, KeepWork, LoneStep
    <3> QED
      BY <3>1, <3>2
  <2>2. CASE SetBetting \/ UNCHANGED vars
    <3>1. UNCHANGED <<mem, override, blob, pc, name, edit, todo, got, tunings, overlapped,
                      failed>>
      BY <2>2 DEF SetBetting, vars, bucketVars, reqVars
    <3>2. Goal
      BY <3>1 DEF KeepInv, Sole, UnderWay, Kept, Boot, Hydrated, OnDisk, StageKept
    <3> QED
      BY <2>0, <3>2 DEF KeepInv
  <2>3. CASE Restart
    <3>1. PICK overrides, strategies \in SUBSET Names :
            /\ mem' = [n \in Names |-> Hydrated(n, overrides, strategies)]
            /\ failed' = (overrides \intersect strategies # Names)
      BY <2>3 DEF Restart
    <3>2. UNCHANGED <<override, blob>> /\ \A r \in Requests : pc'[r] = "idle"
      BY <2>3 DEF Restart, bucketVars
    <3>3. ~failed' => \A n \in Names : Kept(n)'
      BY <3>1, <3>2 DEF Kept, Boot, Hydrated, OnDisk
    <3>4. Sole' /\ \A r \in Requests : StageKept(r)'
      BY <3>2 DEF Sole, UnderWay, StageKept
    <3> QED
      BY <2>0, <3>3, <3>4 DEF KeepInv
  <2> QED
    BY <2>0, <2>1, <2>2, <2>3 DEF Next, KeepInv
<1>3. KeepInv => RestartKeeps
  BY DEF KeepInv, RestartKeeps, Kept
<1> QED
  BY <1>1, <1>2, <1>3, PTL DEF Spec
=============================================================================
