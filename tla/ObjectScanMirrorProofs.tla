----------------------- MODULE ObjectScanMirrorProofs -----------------------
(***************************************************************************)
(* Scans, uploads and deletions implement IndexMirror, for every value of   *)
(* the constants: the initial states map to initial states of the mirror,   *)
(* and every step to a step of it or to a stutter.                          *)
(***************************************************************************)
EXTENDS ObjectScanMirror, ObjectScanProofs

(* What a page in hand shows has been held, and so has the absence of an    *)
(* object that is not stable.                                               *)
ScanHeld(s) ==
  scan[s].pc \in Working =>
    /\ \A k \in DOMAIN scan[s].page : scan[s].page[k] \in held[k]
    /\ \A k \in Scope \ hist[s].stable : Absent \in held[k]

(* So has what a request is about to write, or the absence of what it is    *)
(* about to delete.                                                         *)
RequestHeld(q) ==
  /\ req[q].op = "upload" =>
       req[q].ver \in Versions /\ \A k \in req[q].keys : req[q].ver \in held[k]
  /\ req[q].op = "delete" => \A k \in req[q].keys : Absent \in held[k]

HeldInv ==
  /\ \A k \in Scope : s3[k] \in held[k]
  /\ \A s \in Scans : ScanHeld(s)
  /\ \A q \in Requests : RequestHeld(q)

(* The invariants of the scans, which the history variable does not touch.  *)
ScanInv == TypeInv /\ SweepInv /\ CalmInv

-----------------------------------------------------------------------------
LEMMA ScanInvInit == TracedInit => ScanInv
  BY TypeInit, SweepInit, CalmInit DEF TracedInit, ScanInv

LEMMA ScanInvStep == ScanInv /\ [TracedNext]_tracedVars => ScanInv'
<1>1. [TracedNext]_tracedVars => [Next]_vars
  BY DEF TracedNext, tracedVars, vars
<1> QED  BY <1>1, TypeStep, SweepStep, CalmStep DEF ScanInv

(* What a step of scan s may do to what HeldInv is about.                   *)
LEMMA ScanEffect ==
  ASSUME ScanInv, NEW s \in Scans, ScanStep(s)
  PROVE  /\ s3' = s3 /\ req' = req
         /\ \A p \in Scans \ {s} : scan'[p] = scan[p] /\ hist'[p].stable = hist[p].stable
         /\ scan'[s].pc \in Working =>
              /\ \A k \in DOMAIN scan'[s].page :
                   \/ k \in Scope /\ scan'[s].page[k] = s3[k]
                   \/ k \in DOMAIN scan[s].page /\ scan'[s].page[k] = scan[s].page[k]
              /\ \/ hist'[s].stable = Present(s3) /\ DOMAIN scan'[s].page = {}
                 \/ hist'[s].stable = hist[s].stable /\ scan[s].pc \in Working
<1>0. TypeInv /\ ListingState(s)
  BY DEF ScanInv, SweepInv, SweepOk
<1>1. s3' = s3 /\ req' = req
  BY DEF ScanStep, Begin, BeginFails, MarkObjects, MarkObjectsFails, ListPage, ListPageFails,
         WriteParent, WriteParentFails, WriteObject, WriteObjectFails, UnmarkObject,
         UnmarkObjectFails, CountMarked, DeleteMarkedRows, CleanupFails, Finalize, FinalizeFails
<1>2. \A p \in Scans \ {s} : scan'[p] = scan[p] /\ hist'[p].stable = hist[p].stable
  BY <1>0, OtherScans, MarkedState
<1>g. ASSUME NEW label, Goto(s, label) PROVE scan'[s].pc = label /\ scan'[s].page = scan[s].page
  BY <1>0, <1>g, GotoState
<1>k. ASSUME NEW kind, Struck(s, kind) PROVE hist'[s].stable = hist[s].stable
  BY <1>0, <1>k, StruckState
<1> DEFINE Carries ==
             scan'[s].pc \in Working =>
               /\ \A k \in DOMAIN scan'[s].page :
                    \/ k \in Scope /\ scan'[s].page[k] = s3[k]
                    \/ k \in DOMAIN scan[s].page /\ scan'[s].page[k] = scan[s].page[k]
               /\ \/ hist'[s].stable = Present(s3) /\ DOMAIN scan'[s].page = {}
                  \/ hist'[s].stable = hist[s].stable /\ scan[s].pc \in Working
<1>n. ASSUME NextObject(s), scan[s].pc \in {"upsert", "unmark"},
             hist'[s].stable = hist[s].stable
      PROVE  Carries
  <2>1. /\ DOMAIN scan'[s].page \subseteq DOMAIN scan[s].page
        /\ \A k \in DOMAIN scan'[s].page : scan'[s].page[k] = scan[s].page[k]
    BY <1>0, <1>n, NextObjectState
  <2> QED  BY <1>n, <2>1 DEF Working
<1>3. CASE Begin(s) \/ BeginFails(s) \/ MarkObjectsFails(s) \/ Finalize(s) \/ FinalizeFails(s)
            \/ DeleteMarkedRows(s) \/ CleanupFails(s)
  <2>1. Goto(s, "mark") \/ Goto(s, "done") \/ Goto(s, "finalize")
    BY <1>3 DEF Begin, BeginFails, MarkObjectsFails, Finalize, FinalizeFails,
                DeleteMarkedRows, CleanupFails
  <2>2. scan'[s].pc \notin Working
    BY <1>g, <2>1 DEF Working
  <2> QED  BY <1>1, <1>2, <2>2
<1>4. CASE MarkObjects(s)
  <2>1. Carries
    BY <1>0, <1>4, MarkedState DEF ListingState
  <2> QED  BY <1>1, <1>2, <2>1
<1>5. CASE ListPage(s)
  <2>1. scan[s].pc = "list" /\ hist' = hist
    BY <1>5 DEF ListPage
  <2>2. \A k \in DOMAIN scan'[s].page : k \in Scope /\ scan'[s].page[k] = s3[k]
    BY <1>0, <1>5, ListedState
  <2> QED  BY <1>1, <1>2, <2>1, <2>2 DEF Working
<1>6. CASE ListPageFails(s) \/ WriteParentFails(s)
  <2>1. scan[s].pc \in Working /\ (Struck(s, "list") \/ Struck(s, "row"))
    BY <1>6 DEF ListPageFails, WriteParentFails, Working
  <2>2. scan'[s].page = scan[s].page
    BY <1>0, <1>6, GivenUpState
  <2> QED  BY <1>1, <1>2, <1>k, <2>1, <2>2
<1>7. CASE WriteParent(s)
  <2>1. scan[s].pc \in Working /\ hist' = hist
    BY <1>7 DEF WriteParent, Working
  <2> QED  BY <1>0, <1>1, <1>2, <1>7, <2>1, WrittenParentState
<1>8. CASE WriteObject(s)
  <2>1. /\ scan[s].pc = "upsert" /\ hist' = hist
        /\ Goto(s, "unmark") \/ NextObject(s)
    BY <1>8 DEF WriteObject
  <2>2. CASE Goto(s, "unmark")
    BY <1>1, <1>2, <1>g, <2>1, <2>2 DEF Working
  <2>3. CASE NextObject(s)
    BY <1>1, <1>2, <1>n, <2>1, <2>3
  <2> QED  BY <2>1, <2>2, <2>3
<1>9. CASE WriteObjectFails(s) \/ UnmarkObjectFails(s) \/ UnmarkObject(s)
  <2>1. /\ scan[s].pc \in {"upsert", "unmark"} /\ NextObject(s)
        /\ hist' = hist \/ Struck(s, "row") \/ Struck(s, "unmark")
    BY <1>9 DEF WriteObjectFails, UnmarkObjectFails, UnmarkObject
  <2> QED  BY <1>1, <1>2, <1>n, <1>k, <2>1
<1>10. CASE CountMarked(s)
  <2>1. scan[s].pc = "count" /\ hist' = hist /\ (Goto(s, "delete") \/ Goto(s, "finalize"))
    BY <1>10 DEF CountMarked
  <2> QED  BY <1>1, <1>2, <1>g, <2>1 DEF Working
<1> QED
  BY <1>3, <1>4, <1>5, <1>6, <1>7, <1>8, <1>9, <1>10 DEF ScanStep

LEMMA HeldInit == TracedInit => HeldInv
  BY DEF TracedInit, Init, HeldInv, ScanHeld, RequestHeld, FreshScan, IdleRequest, Working

LEMMA HeldStep == ScanInv /\ HeldInv /\ [TracedNext]_tracedVars => HeldInv'
<1> SUFFICES ASSUME ScanInv, HeldInv, [TracedNext]_tracedVars PROVE HeldInv'
  OBVIOUS
<1>0. /\ s3 \in [Objects -> Versions \cup {Absent}] /\ Scope \subseteq Objects
      /\ hist \in [Scans -> ScanHistory] /\ req \in [Requests -> RequestState]
      /\ RequestsInScope
      /\ \A s \in Scans : scan[s].pc \in Working => DOMAIN scan[s].page \subseteq Scope
  BY ConstantsAssumption DEF ScanInv, TypeInv, TypeOK, CalmInv, InScope, Underway
<1>1. CASE UNCHANGED tracedVars
  BY <1>1 DEF tracedVars, vars, HeldInv, ScanHeld, RequestHeld
<1>2. CASE TracedNext /\ AtRest'
  <2>1. \A k \in Scope : s3'[k] \in held'[k]
    BY <1>2 DEF TracedNext
  <2>2. /\ \A s \in Scans : scan'[s].pc \notin Working
        /\ \A q \in Requests : req'[q].op = "none"
    BY <1>2 DEF AtRest, Working, IdleRequest
  <2> QED  BY <2>1, <2>2 DEF HeldInv, ScanHeld, RequestHeld
<1>3. CASE TracedNext /\ ~ AtRest'
  <2>0. Next /\ \A k \in Scope : held[k] \subseteq held'[k] /\ s3'[k] \in held'[k]
    BY <1>3 DEF TracedNext
  (* The request stays as it is, or lets go of a key.                       *)
  <2>r. ASSUME NEW q \in Requests, req'[q].keys \subseteq req[q].keys,
               req'[q].op \in {"none", req[q].op}, req'[q].op # "none" => req'[q].ver = req[q].ver
        PROVE  RequestHeld(q)'
    <3>1. req[q].keys \subseteq Scope
      BY <1>0 DEF RequestsInScope
    <3> QED  BY <2>0, <2>r, <3>1 DEF HeldInv, RequestHeld
  <2>1. ASSUME NEW s \in Scans, ScanStep(s) PROVE HeldInv'
    <3>1. /\ s3' = s3 /\ req' = req
          /\ \A p \in Scans \ {s} : scan'[p] = scan[p] /\ hist'[p].stable = hist[p].stable
          /\ scan'[s].pc \in Working =>
               /\ \A k \in DOMAIN scan'[s].page :
                    \/ k \in Scope /\ scan'[s].page[k] = s3[k]
                    \/ k \in DOMAIN scan[s].page /\ scan'[s].page[k] = scan[s].page[k]
               /\ \/ hist'[s].stable = Present(s3) /\ DOMAIN scan'[s].page = {}
                  \/ hist'[s].stable = hist[s].stable /\ scan[s].pc \in Working
      BY <2>1, ScanEffect
    <3>2. ASSUME NEW p \in Scans \ {s} PROVE ScanHeld(p)'
      <4>1. ScanHeld(p) /\ (scan[p].pc \in Working => DOMAIN scan[p].page \subseteq Scope)
        BY <1>0 DEF HeldInv
      <4> QED  BY <2>0, <3>1, <4>1 DEF ScanHeld
    <3>3. ASSUME scan'[s].pc \in Working
          PROVE  /\ \A k \in DOMAIN scan'[s].page : scan'[s].page[k] \in held'[k]
                 /\ \A k \in Scope \ hist'[s].stable : Absent \in held'[k]
      <4>1. CASE hist'[s].stable = Present(s3) /\ DOMAIN scan'[s].page = {}
        BY <1>0, <2>0, <3>1, <4>1 DEF Present
      <4>2. CASE hist'[s].stable = hist[s].stable /\ scan[s].pc \in Working
        <5>1. ScanHeld(s) /\ DOMAIN scan[s].page \subseteq Scope
          BY <1>0, <4>2 DEF HeldInv
        <5> QED  BY <2>0, <3>1, <3>3, <4>2, <5>1 DEF ScanHeld
      <4> QED  BY <3>1, <3>3, <4>1, <4>2
    <3>4. \A q \in Requests : RequestHeld(q)'
      BY <2>r, <3>1
    <3> QED  BY <2>0, <3>2, <3>3, <3>4 DEF HeldInv, ScanHeld
  (* S3 changes.                                                            *)
  <2>e. ASSUME NEW bucket, NEW changed, S3Changes(bucket, changed), scan' = scan
        PROVE  \A s \in Scans : ScanHeld(s)'
    <3> SUFFICES ASSUME NEW s \in Scans, scan[s].pc \in Working
                 PROVE  /\ \A k \in DOMAIN scan[s].page : scan[s].page[k] \in held'[k]
                        /\ \A k \in Scope \ hist'[s].stable : Absent \in held'[k]
      BY <2>e DEF ScanHeld
    <3>1. hist'[s].stable = hist[s].stable \cap Present(s3')
      BY <1>0, <2>e DEF S3Changes, ScanHistory
    <3>2. ScanHeld(s) /\ DOMAIN scan[s].page \subseteq Scope
      BY <1>0 DEF HeldInv
    <3> QED  BY <1>0, <2>0, <3>1, <3>2 DEF ScanHeld, Present
  <2>2. ASSUME NEW q \in Requests, RequestStep(q) PROVE HeldInv'
    <3>1. ASSUME NEW k \in Scope \ Folders, NEW v \in Versions, Upload(q, k, v) PROVE HeldInv'
      <4>1. ASSUME NEW r \in Requests PROVE RequestHeld(r)'
        <5>1. CASE req'[r] = req[r]
          BY <2>r, <5>1
        <5>2. CASE req'[r] = [op |-> "upload", keys |-> {k}, ver |-> v]
          <6>1. s3'[k] = v
            BY <1>0, <3>1 DEF Upload, S3Changes
          <6> QED  BY <2>0, <5>2, <6>1 DEF RequestHeld
        <5> QED  BY <3>1, <5>1, <5>2, RequestKeys DEF ScanInv
      <4> QED  BY <2>0, <2>e, <3>1, <4>1 DEF Upload, HeldInv
    <3>2. ASSUME NEW K \in SUBSET Scope \ {{}}, Delete(q, K) PROVE HeldInv'
      <4>0. /\ S3Changes([k \in Objects |-> IF k \in K THEN Absent ELSE s3[k]], K)
            /\ scan' = scan
        BY <3>2 DEF Delete
      <4>1. ASSUME NEW r \in Requests PROVE RequestHeld(r)'
        <5>1. CASE req'[r] = req[r]
          BY <2>r, <5>1
        <5>2. CASE req'[r] = [op |-> "delete", keys |-> K, ver |-> NoVersion]
          <6>1. \A k \in K : s3'[k] = Absent
            BY <1>0, <4>0 DEF S3Changes
          <6> QED  BY <2>0, <3>2, <5>2, <6>1 DEF RequestHeld
        <5> QED  BY <3>2, <5>1, <5>2, RequestKeys DEF ScanInv
      <4> QED  BY <2>0, <2>e, <4>0, <4>1 DEF HeldInv
    <3>3. ASSUME NEW K \in SUBSET Scope \ {{}}, DeletePartly(q, K) PROVE HeldInv'
      <4>1. PICK D \in SUBSET K :
              S3Changes([k \in Objects |-> IF k \in D THEN Absent ELSE s3[k]], D)
        BY <3>3 DEF DeletePartly
      <4>2. scan' = scan /\ req' = req
        BY <3>3 DEF DeletePartly
      <4> QED  BY <2>0, <2>e, <2>r, <4>1, <4>2 DEF HeldInv
    <3>4. ASSUME SyncUpload(q) \/ SyncDelete(q) \/ SyncFails(q) PROVE HeldInv'
      <4>1. s3' = s3 /\ scan' = scan /\ hist' = hist
        BY <3>4, RequestsMarkNothing
      <4>2. \A s \in Scans : ScanHeld(s)'
        <5> SUFFICES ASSUME NEW s \in Scans, scan[s].pc \in Working PROVE ScanHeld(s)'
          BY <4>1 DEF ScanHeld
        <5>1. ScanHeld(s) /\ DOMAIN scan[s].page \subseteq Scope
          BY <1>0 DEF HeldInv
        <5> QED  BY <2>0, <4>1, <5>1 DEF ScanHeld
      <4>3. ASSUME NEW r \in Requests
            PROVE  /\ req'[r].keys \subseteq req[r].keys
                   /\ req'[r].op \in {"none", req[r].op}
                   /\ req'[r].op # "none" => req'[r].ver = req[r].ver
        <5>1. /\ IdleRequest.keys = {} /\ IdleRequest.op = "none"
              /\ \A k : /\ Without(req[r], k).keys \subseteq req[r].keys
                        /\ Without(req[r], k).op \in {"none", req[r].op}
                        /\ Without(req[r], k).op # "none"
                             => Without(req[r], k).ver = req[r].ver
          BY <1>0 DEF IdleRequest, Without, RequestState
        <5>2. \/ req'[r] = req[r]
              \/ req'[r] = IdleRequest
              \/ \E k : req'[r] = Without(req[r], k)
          BY <1>0, <3>4 DEF SyncUpload, SyncDelete, SyncFails
        <5> QED  BY <5>1, <5>2
      <4>4. \A r \in Requests : RequestHeld(r)'
        BY <2>r, <4>3
      <4> QED  BY <2>0, <4>2, <4>4 DEF HeldInv
    <3> QED  BY <2>2, <3>1, <3>2, <3>3, <3>4 DEF RequestStep
  <2>3. CASE ExternalChange
    <3>1. PICK k \in ExternalKeys, v \in Versions \cup {Absent} :
            S3Changes([s3 EXCEPT ![k] = v], {k})
      BY <2>3 DEF ExternalChange
    <3>2. scan' = scan /\ req' = req
      BY <2>3 DEF ExternalChange
    <3> QED  BY <2>0, <2>e, <2>r, <3>1, <3>2 DEF HeldInv
  <2>4. CASE Kill
    <3>1. AtRest'
      BY <2>4 DEF Kill, AtRest, FreshScan
    <3> QED  BY <1>3, <3>1
  <2> QED  BY <2>0, <2>1, <2>2, <2>3, <2>4 DEF Next
<1> QED  BY <1>1, <1>2, <1>3

-----------------------------------------------------------------------------
(* The refinement mapping. *)

bucketBar == [k \in Scope |-> s3[k]]
rowsBar   == [k \in DOMAIN index |-> index[k].ver]
flawedBar == \E s \in Scans : Unreliable(s)

(* The history follows, and a mirror at rest is not flawed.                 *)
LEMMA Remembers == TracedNext => Mirror!Remember
<1> SUFFICES ASSUME TracedNext PROVE Mirror!Remember
  OBVIOUS
<1>1. held' = [k \in Scope |-> IF AtRest' THEN {bucketBar'[k]} ELSE held[k] \cup {bucketBar'[k]}]
  BY DEF TracedNext, bucketBar
<1>2. AtRest' => ~ flawedBar'
  BY DEF AtRest, flawedBar, Unreliable, Working
<1>3. AtRest' \in BOOLEAN /\ flawedBar' \in BOOLEAN
  BY DEF AtRest, flawedBar
<1> QED  BY <1>1, <1>2, <1>3 DEF Mirror!Remember, bucketBar, flawedBar

LEMMA MirrorInitial == TracedInit => Mirror!MirrorInit
<1> SUFFICES ASSUME TracedInit PROVE Mirror!MirrorInit
  OBVIOUS
<1>1. bucketBar \in [Scope -> Versions \cup {Absent}]
  BY ConstantsAssumption DEF TracedInit, Init, bucketBar
<1>2. rowsBar = [k \in {} |-> NoVersion]
  BY DEF TracedInit, Init, NoRows, rowsBar
<1>3. AtRest = TRUE /\ flawedBar = FALSE
  BY DEF TracedInit, Init, AtRest, flawedBar, Unreliable, FreshScan, Working
<1>4. held = [k \in Scope |-> {bucketBar[k]}]
  BY DEF TracedInit, bucketBar
<1> QED  BY <1>1, <1>2, <1>3, <1>4 DEF Mirror!MirrorInit, bucketBar, rowsBar, flawedBar

(* Each way in which the table changes is one of the mirror's.              *)
LEMMA UpsertBar ==
  ASSUME NEW k, NEW v, NEW b, index' = Upsert(index, k, v, b)
  PROVE  rowsBar' = [x \in DOMAIN rowsBar \cup {k} |-> IF x = k THEN v ELSE rowsBar[x]]
  BY SMT DEF Upsert, rowsBar

LEMMA WritesRow ==
  ASSUME ~ AtRest, NEW k \in Scope, NEW v, NEW b, v \in held[k] \ {Absent}, s3' = s3,
         index' = Upsert(index, k, v, b)
  PROVE  Mirror!WriteRow
<1>1. rowsBar' = [x \in DOMAIN rowsBar \cup {k} |-> IF x = k THEN v ELSE rowsBar[x]]
  BY UpsertBar
<1>2. bucketBar' = bucketBar
  BY DEF bucketBar
<1> QED  BY <1>1, <1>2 DEF Mirror!WriteRow, bucketBar, rowsBar

LEMMA WritesFolder ==
  ASSUME ~ AtRest, NEW k \in Scope, NEW i \in DOMAIN Ancestors[k], held[k] # {Absent}, s3' = s3,
         NEW f, f = Ancestors[k][i], index' = Upsert(index, f, NoVersion, TRUE)
  PROVE  Mirror!WriteFolder
<1>1. rowsBar' = [x \in DOMAIN rowsBar \cup {f} |-> IF x = f THEN NoVersion ELSE rowsBar[x]]
  BY SMT DEF Upsert, rowsBar
<1>2. rowsBar' = [x \in DOMAIN rowsBar \cup {Ancestors[k][i]} |->
                    IF x = Ancestors[k][i] THEN NoVersion ELSE rowsBar[x]]
  BY <1>1
<1>3. bucketBar' = bucketBar
  BY DEF bucketBar
<1> QED  BY <1>2, <1>3 DEF Mirror!WriteFolder, bucketBar, rowsBar

LEMMA SameRows ==
  ASSUME s3' = s3, DOMAIN index' = DOMAIN index,
         \A k \in DOMAIN index : index'[k].ver = index[k].ver
  PROVE  bucketBar' = bucketBar /\ rowsBar' = rowsBar
  BY DEF bucketBar, rowsBar

(* The sweep removes only rows that may go, unless the scan is unreliable.  *)
LEMMA Sweeps ==
  ASSUME ScanInv, HeldInv, NEW s \in Scans, DeleteMarkedRows(s)
  PROVE  Mirror!RemoveRows
<1>1. scan[s].pc = "delete" /\ index' = DeleteMarked(index) /\ s3' = s3
  BY DEF DeleteMarkedRows
<1>2. ~ AtRest
  BY <1>1 DEF AtRest
<1> DEFINE K == MarkedKeys(index)
<1>3. K \in SUBSET DOMAIN rowsBar /\ rowsBar' = [k \in DOMAIN rowsBar \ K |-> rowsBar[k]]
  BY <1>1, SMT DEF rowsBar, DeleteMarked, MarkedKeys
<1>4. bucketBar' = bucketBar
  BY <1>1 DEF bucketBar
<1>5. ASSUME ~ flawedBar, NEW k \in K PROVE Mirror!MayGo(k)
  <2>1. KeptCovered(s)
    BY <1>1, <1>5 DEF flawedBar, Unreliable, Trusted, ScanInv, SweepInv, SweepOk, Working
  <2>2. \A j \in hist[s].stable \cap Scope : k # j /\ k \notin AncestorSet(j)
    BY <1>1, <2>1 DEF KeptCovered, Covered
  <2>3. \A j \in Scope \ hist[s].stable : Absent \in held[j]
    BY <1>1 DEF HeldInv, ScanHeld, Working
  <2>4. k \in Scope \ Folders => Absent \in held[k]
    BY <2>2, <2>3
  <2>5. \A j \in Mirror!Below(k) : Absent \in held[j]
    BY <2>2, <2>3 DEF Mirror!Below, AncestorSet
  <2> QED  BY <2>4, <2>5 DEF Mirror!MayGo
<1> HIDE DEF K
<1> QED  BY <1>2, <1>3, <1>4, <1>5 DEF Mirror!RemoveRows, bucketBar, rowsBar, flawedBar

LEMMA ScanMaps ==
  ASSUME ScanInv, HeldInv, NEW s \in Scans, ScanStep(s)
  PROVE  \/ Mirror!WriteRow \/ Mirror!WriteFolder \/ Mirror!RemoveRows
         \/ bucketBar' = bucketBar /\ rowsBar' = rowsBar
<1>0. TypeInv /\ CalmInv
  BY DEF ScanInv
<1>c. ASSUME scan[s].pc \in {"parent", "upsert", "unmark"}
      PROVE  /\ ~ AtRest /\ Current(s) \in Scope
             /\ scan[s].page[Current(s)] \in held[Current(s)] \ {Absent}
  <2>1. Current(s) \in DOMAIN scan[s].page /\ scan[s].page[Current(s)] \in Versions
    BY <1>0, <1>c, CurrentInPage
  <2>2. scan[s].page[Current(s)] \in held[Current(s)]
    BY <1>c, <2>1 DEF HeldInv, ScanHeld, Working
  <2>3. Current(s) \in Scope /\ ~ AtRest
    BY <1>0, <1>c, CurrentIsThere DEF AtRest
  <2> QED  BY <2>1, <2>2, <2>3, ConstantsAssumption
<1>1. CASE index' = index
  <2>1. s3' = s3
    BY ScanEffect
  <2> QED  BY <1>1, <2>1, SameRows
<1>2. CASE MarkObjects(s)
  <2>1. s3' = s3 /\ index' = IF DeletionSync THEN MarkAll(index) ELSE index
    BY <1>2 DEF MarkObjects
  <2> QED  BY <2>1, SameRows DEF MarkAll, SetMark
<1>3. CASE WriteParent(s)
  <2> DEFINE f == Head(scan[s].todo)
  <2>1. scan[s].pc = "parent" /\ s3' = s3 /\ index' = Upsert(index, f, NoVersion, TRUE)
    BY <1>3 DEF WriteParent
  <2>2. f \in AncestorSet(Current(s))
    <3>1. f \in TodoSet(s)
      BY <1>0, <1>3, <2>1, TodoTail, WrittenParentState
    <3> QED  BY <1>0, <2>1, <3>1 DEF CalmInv, InScope, Underway, Working
  <2>3. PICK i \in DOMAIN Ancestors[Current(s)] : f = Ancestors[Current(s)][i]
    BY <2>2 DEF AncestorSet
  <2> HIDE DEF f
  <2>4. held[Current(s)] # {Absent}
    BY <1>c, <2>1
  <2>5. ~ AtRest /\ index' = Upsert(index, f, NoVersion, TRUE) /\ s3' = s3
    BY <2>1 DEF AtRest
  <2>6. Mirror!WriteFolder
    BY <1>c, <2>1, <2>3, <2>4, <2>5, WritesFolder
  <2> QED  BY <2>6
<1>4. CASE WriteObject(s)
  <2>1. /\ scan[s].pc = "upsert" /\ s3' = s3
        /\ index' = Upsert(index, Current(s), scan[s].page[Current(s)], FALSE)
    BY <1>4 DEF WriteObject
  <2> QED  BY <1>c, <2>1, WritesRow
<1>5. CASE UnmarkObject(s)
  <2>1. s3' = s3 /\ index' = Unmark(index, Current(s))
    BY <1>5 DEF UnmarkObject
  <2> QED  BY <2>1, SameRows DEF Unmark, SetMark
<1>6. CASE DeleteMarkedRows(s)
  BY <1>6, Sweeps
<1> QED
  BY <1>1, <1>2, <1>3, <1>4, <1>5, <1>6
     DEF ScanStep, Begin, BeginFails, MarkObjectsFails, ListPage, ListPageFails, WriteParentFails,
         WriteObjectFails, UnmarkObjectFails, CountMarked, CleanupFails, Finalize, FinalizeFails

LEMMA RequestMaps ==
  ASSUME ScanInv, HeldInv, NEW q \in Requests, SyncUpload(q) \/ SyncDelete(q) \/ SyncFails(q)
  PROVE  \/ Mirror!WriteRow \/ Mirror!RemoveRow
         \/ bucketBar' = bucketBar /\ rowsBar' = rowsBar
<1>0. s3' = s3 /\ req[q].keys \subseteq Scope /\ NoVersion \notin Versions /\ Absent \notin Versions
  BY RequestsMarkNothing, ConstantsAssumption DEF ScanInv, CalmInv, RequestsInScope
<1>1. req[q].op # "none" => ~ AtRest
  BY DEF AtRest, IdleRequest
<1>2. CASE SyncUpload(q)
  <2>1. /\ req[q].op = "upload"
        /\ \E k \in req[q].keys : index' = Upsert(index, k, req[q].ver, k \in Folders)
    BY <1>2 DEF SyncUpload
  <2>2. PICK k \in req[q].keys : index' = Upsert(index, k, req[q].ver, k \in Folders)
    BY <2>1
  <2>3. req[q].ver \in held[k] \ {Absent}
    BY <1>0, <2>1 DEF HeldInv, RequestHeld
  <2> QED  BY <1>0, <1>1, <2>1, <2>2, <2>3, WritesRow
<1>3. CASE SyncDelete(q)
  <2>1. req[q].op = "delete" /\ \E k \in req[q].keys : index' = DeleteRow(index, k)
    BY <1>3 DEF SyncDelete
  <2>2. PICK k \in req[q].keys : index' = DeleteRow(index, k)
    BY <2>1
  <2>3. k \in Scope /\ Absent \in held[k]
    BY <1>0, <2>1 DEF HeldInv, RequestHeld
  <2>4. rowsBar' = [x \in DOMAIN rowsBar \ {k} |-> rowsBar[x]]
    BY <2>2, SMT DEF DeleteRow, rowsBar
  <2>5. bucketBar' = bucketBar
    BY <1>0 DEF bucketBar
  <2> QED  BY <1>1, <2>1, <2>3, <2>4, <2>5 DEF Mirror!RemoveRow, bucketBar, rowsBar
<1>4. CASE SyncFails(q)
  BY <1>0, <1>4, SameRows DEF SyncFails
<1> QED  BY <1>2, <1>3, <1>4

LEMMA MirrorStep ==
  ScanInv /\ ScanInv' /\ HeldInv /\ [TracedNext]_tracedVars
    => [Mirror!MirrorNext]_(Mirror!mirrorVars)
<1> SUFFICES ASSUME ScanInv, ScanInv', HeldInv, [TracedNext]_tracedVars
             PROVE  [Mirror!MirrorNext]_(Mirror!mirrorVars)
  OBVIOUS
<1>1. CASE UNCHANGED tracedVars
  <2>1. bucketBar' = bucketBar /\ rowsBar' = rowsBar /\ held' = held
        /\ AtRest' = AtRest /\ flawedBar' = flawedBar
    BY <1>1 DEF tracedVars, vars, bucketBar, rowsBar, AtRest, flawedBar, Unreliable
  <2> QED  BY <2>1 DEF Mirror!mirrorVars, bucketBar, rowsBar, flawedBar
<1>2. CASE TracedNext
  <2>0. Next /\ Mirror!Remember
    BY <1>2, Remembers DEF TracedNext
  <2>1. \/ Mirror!ObjectsChange \/ Mirror!WriteRow \/ Mirror!WriteFolder \/ Mirror!RemoveRows
        \/ Mirror!RemoveRow
        \/ bucketBar' = bucketBar /\ rowsBar' = rowsBar
    <3>1. ASSUME NEW s \in Scans, ScanStep(s)
          PROVE  \/ Mirror!WriteRow \/ Mirror!WriteFolder \/ Mirror!RemoveRows
                 \/ bucketBar' = bucketBar /\ rowsBar' = rowsBar
      BY <3>1, ScanMaps
    <3>2. ASSUME index' = index PROVE Mirror!ObjectsChange
      <4>1. bucketBar' \in [Scope -> Versions \cup {Absent}]
        BY ConstantsAssumption DEF ScanInv, TypeInv, TypeOK, bucketBar
      <4>2. rowsBar' = rowsBar
        BY <3>2 DEF rowsBar
      <4> QED  BY <4>1, <4>2 DEF Mirror!ObjectsChange, bucketBar, rowsBar
    <3>3. ASSUME NEW q \in Requests, RequestStep(q)
          PROVE  index' = index \/ SyncUpload(q) \/ SyncDelete(q) \/ SyncFails(q)
      BY <3>3 DEF RequestStep, Upload, Delete, DeletePartly
    <3>4. ExternalChange \/ Kill => index' = index
      BY DEF ExternalChange, Kill
    <3> QED  BY <2>0, <3>1, <3>2, <3>3, <3>4, RequestMaps DEF Next
  <2> QED  BY <2>0, <2>1 DEF Mirror!MirrorNext, bucketBar, rowsBar
<1> QED  BY <1>1, <1>2

(* The index is a mirror that lags behind by no more than the work at hand: *)
(* ObjectScan, with its history, implements IndexMirror.                    *)
THEOREM ImplementsMirror == TracedSpec => IndexIsMirror
<1>1. TracedInit => ScanInv /\ HeldInv
  BY ScanInvInit, HeldInit
<1>2. ScanInv /\ HeldInv /\ [TracedNext]_tracedVars => ScanInv' /\ HeldInv'
  BY ScanInvStep, HeldStep
<1>3. TracedSpec => [](ScanInv /\ HeldInv)
  BY <1>1, <1>2, PTL DEF TracedSpec
<1> QED
  BY <1>3, MirrorInitial, MirrorStep, PTL DEF TracedSpec, IndexIsMirror, Mirror!MirrorSpec
=============================================================================
