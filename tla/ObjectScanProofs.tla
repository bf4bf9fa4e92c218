-------------------------- MODULE ObjectScanProofs --------------------------
(***************************************************************************)
(* Theorems about ObjectScan, for every set of objects, folders, versions,  *)
(* scans, requests and faults: what sweeps delete and spare, and what a     *)
(* scan leaves behind.                                                      *)
(***************************************************************************)
EXTENDS ObjectScan, WellFoundedInduction, TLAPS

(* A non-empty set of keys has a least one: the object a scan works on is   *)
(* one of those left in the page.                                           *)
LEMMA LeastIn ==
  ASSUME NEW S, S \subseteq Nat, S # {}
  PROVE  Least(S) \in S /\ \A j \in S : Least(S) <= j
<1> DEFINE R == {ss \in Nat \X Nat : ss[1] < ss[2]}
<1>1. OpToRel(<, Nat) = R
  BY DEF OpToRel
<1>2. IsWellFoundedOn(R, Nat)
  BY <1>1, NatLessThanWellFounded
<1>3. PICK k \in S : \A j \in S : <<j, k>> \notin R
  <2> HIDE DEF R
  <2> QED  BY <1>2, WFMin
<1>4. \A j \in S : j < k => <<j, k>> \in R
  BY S \subseteq Nat
<1>5. ASSUME NEW j \in S PROVE k <= j
  <2> HIDE DEF R
  <2>1. ~ (j < k)
    BY <1>3, <1>4
  <2> QED  BY <2>1, j \in Nat, k \in Nat
<1> QED  BY <1>5 DEF Least
-----------------------------------------------------------------------------
(* Lemmas about the table's queries. *)

LEMMA TableTypes ==
  ASSUME NEW KS, NEW VS, NEW t, IsTable(t, KS, VS)
  PROVE  /\ IsTable(MarkAll(t), KS, VS)
         /\ IsTable(DeleteMarked(t), KS, VS)
         /\ \A k : IsTable(Unmark(t, k), KS, VS) /\ IsTable(DeleteRow(t, k), KS, VS)
         /\ \A k \in KS, v \in VS \cup {NoVersion}, b \in BOOLEAN :
              IsTable(Upsert(t, k, v, b), KS, VS)
  BY DEF IsTable, Row, MarkAll, DeleteMarked, MarkedKeys, Unmark, DeleteRow,
     Upsert, SetMark

LEMMA UpsertRow ==
  ASSUME NEW t, NEW k, NEW v, NEW b
  PROVE  /\ DOMAIN Upsert(t, k, v, b) = DOMAIN t \cup {k}
         /\ Upsert(t, k, v, b)[k] = [ver |-> v, folder |-> b, marked |-> FALSE]
         /\ \A x \in DOMAIN t \ {k} : Upsert(t, k, v, b)[x] = t[x]
  BY DEF Upsert

(* No query but MarkAllObjectsForDeletion makes a row marked.               *)
LEMMA MarksOnlyFromMarkAll ==
  ASSUME NEW t
  PROVE  /\ \A k, v, b : MarkedKeys(Upsert(t, k, v, b)) = MarkedKeys(t) \ {k}
         /\ \A k : MarkedKeys(Unmark(t, k)) \subseteq MarkedKeys(t) \ {k}
         /\ \A k : MarkedKeys(DeleteRow(t, k)) = MarkedKeys(t) \ {k}
         /\ MarkedKeys(DeleteMarked(t)) = {}
  BY DEF Upsert, Unmark, DeleteRow, DeleteMarked, MarkedKeys, SetMark
-----------------------------------------------------------------------------
(* Typing. *)

(* A scan that works on an object has one in its page, and a folder left to *)
(* write while it writes parents.                                           *)
ObjectInHand(s) ==
  /\ scan[s].pc \in {"parent", "upsert", "unmark"} => DOMAIN scan[s].page # {}
  /\ scan[s].pc = "parent" => scan[s].todo # <<>>

ScansTyped == scan \in [Scans -> ScanState] /\ \A s \in Scans : ObjectInHand(s)

TypeInv == TypeOK /\ ScansTyped

LEMMA PageDomains ==
  /\ NoPage \in Pages /\ DOMAIN NoPage = {}
  /\ \A P \in Pages : DOMAIN P \in SUBSET Objects /\ P \in [DOMAIN P -> Versions]
  /\ \A S \in SUBSET Objects : [S -> Versions] \subseteq Pages
  BY DEF Pages, NoPage

(* What Advance makes of a scan's state.                                    *)
LEMMA AdvanceState ==
  ASSUME NEW st \in ScanState, NEW P \in Pages, NEW t \in Nat, NEW m \in BOOLEAN
  PROVE  /\ Advance(st, P, t, m) \in ScanState
         /\ Advance(st, P, t, m).failed = st.failed
         /\ Advance(st, P, t, m).page = P
         /\ Advance(st, P, t, m).token = t
         /\ Advance(st, P, t, m).more = m
         /\ DOMAIN P # {} =>
              /\ Advance(st, P, t, m).todo = Ancestors[Least(DOMAIN P)]
              /\ Advance(st, P, t, m).pc =
                   IF Ancestors[Least(DOMAIN P)] # <<>> THEN "parent" ELSE "upsert"
         /\ DOMAIN P = {} => Advance(st, P, t, m).pc = IF m THEN "list" ELSE "count"
<1> DEFINE todo == IF DOMAIN P = {} THEN <<>> ELSE Ancestors[Least(DOMAIN P)]
<1>1. todo \in Seq(Folders)
  BY PageDomains, LeastIn, ConstantsAssumption
<1> QED  BY <1>1 DEF Advance, ScanState, ScanPCs, todo

(* The same when only the page changes.                                     *)
LEMMA AdvanceInPage ==
  ASSUME NEW st \in ScanState, NEW P \in Pages
  PROVE  /\ Advance(st, P, st.token, st.more) \in ScanState
         /\ Advance(st, P, st.token, st.more).failed = st.failed
         /\ Advance(st, P, st.token, st.more).page = P
         /\ Advance(st, P, st.token, st.more).token = st.token
         /\ Advance(st, P, st.token, st.more).more = st.more
         /\ DOMAIN P # {} =>
              /\ Advance(st, P, st.token, st.more).todo = Ancestors[Least(DOMAIN P)]
              /\ Advance(st, P, st.token, st.more).pc =
                   IF Ancestors[Least(DOMAIN P)] # <<>> THEN "parent" ELSE "upsert"
         /\ DOMAIN P = {} =>
              Advance(st, P, st.token, st.more).pc = IF st.more THEN "list" ELSE "count"
<1>1. st.token \in Nat /\ st.more \in BOOLEAN
  BY DEF ScanState
<1> QED  BY <1>1, AdvanceState

LEMMA CurrentInPage ==
  ASSUME TypeInv, NEW s \in Scans, scan[s].pc \in {"parent", "upsert", "unmark"}
  PROVE  /\ Current(s) \in DOMAIN scan[s].page
         /\ Current(s) \in Objects
         /\ scan[s].page[Current(s)] \in Versions
         /\ \A k \in DOMAIN scan[s].page : Current(s) <= k
<1>1. scan[s].page \in Pages /\ DOMAIN scan[s].page # {}
  BY DEF TypeInv, TypeOK, ScanState, ScansTyped, ObjectInHand
<1>2. DOMAIN scan[s].page \subseteq Nat
  BY <1>1, PageDomains, ConstantsAssumption
<1> QED  BY <1>1, <1>2, LeastIn, PageDomains DEF Current

(* The scan's state after an object is done with.                           *)
LEMMA NextObjectState ==
  ASSUME TypeInv, NEW s \in Scans, scan[s].pc \in {"upsert", "unmark"}, NextObject(s)
  PROVE  LET old == scan[s]
             new == scan'[s]
         IN  /\ scan' \in [Scans -> ScanState]
             /\ \A p \in Scans \ {s} : scan'[p] = scan[p]
             /\ new.failed = old.failed /\ new.token = old.token /\ new.more = old.more
             /\ DOMAIN new.page = DOMAIN old.page \ {Current(s)}
             /\ \A k \in DOMAIN new.page : new.page[k] = old.page[k]
             /\ DOMAIN new.page # {} =>
                  /\ new.todo = Ancestors[Least(DOMAIN new.page)]
                  /\ new.pc = IF new.todo # <<>> THEN "parent" ELSE "upsert"
             /\ DOMAIN new.page = {} => new.pc = IF new.more THEN "list" ELSE "count"
<1> DEFINE old  == scan[s]
           rest == DOMAIN old.page \ {Current(s)}
           P    == [k \in rest |-> old.page[k]]
<1>1. old \in ScanState /\ old.page \in Pages /\ old.token \in Nat /\ old.more \in BOOLEAN
  BY DEF TypeInv, TypeOK, ScanState
<1>2. P \in [rest -> Versions] /\ rest \in SUBSET Objects
  BY <1>1, PageDomains
<1>3. P \in Pages /\ DOMAIN P = rest
  BY <1>2, PageDomains
<1>4. scan' = [scan EXCEPT ![s] = Advance(old, P, old.token, old.more)]
  BY DEF NextObject
<1>5. scan \in [Scans -> ScanState]
  BY DEF TypeInv, TypeOK
<1> HIDE DEF P, rest, old
<1>6. scan'[s] = Advance(old, P, old.token, old.more)
  BY <1>4, <1>5
<1> DEFINE a == Advance(old, P, old.token, old.more)
<1>7. /\ a \in ScanState /\ a.failed = old.failed /\ a.page = P
      /\ a.token = old.token /\ a.more = old.more
      /\ DOMAIN P # {} =>
           /\ a.todo = Ancestors[Least(DOMAIN P)]
           /\ a.pc = IF Ancestors[Least(DOMAIN P)] # <<>> THEN "parent" ELSE "upsert"
      /\ DOMAIN P = {} => a.pc = IF old.more THEN "list" ELSE "count"
  BY <1>1, <1>3, AdvanceInPage
<1> HIDE DEF a
<1>8. scan' \in [Scans -> ScanState] /\ \A p \in Scans \ {s} : scan'[p] = scan[p]
  BY <1>4, <1>5, <1>7 DEF a
<1>9. /\ scan'[s].failed = old.failed /\ scan'[s].page = P
      /\ scan'[s].token = old.token /\ scan'[s].more = old.more
      /\ DOMAIN P # {} =>
           /\ scan'[s].todo = Ancestors[Least(DOMAIN P)]
           /\ scan'[s].pc = IF scan'[s].todo # <<>> THEN "parent" ELSE "upsert"
      /\ DOMAIN P = {} => scan'[s].pc = IF old.more THEN "list" ELSE "count"
  BY <1>6, <1>7 DEF a
<1> QED  BY <1>3, <1>8, <1>9 DEF P, rest, old

LEMMA TypeInit == Init => TypeInv
  BY PageDomains DEF Init, TypeInv, ScansTyped, TypeOK, IsTable, NoRows, FreshScan, ScanState,
     ScanPCs, ObjectInHand, IdleRequest, RequestState, ScanHistory

(* The listing hands out some page.                                         *)
LEMMA ListedPage ==
  ASSUME TypeInv, NEW s \in Scans, ListPage(s)
  PROVE  \E P \in Pages, t \in Nat, m \in BOOLEAN :
           /\ scan' = [scan EXCEPT ![s] = Advance(@, P, t, m)]
           /\ \A k \in Scope : s3[k] # Absent /\ k > scan[s].token =>
                k \in DOMAIN P \/ (m /\ k > t)
           /\ \A k \in DOMAIN P : k \in Scope /\ s3[k] # Absent /\ P[k] = s3[k] /\ k > scan[s].token
<1> DEFINE rest == {k \in Scope : s3[k] # Absent /\ k > scan[s].token}
<1>1. scan[s].token \in Nat /\ s3 \in [Objects -> Versions \cup {Absent}]
      /\ Scope \subseteq Objects /\ Objects \subseteq Nat
  BY ConstantsAssumption DEF TypeInv, TypeOK, ScanState
<1>2. CASE rest = {} /\ scan' = [scan EXCEPT ![s] = Advance(@, NoPage, @.token, FALSE)]
  BY <1>1, <1>2, PageDomains
<1>3. ASSUME NEW last \in rest,
             scan' = [scan EXCEPT ![s] =
                        Advance(@, [k \in {j \in rest : j <= last} |-> s3[k]], last,
                                {j \in rest : j <= last} # rest)]
      PROVE  \E P \in Pages, t \in Nat, m \in BOOLEAN :
               /\ scan' = [scan EXCEPT ![s] = Advance(@, P, t, m)]
               /\ \A k \in Scope : s3[k] # Absent /\ k > scan[s].token =>
                    k \in DOMAIN P \/ (m /\ k > t)
               /\ \A k \in DOMAIN P : k \in Scope /\ s3[k] # Absent /\ P[k] = s3[k] /\ k > scan[s].token
  <2> DEFINE names == {j \in rest : j <= last}
             P     == [k \in names |-> s3[k]]
  <2>1. P \in Pages
    <3>1. names \in SUBSET Objects /\ P \in [names -> Versions]
      BY <1>1
    <3> QED  BY <3>1, PageDomains
  <2>2. last \in Nat /\ (names # rest) \in BOOLEAN
    BY <1>1
  <2>3. \A k \in rest : k \in names \/ (names # rest /\ k > last)
    BY <1>1
  <2> QED  BY <1>3, <2>1, <2>2, <2>3
<1> QED  BY <1>2, <1>3 DEF ListPage

LEMMA GotoTyped ==
  ASSUME TypeInv, NEW s \in Scans, NEW label \in ScanPCs, Goto(s, label),
         label \notin {"parent", "upsert"}, label = "unmark" => scan[s].pc = "upsert"
  PROVE  ScansTyped'
<1>1. /\ scan' \in [Scans -> ScanState]
      /\ scan'[s].pc = label /\ scan'[s].page = scan[s].page
      /\ \A p \in Scans \ {s} : scan'[p] = scan[p]
  BY DEF TypeInv, TypeOK, ScanState, Goto
<1> QED  BY <1>1 DEF TypeInv, ObjectInHand, ScansTyped

LEMMA StruckTyped ==
  ASSUME TypeInv, NEW s \in Scans, NEW kind \in FaultKinds, Struck(s, kind)
  PROVE  hist' \in [Scans -> ScanHistory]
  BY DEF TypeInv, TypeOK, ScanHistory, Struck

LEMMA NextObjectTyped ==
  ASSUME TypeInv, NEW s \in Scans, scan[s].pc \in {"upsert", "unmark"}, NextObject(s)
  PROVE  ScansTyped'
  BY NextObjectState DEF TypeInv, ObjectInHand, ScansTyped

(* A change of the bucket, by a request or by another client.               *)
LEMMA BucketTyped ==
  ASSUME hist \in [Scans -> ScanHistory],
         NEW bucket \in [Objects -> Versions \cup {Absent}], NEW changed,
         S3Changes(bucket, changed)
  PROVE  s3' \in [Objects -> Versions \cup {Absent}] /\ hist' \in [Scans -> ScanHistory]
<1>1. ASSUME NEW s \in Scans
      PROVE  [hist[s] EXCEPT !.stable = @ \cap Present(bucket), !.calm = @ \ changed]
               \in ScanHistory
  <2>1. hist[s] \in ScanHistory
    OBVIOUS
  <2> QED  BY <2>1 DEF ScanHistory
<1> QED  BY <1>1 DEF S3Changes

(* A request that is through with one of its keys.                          *)
LEMMA DroppedKeyTyped ==
  ASSUME req \in [Requests -> RequestState], NEW q \in Requests,
         NEW k \in req[q].keys, req' = [req EXCEPT ![q] = Without(@, k)]
  PROVE  req' \in [Requests -> RequestState]
<1>1. IdleRequest \in RequestState /\ req[q] \in RequestState
  BY DEF IdleRequest, RequestState
<1>2. Without(req[q], k) \in RequestState
  BY <1>1 DEF RequestState, Without
<1> QED  BY <1>1, <1>2

LEMMA TypeStep == TypeInv /\ [Next]_vars => TypeInv'
<1> SUFFICES ASSUME TypeInv, [Next]_vars PROVE TypeInv'
  OBVIOUS
<1>0. /\ s3 \in [Objects -> Versions \cup {Absent}]
      /\ IsTable(index, Keys, Versions)
      /\ jobs \in [Scans -> {"none", "running", "completed", "failed"}]
      /\ scan \in [Scans -> ScanState]
      /\ req \in [Requests -> RequestState]
      /\ hist \in [Scans -> ScanHistory]
      /\ ScansTyped
  BY DEF TypeInv, TypeOK, ScansTyped
<1>q. ASSUME /\ s3' \in [Objects -> Versions \cup {Absent}]
             /\ IsTable(index', Keys, Versions)
             /\ jobs' \in [Scans -> {"none", "running", "completed", "failed"}]
             /\ req' \in [Requests -> RequestState]
             /\ hist' \in [Scans -> ScanHistory]
             /\ ScansTyped'
      PROVE  TypeInv'
  BY <1>q DEF TypeInv, TypeOK, ScansTyped
<1>1. ASSUME NEW s \in Scans, Begin(s) PROVE TypeInv'
  <2>1. ScansTyped'  BY <1>1, GotoTyped DEF Begin, ScanPCs
  <2> QED  BY <1>0, <1>1, <1>q, <2>1 DEF Begin
<1>2. ASSUME NEW s \in Scans, BeginFails(s) PROVE TypeInv'
  <2>1. ScansTyped'  BY <1>2, GotoTyped DEF BeginFails, ScanPCs
  <2>2. hist' \in [Scans -> ScanHistory]  BY <1>2, StruckTyped DEF BeginFails, FaultKinds
  <2> QED  BY <1>0, <1>2, <1>q, <2>1, <2>2 DEF BeginFails
<1>3. ASSUME NEW s \in Scans, MarkObjects(s) PROVE TypeInv'
  <2>1. ScansTyped'  BY <1>3, GotoTyped DEF MarkObjects, ScanPCs
  <2>2. hist' \in [Scans -> ScanHistory]
    <3>1. /\ Present(s3) \in SUBSET Objects
          /\ {k \in Objects : ~ InFlight(k)} \in SUBSET Objects
          /\ ({p \in Scans \ {s} : scan[p].pc \in Working} = {}) \in BOOLEAN
      BY DEF Present
    <3>2. \A p \in Scans : hist[p] \in ScanHistory
      BY <1>0
    <3>3. \A p \in Scans : hist'[p] \in ScanHistory
      <4>1. ASSUME NEW p \in Scans \ {s} PROVE hist'[p] \in ScanHistory
        <5>1. hist'[p] = [hist[p] EXCEPT !.alone = FALSE]
          BY <1>3, <4>1 DEF MarkObjects
        <5> QED  BY <3>2, <4>1, <5>1 DEF ScanHistory
      <4>2. hist'[s] \in ScanHistory
        <5>1. \E b \in BOOLEAN, S, C \in SUBSET Objects :
                hist'[s] = [hist[s] EXCEPT !.alone = b, !.stable = S, !.calm = C]
          BY <1>3, <3>1 DEF MarkObjects
        <5> QED  BY <3>2, <5>1 DEF ScanHistory
      <4> QED  BY <4>1, <4>2
    <3> QED  BY <1>3, <3>3 DEF MarkObjects
  <2>3. IsTable(index', Keys, Versions)  BY <1>0, <1>3, TableTypes DEF MarkObjects
  <2> QED  BY <1>0, <1>3, <1>q, <2>1, <2>2, <2>3 DEF MarkObjects
<1>4. ASSUME NEW s \in Scans, MarkObjectsFails(s) PROVE TypeInv'
  <2>1. ScansTyped'  BY <1>4, GotoTyped DEF MarkObjectsFails, ScanPCs
  <2>2. hist' \in [Scans -> ScanHistory]  BY <1>4, StruckTyped DEF MarkObjectsFails, FaultKinds
  <2> QED  BY <1>0, <1>4, <1>q, <2>1, <2>2 DEF MarkObjectsFails
<1>5. ASSUME NEW s \in Scans, ListPage(s) PROVE TypeInv'
  <2>1. PICK P \in Pages, t \in Nat, m \in BOOLEAN :
          scan' = [scan EXCEPT ![s] = Advance(@, P, t, m)]
    BY <1>5, ListedPage
  <2>2. scan[s] \in ScanState /\ Advance(scan[s], P, t, m) \in ScanState
    BY <1>0, AdvanceState
  <2>3. scan' \in [Scans -> ScanState] /\ scan'[s] = Advance(scan[s], P, t, m)
        /\ \A p \in Scans \ {s} : scan'[p] = scan[p]
    BY <1>0, <2>1, <2>2
  <2>4. ScansTyped'
    <3>1. ObjectInHand(s)'
      <4>1. /\ Advance(scan[s], P, t, m).page = P
            /\ DOMAIN P # {} => Advance(scan[s], P, t, m).todo = Ancestors[Least(DOMAIN P)]
            /\ DOMAIN P # {} => Advance(scan[s], P, t, m).pc =
                 IF Ancestors[Least(DOMAIN P)] # <<>> THEN "parent" ELSE "upsert"
            /\ DOMAIN P = {} => Advance(scan[s], P, t, m).pc = IF m THEN "list" ELSE "count"
        <5>1. scan[s] \in ScanState
          BY <2>2
        <5> QED  BY <5>1, AdvanceState
      <4> QED  BY <2>3, <4>1 DEF ObjectInHand
    <3>2. \A p \in Scans \ {s} : ObjectInHand(p)'
      BY <1>0, <2>3 DEF ScansTyped, ObjectInHand
    <3> QED  BY <2>3, <3>1, <3>2 DEF ScansTyped
  <2> QED  BY <1>0, <1>5, <1>q, <2>4 DEF ListPage
<1>6. ASSUME NEW s \in Scans, ListPageFails(s) PROVE TypeInv'
  <2>1. ScansTyped'
    <3>1. scan' = [scan EXCEPT ![s] = [scan[s] EXCEPT !.pc = "count", !.failed = TRUE]]
      BY <1>0, <1>6 DEF ListPageFails
    <3>2. [scan[s] EXCEPT !.pc = "count", !.failed = TRUE] \in ScanState
      BY <1>0 DEF ScanState, ScanPCs
    <3>3. /\ scan' \in [Scans -> ScanState] /\ scan'[s].pc = "count"
          /\ \A p \in Scans \ {s} : scan'[p] = scan[p]
      BY <1>0, <3>1, <3>2 DEF ScanState
    <3> QED  BY <1>0, <3>3 DEF ScansTyped, ObjectInHand
  <2>2. hist' \in [Scans -> ScanHistory]  BY <1>6, StruckTyped DEF ListPageFails, FaultKinds
  <2> QED  BY <1>0, <1>6, <1>q, <2>1, <2>2 DEF ListPageFails
<1>7. ASSUME NEW s \in Scans, WriteParent(s) PROVE TypeInv'
  <2>1. scan[s].todo \in Seq(Folders) /\ scan[s].todo # <<>>
    BY <1>0, <1>7 DEF WriteParent, ScanState, ScansTyped, ObjectInHand
  <2>2. Head(scan[s].todo) \in Folders /\ Tail(scan[s].todo) \in Seq(Folders)
    BY <2>1
  <2>3. ScansTyped'
    <3>1. /\ scan' \in [Scans -> ScanState]
          /\ scan'[s].todo = Tail(scan[s].todo) /\ scan'[s].page = scan[s].page
          /\ scan'[s].pc = IF Tail(scan[s].todo) = <<>> THEN "upsert" ELSE "parent"
          /\ \A p \in Scans \ {s} : scan'[p] = scan[p]
      <4> DEFINE label == IF Tail(scan[s].todo) = <<>> THEN "upsert" ELSE "parent"
                 new   == [scan[s] EXCEPT !.todo = Tail(scan[s].todo), !.pc = label]
      <4>1. scan' = [scan EXCEPT ![s] = new] /\ scan \in [Scans -> ScanState]
        BY <1>0, <1>7 DEF WriteParent
      <4>2. label \in ScanPCs
        BY DEF ScanPCs
      <4>3. new \in ScanState /\ new.todo = Tail(scan[s].todo)
            /\ new.page = scan[s].page /\ new.pc = label
        <5> HIDE DEF label
        <5>1. scan[s] \in ScanState
          BY <1>0
        <5>2. new \in ScanState
          BY <2>2, <4>2, <5>1 DEF ScanState
        <5>3. new.todo = Tail(scan[s].todo) /\ new.page = scan[s].page /\ new.pc = label
          BY <5>1 DEF ScanState
        <5> QED  BY <5>2, <5>3
      <4> HIDE DEF new
      <4> QED  BY <4>1, <4>3
    <3>2. ObjectInHand(s) /\ scan[s].pc = "parent"
      BY <1>0, <1>7 DEF WriteParent, ScansTyped
    <3>3. ObjectInHand(s)'
      BY <3>1, <3>2 DEF ObjectInHand
    <3>4. \A p \in Scans \ {s} : ObjectInHand(p)'
      BY <1>0, <3>1 DEF ScansTyped, ObjectInHand
    <3> QED  BY <3>1, <3>3, <3>4 DEF ScansTyped
  <2>4. IsTable(index', Keys, Versions)
    BY <1>0, <1>7, <2>2, TableTypes DEF WriteParent, Keys
  <2> QED  BY <1>0, <1>7, <1>q, <2>3, <2>4 DEF WriteParent
<1>8. ASSUME NEW s \in Scans, WriteParentFails(s) PROVE TypeInv'
  <2>1. ScansTyped'
    <3>1. scan' = [scan EXCEPT ![s] = [scan[s] EXCEPT !.todo = <<>>, !.pc = "upsert"]]
      BY <1>0, <1>8 DEF WriteParentFails
    <3>2. [scan[s] EXCEPT !.todo = <<>>, !.pc = "upsert"] \in ScanState
      <4>1. <<>> \in Seq(Folders)
        OBVIOUS
      <4> QED  BY <1>0, <4>1 DEF ScanState, ScanPCs
    <3>3. /\ scan' \in [Scans -> ScanState]
          /\ scan'[s].pc = "upsert" /\ scan'[s].page = scan[s].page
          /\ \A p \in Scans \ {s} : scan'[p] = scan[p]
      BY <1>0, <3>1, <3>2 DEF ScanState
    <3> QED  BY <1>0, <1>8, <3>3 DEF WriteParentFails, ScansTyped, ObjectInHand
  <2>2. hist' \in [Scans -> ScanHistory]  BY <1>8, StruckTyped DEF WriteParentFails, FaultKinds
  <2> QED  BY <1>0, <1>8, <1>q, <2>1, <2>2 DEF WriteParentFails
<1>9. ASSUME NEW s \in Scans, WriteObject(s) PROVE TypeInv'
  <2>1. ScansTyped'
    BY <1>9, GotoTyped, NextObjectTyped DEF WriteObject, ScanPCs
  <2>2. Current(s) \in Keys /\ scan[s].page[Current(s)] \in Versions
    BY <1>9, CurrentInPage DEF WriteObject, Keys
  <2>3. IsTable(index', Keys, Versions)
    BY <1>0, <1>9, <2>2, TableTypes DEF WriteObject
  <2> QED  BY <1>0, <1>9, <1>q, <2>1, <2>3 DEF WriteObject
<1>10. ASSUME NEW s \in Scans, WriteObjectFails(s) PROVE TypeInv'
  <2>1. ScansTyped'  BY <1>10, NextObjectTyped DEF WriteObjectFails
  <2>2. hist' \in [Scans -> ScanHistory]  BY <1>10, StruckTyped DEF WriteObjectFails, FaultKinds
  <2> QED  BY <1>0, <1>10, <1>q, <2>1, <2>2 DEF WriteObjectFails
<1>11. ASSUME NEW s \in Scans, UnmarkObject(s) PROVE TypeInv'
  <2>1. ScansTyped'  BY <1>11, NextObjectTyped DEF UnmarkObject
  <2>2. IsTable(index', Keys, Versions)  BY <1>0, <1>11, TableTypes DEF UnmarkObject
  <2> QED  BY <1>0, <1>11, <1>q, <2>1, <2>2 DEF UnmarkObject
<1>12. ASSUME NEW s \in Scans, UnmarkObjectFails(s) PROVE TypeInv'
  <2>1. ScansTyped'  BY <1>12, NextObjectTyped DEF UnmarkObjectFails
  <2> QED  BY <1>0, <1>12, <1>q, <2>1 DEF UnmarkObjectFails
<1>13. ASSUME NEW s \in Scans, CountMarked(s) PROVE TypeInv'
  <2>1. ScansTyped'  BY <1>13, GotoTyped DEF CountMarked, ScanPCs
  <2> QED  BY <1>0, <1>13, <1>q, <2>1 DEF CountMarked
<1>14. ASSUME NEW s \in Scans, DeleteMarkedRows(s) PROVE TypeInv'
  <2>1. ScansTyped'  BY <1>14, GotoTyped DEF DeleteMarkedRows, ScanPCs
  <2>2. IsTable(index', Keys, Versions)  BY <1>0, <1>14, TableTypes DEF DeleteMarkedRows
  <2> QED  BY <1>0, <1>14, <1>q, <2>1, <2>2 DEF DeleteMarkedRows
<1>15. ASSUME NEW s \in Scans, CleanupFails(s) PROVE TypeInv'
  <2>1. ScansTyped'  BY <1>15, GotoTyped DEF CleanupFails, ScanPCs
  <2>2. hist' \in [Scans -> ScanHistory]  BY <1>15, StruckTyped DEF CleanupFails, FaultKinds
  <2> QED  BY <1>0, <1>15, <1>q, <2>1, <2>2 DEF CleanupFails
<1>16. ASSUME NEW s \in Scans, Finalize(s) PROVE TypeInv'
  <2>1. ScansTyped'  BY <1>16, GotoTyped DEF Finalize, ScanPCs
  <2> QED  BY <1>0, <1>16, <1>q, <2>1 DEF Finalize
<1>17. ASSUME NEW s \in Scans, FinalizeFails(s) PROVE TypeInv'
  <2>1. ScansTyped'  BY <1>17, GotoTyped DEF FinalizeFails, ScanPCs
  <2>2. hist' \in [Scans -> ScanHistory]  BY <1>17, StruckTyped DEF FinalizeFails, FaultKinds
  <2> QED  BY <1>0, <1>17, <1>q, <2>1, <2>2 DEF FinalizeFails
<1>s. ASSUME NEW s \in Scans, ScanStep(s) PROVE TypeInv'
  BY <1>s, <1>1, <1>2, <1>3, <1>4, <1>5, <1>6, <1>7, <1>8, <1>9, <1>10, <1>11, <1>12,
     <1>13, <1>14, <1>15, <1>16, <1>17 DEF ScanStep
<1>18. ASSUME NEW q \in Requests, RequestStep(q) PROVE TypeInv'
  <2>1. ASSUME NEW k \in Scope \ Folders, NEW v \in Versions, Upload(q, k, v) PROVE TypeInv'
    <3>1. k \in Objects  BY ConstantsAssumption
    <3>2. s3' \in [Objects -> Versions \cup {Absent}] /\ hist' \in [Scans -> ScanHistory]
      <4>1. [s3 EXCEPT ![k] = v] \in [Objects -> Versions \cup {Absent}]
        BY <1>0, <3>1
      <4> QED  BY <1>0, <2>1, <4>1, BucketTyped DEF Upload
    <3>3. req' \in [Requests -> RequestState]
      BY <1>0, <2>1, <3>1 DEF Upload, RequestState
    <3> QED  BY <1>0, <1>q, <2>1, <3>2, <3>3 DEF Upload, ScansTyped, ObjectInHand
  <2>2. ASSUME NEW K \in SUBSET Scope \ {{}}, Delete(q, K) PROVE TypeInv'
    <3>1. K \subseteq Objects  BY ConstantsAssumption
    <3>2. s3' \in [Objects -> Versions \cup {Absent}] /\ hist' \in [Scans -> ScanHistory]
      <4>1. [k \in Objects |-> IF k \in K THEN Absent ELSE s3[k]]
              \in [Objects -> Versions \cup {Absent}]
        BY <1>0
      <4> QED  BY <1>0, <2>2, <4>1, BucketTyped DEF Delete
    <3>3. req' \in [Requests -> RequestState]
      BY <1>0, <2>2, <3>1 DEF Delete, RequestState
    <3> QED  BY <1>0, <1>q, <2>2, <3>2, <3>3 DEF Delete, ScansTyped, ObjectInHand
  <2>3. ASSUME NEW K \in SUBSET Scope \ {{}}, DeletePartly(q, K) PROVE TypeInv'
    <3>1. PICK D \in SUBSET K :
            S3Changes([k \in Objects |-> IF k \in D THEN Absent ELSE s3[k]], D)
      BY <2>3 DEF DeletePartly
    <3>2. s3' \in [Objects -> Versions \cup {Absent}] /\ hist' \in [Scans -> ScanHistory]
      <4>1. [k \in Objects |-> IF k \in D THEN Absent ELSE s3[k]]
              \in [Objects -> Versions \cup {Absent}]
        BY <1>0
      <4> QED  BY <1>0, <3>1, <4>1, BucketTyped
    <3> QED  BY <1>0, <1>q, <2>3, <3>2 DEF DeletePartly, ScansTyped, ObjectInHand
  <2>4. ASSUME SyncUpload(q) PROVE TypeInv'
    <3>1. req[q].keys \subseteq Keys /\ req[q].ver \in Versions \cup {NoVersion}
      BY <1>0 DEF RequestState, Keys
    <3>4. PICK k \in req[q].keys : index' = Upsert(index, k, req[q].ver, k \in Folders)
      BY <2>4 DEF SyncUpload
    <3>5. (k \in Folders) \in BOOLEAN /\ k \in Keys
      BY <3>1
    <3>2. IsTable(index', Keys, Versions)
      BY <1>0, <3>1, <3>4, <3>5, TableTypes
    <3>3. req' \in [Requests -> RequestState]
      BY <1>0, <2>4 DEF SyncUpload, RequestState, IdleRequest
    <3> QED  BY <1>0, <1>q, <2>4, <3>2, <3>3 DEF SyncUpload, ScansTyped, ObjectInHand
  <2>5. ASSUME SyncDelete(q) PROVE TypeInv'
    <3>1. IsTable(index', Keys, Versions)
      BY <1>0, <2>5, TableTypes DEF SyncDelete
    <3>2. req' \in [Requests -> RequestState]
      BY <1>0, <2>5, DroppedKeyTyped DEF SyncDelete
    <3> QED  BY <1>0, <1>q, <2>5, <3>1, <3>2 DEF SyncDelete, ScansTyped, ObjectInHand
  <2>6. ASSUME SyncFails(q) PROVE TypeInv'
    <3>1. req' \in [Requests -> RequestState]
      BY <1>0, <2>6, DroppedKeyTyped DEF SyncFails
    <3> QED  BY <1>0, <1>q, <2>6, <3>1 DEF SyncFails, ScansTyped, ObjectInHand
  <2> QED  BY <1>18, <2>1, <2>2, <2>3, <2>4, <2>5, <2>6 DEF RequestStep
<1>19. CASE ExternalChange
  <2>1. ExternalKeys \subseteq Objects  BY ConstantsAssumption
  <2>2. s3' \in [Objects -> Versions \cup {Absent}] /\ hist' \in [Scans -> ScanHistory]
    <3>1. PICK k \in ExternalKeys, v \in Versions \cup {Absent} :
            S3Changes([s3 EXCEPT ![k] = v], {k})
      BY <1>19 DEF ExternalChange
    <3>2. [s3 EXCEPT ![k] = v] \in [Objects -> Versions \cup {Absent}]
      BY <1>0, <2>1
    <3> QED  BY <1>0, <3>1, <3>2, BucketTyped
  <2> QED  BY <1>0, <1>q, <1>19, <2>2 DEF ExternalChange, ScansTyped, ObjectInHand
<1>20. CASE Kill
  <2>1. ScansTyped'
    <3>1. [FreshScan EXCEPT !.pc = "killed"] \in ScanState
      <4>1. FreshScan \in ScanState
        BY PageDomains DEF FreshScan, ScanState, ScanPCs
      <4> QED  BY <4>1 DEF ScanState, ScanPCs
    <3>2. \A p \in Scans : \/ scan'[p] = scan[p]
                            \/ scan'[p] = [FreshScan EXCEPT !.pc = "killed"]
      BY <1>20 DEF Kill
    <3>3. scan' \in [Scans -> ScanState]
      BY <1>0, <1>20, <3>1, <3>2 DEF Kill
    <3>4. [FreshScan EXCEPT !.pc = "killed"].pc = "killed"
      BY DEF FreshScan
    <3> QED  BY <1>0, <3>2, <3>3, <3>4 DEF ScansTyped, ObjectInHand
  <2>2. req' \in [Requests -> RequestState]
    BY <1>20 DEF Kill, IdleRequest, RequestState
  <2> QED  BY <1>0, <1>q, <1>20, <2>1, <2>2 DEF Kill
<1>21. CASE UNCHANGED vars
  BY <1>0, <1>q, <1>21 DEF vars, ScansTyped, ObjectInHand
<1> QED  BY <1>s, <1>18, <1>19, <1>20, <1>21 DEF Next

(* TypeOK holds of every reachable state.                                   *)
THEOREM TypeCorrect == Spec => []TypeOK
<1>1. TypeInv => TypeOK
  BY DEF TypeInv
<1> QED  BY <1>1, TypeInit, TypeStep, PTL DEF Spec
-----------------------------------------------------------------------------
(* The sweep. *)

(* Neither the row of object k nor that of a folder above it is marked.     *)
Covered(k) == ({k} \cup AncestorSet(k)) \cap MarkedKeys(index) = {}

TodoSet(s) == {scan[s].todo[i] : i \in DOMAIN scan[s].todo}

(* Object k is still to come in the listing of scan s.                      *)
Awaited(s, k) == \/ k \in DOMAIN scan[s].page
                 \/ scan[s].more /\ k > scan[s].token

Trusted(s) == hist[s].alone /\ hist[s].struck \cap {"list", "row"} = {}

(* How far a scan has come with the object in hand: the folders that are    *)
(* no longer to be written are not marked, nor is the object once written.  *)
CurrentCovered(s) ==
  /\ scan[s].pc \in {"parent", "upsert", "unmark"} =>
       (AncestorSet(Current(s)) \ (IF scan[s].pc = "parent" THEN TodoSet(s) ELSE {}))
         \cap MarkedKeys(index) = {}
  /\ scan[s].pc = "unmark" => Current(s) \notin MarkedKeys(index)

(* Every object that was there all along is still to come or covered; none  *)
(* is still to come when the sweep begins.                                  *)
KeptCovered(s) ==
  \A k \in hist[s].stable \cap Scope :
    /\ scan[s].pc \in Working /\ ~ Awaited(s, k) => Covered(k)
    /\ scan[s].pc \in {"count", "delete"} => Covered(k)

(* The states of a scan between objects.                                    *)
ListingState(s) ==
  /\ scan[s].pc \in {"idle", "mark"} =>
       scan[s].token = 0 /\ scan[s].more = TRUE /\ DOMAIN scan[s].page = {}
  /\ scan[s].pc = "list" => DOMAIN scan[s].page = {}
  /\ scan[s].pc \in Working => hist[s].stable \subseteq Present(s3)

SweepOk(s) ==
  /\ ListingState(s)
  /\ scan[s].pc \in Working /\ Trusted(s) => CurrentCovered(s) /\ KeptCovered(s)

SweepInv == \A s \in Scans : SweepOk(s)

(* Marks come from a scan at work, or were left behind by a scan that lost  *)
(* its cleanup or its process.                                              *)
Keeper(s) == scan[s].pc \in Working \cup {"killed"} \/ "clean" \in hist[s].struck

MarksInv ==
  MarkedKeys(index) # {} => DeletionSync /\ \E s \in Scans : Keeper(s)

LEMMA GotoState ==
  ASSUME TypeInv, NEW s \in Scans, NEW label, Goto(s, label)
  PROVE  /\ scan'[s].pc = label /\ scan'[s].failed = scan[s].failed
         /\ scan'[s].page = scan[s].page /\ scan'[s].token = scan[s].token
         /\ scan'[s].more = scan[s].more /\ scan'[s].todo = scan[s].todo
         /\ \A p \in Scans \ {s} : scan'[p] = scan[p]
  BY DEF TypeInv, TypeOK, ScanState, Goto

(* What is left to write when a folder has been written.                    *)
LEMMA TodoTail ==
  ASSUME TypeInv, NEW s \in Scans, scan[s].pc = "parent", scan'[s].todo = Tail(scan[s].todo)
  PROVE  LET f == Head(scan[s].todo)
         IN  /\ f \in Folders \cap TodoSet(s)
             /\ TodoSet(s)' \subseteq TodoSet(s)
             /\ TodoSet(s) \subseteq {f} \cup TodoSet(s)'
             /\ Tail(scan[s].todo) = <<>> => TodoSet(s) = {f}
<1> DEFINE todo == scan[s].todo
<1>1. todo \in Seq(Folders) /\ todo # <<>>
  BY DEF TypeInv, TypeOK, ScanState, ScansTyped, ObjectInHand
<1>2. ASSUME NEW i \in DOMAIN todo
      PROVE  todo[i] = Head(todo) \/ (i - 1 \in DOMAIN Tail(todo) /\ todo[i] = Tail(todo)[i - 1])
  BY <1>1
<1>3. ASSUME NEW i \in DOMAIN Tail(todo) PROVE i + 1 \in DOMAIN todo /\ Tail(todo)[i] = todo[i + 1]
  BY <1>1
<1>4. Head(todo) \in Folders /\ 1 \in DOMAIN todo /\ Head(todo) = todo[1]
  BY <1>1
<1>5. Tail(todo) = <<>> => DOMAIN todo = {1}
  <2>1. Tail(todo) = <<>> => Len(todo) = 1
    <3>1. Len(Tail(todo)) = Len(todo) - 1 /\ Len(todo) \in Nat
      BY <1>1
    <3>2. Len(<<>>) = 0
      OBVIOUS
    <3>3. Tail(todo) = <<>> => Len(Tail(todo)) = 0
      BY <3>2, Zenon
    <3> HIDE DEF todo
    <3> QED  BY <3>1, <3>3
  <2>2. DOMAIN todo = 1..Len(todo)
    BY <1>1
  <2> HIDE DEF todo
  <2> QED  BY <2>1, <2>2
<1>6. \A i \in DOMAIN todo : todo[i] = Head(todo) \/ \E j \in DOMAIN Tail(todo) : todo[i] = Tail(todo)[j]
  BY <1>2
<1>7. \A i \in DOMAIN Tail(todo) : \E j \in DOMAIN todo : Tail(todo)[i] = todo[j]
  BY <1>3
<1> HIDE DEF todo
<1>8. scan'[s].todo = Tail(todo)
  BY DEF todo
<1>9. TodoSet(s) = {todo[i] : i \in DOMAIN todo}
      /\ TodoSet(s)' = {Tail(todo)[i] : i \in DOMAIN Tail(todo)}
  BY <1>8 DEF TodoSet, todo
<1>10. Tail(todo) = <<>> => TodoSet(s) = {Head(todo)}
  BY <1>4, <1>5, <1>9
<1> QED  BY <1>4, <1>6, <1>7, <1>9, <1>10 DEF todo

(* A scan keeps what it has achieved while others step, as long as they     *)
(* mark nothing.                                                            *)
LEMMA SweepFrame ==
  ASSUME NEW p \in Scans, SweepOk(p), scan'[p] = scan[p],
         MarkedKeys(index') \subseteq MarkedKeys(index),
         hist'[p].alone => hist[p].alone, hist[p].struck \subseteq hist'[p].struck,
         hist'[p].stable \subseteq hist[p].stable,
         scan[p].pc \in Working => hist'[p].stable \subseteq Present(s3')
  PROVE  SweepOk(p)'
<1>1. ListingState(p)'
  BY DEF SweepOk, ListingState
<1>2. ASSUME scan'[p].pc \in Working, Trusted(p)'
      PROVE  CurrentCovered(p)' /\ KeptCovered(p)'
  <2>1. CurrentCovered(p) /\ KeptCovered(p)
    BY <1>2 DEF SweepOk, Trusted
  <2>2. CurrentCovered(p)'
    BY <2>1 DEF CurrentCovered, Current, TodoSet
  <2>3. KeptCovered(p)'
    BY <2>1 DEF KeptCovered, Covered, Awaited
  <2> QED  BY <2>2, <2>3
<1> QED  BY <1>1, <1>2 DEF SweepOk

(* The same when neither S3 nor the history of scan p changes.              *)
LEMMA SweepFrameQuiet ==
  ASSUME NEW p \in Scans, SweepOk(p), scan'[p] = scan[p], s3' = s3, hist'[p] = hist[p],
         MarkedKeys(index') \subseteq MarkedKeys(index)
  PROVE  SweepOk(p)'
  BY SweepFrame DEF SweepOk, ListingState, Present

(* A scan that has just taken up an object has all its folders to write.    *)
LEMMA FreshCurrent ==
  ASSUME NEW s \in Scans,
         DOMAIN scan'[s].page # {} =>
           /\ scan'[s].todo = Ancestors[Least(DOMAIN scan'[s].page)]
           /\ scan'[s].pc = IF Ancestors[Least(DOMAIN scan'[s].page)] # <<>>
                            THEN "parent" ELSE "upsert",
         DOMAIN scan'[s].page = {} => scan'[s].pc \in {"list", "count"}
  PROVE  CurrentCovered(s)'
<1>1. CASE scan'[s].pc = "parent"
  BY <1>1 DEF CurrentCovered, Current, TodoSet, AncestorSet
<1>2. CASE scan'[s].pc = "upsert"
  <2>1. Ancestors[Current(s)'] = <<>>
    BY <1>2 DEF Current
  <2>2. AncestorSet(Current(s)') = {}
    BY <2>1 DEF AncestorSet
  <2> QED  BY <1>2, <2>2 DEF CurrentCovered, AncestorSet
<1> QED  BY <1>1, <1>2 DEF CurrentCovered

(* Nor do the queries of the handlers mark a row.                           *)
LEMMA RequestsMarkNothing ==
  ASSUME NEW q \in Requests, SyncUpload(q) \/ SyncDelete(q) \/ SyncFails(q)
  PROVE  /\ MarkedKeys(index') \subseteq MarkedKeys(index)
         /\ s3' = s3 /\ scan' = scan /\ hist' = hist
<1>1. CASE SyncUpload(q)
  <2>1. PICK k \in req[q].keys : index' = Upsert(index, k, req[q].ver, k \in Folders)
    BY <1>1, Zenon DEF SyncUpload
  <2>2. MarkedKeys(index') = MarkedKeys(index) \ {k}
    BY <2>1, SMT DEF Upsert, MarkedKeys
  <2> QED  BY <1>1, <2>2 DEF SyncUpload
<1>2. CASE SyncDelete(q)
  <2>1. PICK k \in req[q].keys : index' = DeleteRow(index, k)
    BY <1>2, Zenon DEF SyncDelete
  <2>2. MarkedKeys(index') = MarkedKeys(index) \ {k}
    BY <2>1, MarksOnlyFromMarkAll, Zenon
  <2> QED  BY <1>2, <2>2 DEF SyncDelete
<1>3. CASE SyncFails(q)
  BY <1>3 DEF SyncFails
<1> QED  BY <1>1, <1>2, <1>3

LEMMA SweepInit == Init => SweepInv
  BY PageDomains DEF Init, SweepInv, SweepOk, ListingState, FreshScan, Working

LEMMA SweepStep == TypeInv /\ SweepInv /\ [Next]_vars => SweepInv'
<1> SUFFICES ASSUME TypeInv, SweepInv, [Next]_vars PROVE SweepInv'
  OBVIOUS
<1> USE DEF SweepInv
<1>0. /\ scan \in [Scans -> ScanState] /\ hist \in [Scans -> ScanHistory]
      /\ Scope \subseteq Objects /\ Objects \subseteq Nat \ {0}
      /\ \A s \in Scans : ObjectInHand(s)
  BY ConstantsAssumption DEF TypeInv, TypeOK, ScansTyped
<1>g. ASSUME NEW s \in Scans, NEW label, Goto(s, label), label \notin Working \cup {"idle"},
             label = "mark" => scan[s].pc = "idle"
      PROVE  SweepOk(s)'
  <2>1. ListingState(s)'
    BY <1>g, GotoState DEF SweepOk, ListingState, Working
  <2> QED  BY <1>g, <2>1, GotoState DEF SweepOk
<1>k. ASSUME NEW s \in Scans, NEW kind, Struck(s, kind)
      PROVE  /\ hist'[s].alone = hist[s].alone /\ hist'[s].stable = hist[s].stable
             /\ hist'[s].struck = hist[s].struck \cup {kind}
             /\ \A p \in Scans \ {s} : hist'[p] = hist[p]
  BY <1>0, <1>k DEF Struck, ScanHistory
<1>o. ASSUME NEW s \in Scans, SweepOk(s)', s3' = s3,
             MarkedKeys(index') \subseteq MarkedKeys(index),
             \A p \in Scans \ {s} : scan'[p] = scan[p] /\ hist'[p] = hist[p]
      PROVE  SweepInv'
  BY <1>o, SweepFrameQuiet
<1>1. ASSUME NEW s \in Scans, Begin(s) PROVE SweepInv'
  BY <1>1, <1>g, <1>o, GotoState DEF Begin, Working
<1>2. ASSUME NEW s \in Scans, BeginFails(s) PROVE SweepInv'
  BY <1>2, <1>g, <1>o, <1>k, GotoState DEF BeginFails, Working
<1>3. ASSUME NEW s \in Scans, MarkObjects(s) PROVE SweepInv'
  <2>1. ASSUME NEW p \in Scans \ {s} PROVE SweepOk(p)'
    <3>1. /\ scan'[p] = scan[p] /\ s3' = s3 /\ hist'[p].alone = FALSE
          /\ hist'[p].stable = hist[p].stable
      <4>1. hist'[p] = [hist[p] EXCEPT !.alone = FALSE]
        BY <1>3, <2>1 DEF MarkObjects
      <4>2. hist[p] \in ScanHistory
        BY <1>0
      <4>3. hist'[p].alone = FALSE /\ hist'[p].stable = hist[p].stable
        BY <4>1, <4>2 DEF ScanHistory
      <4> QED  BY <1>3, <4>3, GotoState DEF MarkObjects
    <3> QED  BY <3>1 DEF SweepOk, ListingState, Trusted, Present
  <2>2. /\ scan'[s].pc = "list" /\ scan'[s].token = 0 /\ scan'[s].more = TRUE
        /\ DOMAIN scan'[s].page = {}
    BY <1>3, GotoState DEF MarkObjects, SweepOk, ListingState
  <2>3. s3' = s3 /\ hist'[s].stable = Present(s3)
    BY <1>0, <1>3 DEF MarkObjects, ScanHistory
  <2>4. ListingState(s)'
    BY <2>2, <2>3 DEF ListingState, Present
  <2>5. CurrentCovered(s)' /\ KeptCovered(s)'
    <3>1. ASSUME NEW k \in Scope PROVE Awaited(s, k)'
      BY <1>0, <2>2 DEF Awaited
    <3> QED  BY <2>2, <3>1 DEF CurrentCovered, KeptCovered
  <2> QED  BY <2>1, <2>4, <2>5 DEF SweepOk
<1>4. ASSUME NEW s \in Scans, MarkObjectsFails(s) PROVE SweepInv'
  BY <1>4, <1>g, <1>o, <1>k, GotoState DEF MarkObjectsFails, Working
<1>5. ASSUME NEW s \in Scans, ListPage(s) PROVE SweepInv'
  <2>0. scan[s] \in ScanState /\ scan[s].pc = "list" /\ s3' = s3 /\ index' = index /\ hist' = hist
    BY <1>0, <1>5 DEF ListPage
  <2>1. PICK P \in Pages, t \in Nat, m \in BOOLEAN :
          /\ scan' = [scan EXCEPT ![s] = Advance(@, P, t, m)]
          /\ \A k \in Scope : s3[k] # Absent /\ k > scan[s].token =>
               k \in DOMAIN P \/ (m /\ k > t)
    BY <1>5, ListedPage
  <2>2. scan'[s] = Advance(scan[s], P, t, m) /\ \A p \in Scans \ {s} : scan'[p] = scan[p]
    BY <1>0, <2>1
  <2>3. /\ scan'[s].page = P /\ scan'[s].token = t /\ scan'[s].more = m
        /\ DOMAIN P # {} =>
             /\ scan'[s].todo = Ancestors[Least(DOMAIN P)]
             /\ scan'[s].pc = IF Ancestors[Least(DOMAIN P)] # <<>> THEN "parent" ELSE "upsert"
        /\ DOMAIN P = {} => scan'[s].pc = IF m THEN "list" ELSE "count"
    <3>1. /\ Advance(scan[s], P, t, m).page = P
          /\ Advance(scan[s], P, t, m).token = t
          /\ Advance(scan[s], P, t, m).more = m
          /\ DOMAIN P # {} => Advance(scan[s], P, t, m).todo = Ancestors[Least(DOMAIN P)]
          /\ DOMAIN P # {} => Advance(scan[s], P, t, m).pc =
               IF Ancestors[Least(DOMAIN P)] # <<>> THEN "parent" ELSE "upsert"
          /\ DOMAIN P = {} => Advance(scan[s], P, t, m).pc = IF m THEN "list" ELSE "count"
      BY <2>0, AdvanceState
    <3> QED  BY <2>2, <3>1
  <2>4. CurrentCovered(s)'
    BY <2>3, FreshCurrent
  <2>5. ListingState(s)'
    BY <2>0, <2>3 DEF SweepOk, ListingState, Working, Present
  <2>6. ASSUME Trusted(s)' PROVE KeptCovered(s)'
    <3>1. KeptCovered(s) /\ hist[s].stable \subseteq Present(s3) /\ DOMAIN scan[s].page = {}
      BY <2>0, <2>6 DEF SweepOk, ListingState, Trusted, Working
    <3>2. ASSUME NEW k \in hist[s].stable \cap Scope PROVE Covered(k) \/ Awaited(s, k)'
      BY <2>0, <2>1, <2>3, <3>1 DEF KeptCovered, Working, Awaited, Present
    <3>3. ASSUME NEW k \in hist[s].stable \cap Scope, scan'[s].pc \in {"count", "delete"}
          PROVE  ~ Awaited(s, k)'
      BY <2>3, <3>3 DEF Awaited
    <3> QED  BY <2>0, <3>2, <3>3 DEF KeptCovered, Covered
  <2> QED  BY <1>o, <2>0, <2>2, <2>4, <2>5, <2>6 DEF SweepOk
<1>6. ASSUME NEW s \in Scans, ListPageFails(s) PROVE SweepInv'
  <2>1. /\ scan'[s].pc = "count" /\ \A p \in Scans \ {s} : scan'[p] = scan[p]
    BY <1>0, <1>6 DEF ListPageFails, ScanState
  <2>2. "list" \in hist'[s].struck /\ hist'[s].stable = hist[s].stable
        /\ \A p \in Scans \ {s} : hist'[p] = hist[p]
    BY <1>6, <1>k DEF ListPageFails
  <2>3. SweepOk(s)'
    BY <1>6, <2>1, <2>2 DEF ListPageFails, SweepOk, ListingState, Trusted, Working, Present
  <2> QED  BY <1>o, <1>6, <2>1, <2>2, <2>3 DEF ListPageFails
<1>7. ASSUME NEW s \in Scans, WriteParent(s) PROVE SweepInv'
  <2> DEFINE f == Head(scan[s].todo)
  <2>1. /\ scan'[s].todo = Tail(scan[s].todo)
        /\ scan'[s].pc = IF Tail(scan[s].todo) = <<>> THEN "upsert" ELSE "parent"
        /\ scan'[s].page = scan[s].page /\ scan'[s].token = scan[s].token
        /\ scan'[s].more = scan[s].more
        /\ \A p \in Scans \ {s} : scan'[p] = scan[p]
    BY <1>0, <1>7 DEF WriteParent, ScanState
  <2>2. MarkedKeys(index') = MarkedKeys(index) \ {f}
    BY <1>7, SMT DEF WriteParent, Upsert, MarkedKeys
  <2>3. TodoSet(s) \subseteq {f} \cup TodoSet(s)' /\ (Tail(scan[s].todo) = <<>> => TodoSet(s) = {f})
    BY <1>7, <2>1, TodoTail DEF WriteParent
  <2>4. ListingState(s)'
    <3>1. /\ scan[s].pc = "parent" /\ hist' = hist /\ s3' = s3
          /\ scan'[s].pc \in {"parent", "upsert"}
      BY <1>7, <2>1 DEF WriteParent
    <3>2. ListingState(s)
      BY DEF SweepOk, SweepInv
    <3> QED  BY <3>1, <3>2 DEF ListingState, Working, Present
  <2>5. ASSUME Trusted(s)' PROVE CurrentCovered(s)' /\ KeptCovered(s)'
    <3>1. CurrentCovered(s) /\ KeptCovered(s)
      BY <1>7, <2>5 DEF WriteParent, SweepOk, Trusted, Working
    <3>2. /\ scan[s].pc = "parent" /\ hist' = hist /\ Current(s)' = Current(s)
          /\ scan'[s].pc \in {"parent", "upsert"}
          /\ scan'[s].pc = "upsert" => Tail(scan[s].todo) = <<>>
      BY <1>7, <2>1 DEF WriteParent, Current
    <3>3. (AncestorSet(Current(s)) \ TodoSet(s)) \cap MarkedKeys(index) = {}
      BY <3>1, <3>2 DEF CurrentCovered
    <3>4. CurrentCovered(s)'
      <4>1. CASE scan'[s].pc = "parent"
        <5>1. (AncestorSet(Current(s)) \ TodoSet(s)') \cap MarkedKeys(index') = {}
          BY <2>2, <2>3, <3>3
        <5> QED  BY <3>2, <4>1, <5>1 DEF CurrentCovered, AncestorSet
      <4>2. CASE scan'[s].pc = "upsert"
        <5>1. AncestorSet(Current(s)) \cap MarkedKeys(index') = {}
          BY <2>2, <2>3, <3>2, <3>3, <4>2
        <5> QED  BY <3>2, <4>2, <5>1 DEF CurrentCovered, AncestorSet
      <4> QED  BY <3>2, <4>1, <4>2
    <3>5. KeptCovered(s)'
      <4>1. ASSUME NEW k \in hist[s].stable \cap Scope, ~ Awaited(s, k)' PROVE Covered(k)'
        <5>1. ~ Awaited(s, k)
          BY <2>1, <4>1 DEF Awaited
        <5>2. ({k} \cup AncestorSet(k)) \cap MarkedKeys(index) = {}
          BY <3>1, <3>2, <5>1 DEF KeptCovered, Covered, Working
        <5>3. ({k} \cup AncestorSet(k)) \cap MarkedKeys(index') = {}
          BY <2>2, <5>2
        <5> QED  BY <5>3 DEF Covered
      <4> QED  BY <3>2, <4>1 DEF KeptCovered
    <3> QED  BY <3>4, <3>5
  <2> QED  BY <1>o, <1>7, <2>1, <2>2, <2>4, <2>5 DEF WriteParent, SweepOk
<1>8. ASSUME NEW s \in Scans, WriteParentFails(s) PROVE SweepInv'
  <2>1. /\ scan'[s].pc = "upsert" /\ \A p \in Scans \ {s} : scan'[p] = scan[p]
    BY <1>0, <1>8 DEF WriteParentFails, ScanState
  <2>2. "row" \in hist'[s].struck /\ hist'[s].stable = hist[s].stable
        /\ \A p \in Scans \ {s} : hist'[p] = hist[p]
    BY <1>8, <1>k DEF WriteParentFails
  <2>3. SweepOk(s)'
    BY <1>8, <2>1, <2>2 DEF WriteParentFails, SweepOk, ListingState, Trusted, Working, Present
  <2> QED  BY <1>o, <1>8, <2>1, <2>2, <2>3 DEF WriteParentFails
<1>n. ASSUME NEW s \in Scans, scan[s].pc \in {"upsert", "unmark"}, NextObject(s), s3' = s3,
             hist'[s].stable = hist[s].stable, hist'[s].alone => hist[s].alone,
             hist[s].struck \subseteq hist'[s].struck,
             MarkedKeys(index') \subseteq MarkedKeys(index),
             Trusted(s)' => Current(s) \notin MarkedKeys(index')
      PROVE  SweepOk(s)'
  <2>1. /\ scan'[s].token = scan[s].token /\ scan'[s].more = scan[s].more
        /\ DOMAIN scan'[s].page = DOMAIN scan[s].page \ {Current(s)}
        /\ DOMAIN scan'[s].page # {} =>
             /\ scan'[s].todo = Ancestors[Least(DOMAIN scan'[s].page)]
             /\ scan'[s].pc = IF Ancestors[Least(DOMAIN scan'[s].page)] # <<>>
                              THEN "parent" ELSE "upsert"
        /\ DOMAIN scan'[s].page = {} => scan'[s].pc = IF scan'[s].more THEN "list" ELSE "count"
    BY <1>n, NextObjectState
  <2>2. CurrentCovered(s)'
    BY <2>1, FreshCurrent
  <2>3. ListingState(s)'
    BY <1>n, <2>1 DEF SweepOk, ListingState, Working, Present
  <2>4. ASSUME Trusted(s)' PROVE KeptCovered(s)'
    <3>1. CurrentCovered(s) /\ KeptCovered(s)
      BY <1>n, <2>4 DEF SweepOk, Trusted, Working
    <3>2. ({Current(s)} \cup AncestorSet(Current(s))) \cap MarkedKeys(index') = {}
      <4>1. AncestorSet(Current(s)) \cap MarkedKeys(index) = {}
        BY <1>n, <3>1 DEF CurrentCovered
      <4> QED  BY <1>n, <2>4, <4>1
    <3>3. ASSUME NEW k \in hist[s].stable \cap Scope PROVE Covered(k)' \/ Awaited(s, k)'
      <4>1. CASE k = Current(s)
        <5>1. ({k} \cup AncestorSet(k)) \cap MarkedKeys(index') = {}
          BY <3>2, <4>1
        <5> QED  BY <5>1 DEF Covered
      <4>2. CASE k # Current(s)
        <5>1. Awaited(s, k) => Awaited(s, k)'
          BY <2>1, <4>2 DEF Awaited
        <5>2. Covered(k) => Covered(k)'
          BY <1>n DEF Covered
        <5> QED  BY <1>n, <3>1, <5>1, <5>2 DEF KeptCovered, Working
      <4> QED  BY <4>1, <4>2
    <3>4. ASSUME scan'[s].pc \in {"count", "delete"}, NEW k \in Objects
          PROVE  ~ Awaited(s, k)'
      BY <2>1, <3>4 DEF Awaited
    <3> QED  BY <1>0, <1>n, <3>3, <3>4 DEF KeptCovered
  <2> QED  BY <2>2, <2>3, <2>4 DEF SweepOk
<1>9. ASSUME NEW s \in Scans, WriteObject(s) PROVE SweepInv'
  <2>1. MarkedKeys(index') = MarkedKeys(index) \ {Current(s)}
    BY <1>9, SMT DEF WriteObject, Upsert, MarkedKeys
  <2>2. CASE NextObject(s)
    <3>1. SweepOk(s)'
      BY <1>9, <1>n, <2>1, <2>2 DEF WriteObject
    <3> QED  BY <1>9, <1>o, <2>1, <2>2, <3>1, NextObjectState DEF WriteObject
  <2>3. CASE Goto(s, "unmark")
    <3>1. /\ scan'[s].pc = "unmark" /\ scan'[s].page = scan[s].page
          /\ scan'[s].token = scan[s].token /\ scan'[s].more = scan[s].more
          /\ \A p \in Scans \ {s} : scan'[p] = scan[p]
      BY <2>3, GotoState
    <3>2. ListingState(s)'
      BY <1>9, <3>1 DEF WriteObject, SweepOk, ListingState, Working, Present
    <3>3. ASSUME Trusted(s)' PROVE CurrentCovered(s)' /\ KeptCovered(s)'
      <4>1. CurrentCovered(s) /\ KeptCovered(s)
        BY <1>9, <3>3 DEF WriteObject, SweepOk, Trusted, Working
      <4>2. Current(s)' = Current(s)
        BY <3>1 DEF Current
      <4>3. CurrentCovered(s)'
        BY <1>9, <2>1, <3>1, <4>1, <4>2 DEF WriteObject, CurrentCovered
      <4>4. KeptCovered(s)'
        BY <1>9, <2>1, <3>1, <4>1 DEF WriteObject, KeptCovered, Covered, Awaited, Working
      <4> QED  BY <4>3, <4>4
    <3>4. SweepOk(s)'
      BY <3>2, <3>3 DEF SweepOk
    <3> QED  BY <1>9, <1>o, <2>1, <3>1, <3>4 DEF WriteObject
  <2> QED  BY <1>9, <2>2, <2>3 DEF WriteObject
<1>10. ASSUME NEW s \in Scans, WriteObjectFails(s) PROVE SweepInv'
  <2>1. "row" \in hist'[s].struck /\ hist'[s].stable = hist[s].stable
        /\ hist'[s].alone = hist[s].alone /\ hist[s].struck \subseteq hist'[s].struck
        /\ \A p \in Scans \ {s} : hist'[p] = hist[p]
    BY <1>10, <1>k DEF WriteObjectFails
  <2>2. SweepOk(s)'
    BY <1>10, <1>n, <2>1 DEF WriteObjectFails, Trusted
  <2> QED  BY <1>10, <1>o, <2>1, <2>2, NextObjectState DEF WriteObjectFails
<1>u. ASSUME NEW s \in Scans, scan[s].pc = "unmark", NextObject(s), s3' = s3,
             hist'[s].stable = hist[s].stable, hist'[s].alone => hist[s].alone,
             hist[s].struck \subseteq hist'[s].struck,
             MarkedKeys(index') \subseteq MarkedKeys(index)
      PROVE  SweepOk(s)'
  <2>1. ASSUME Trusted(s)' PROVE Current(s) \notin MarkedKeys(index')
    BY <1>u, <2>1 DEF SweepOk, Trusted, Working, CurrentCovered
  <2> QED  BY <1>u, <1>n, <2>1
<1>11. ASSUME NEW s \in Scans, UnmarkObject(s) PROVE SweepInv'
  <2>1. MarkedKeys(index') \subseteq MarkedKeys(index)
    BY <1>11, MarksOnlyFromMarkAll DEF UnmarkObject
  <2>2. SweepOk(s)'
    BY <1>11, <1>u, <2>1 DEF UnmarkObject
  <2> QED  BY <1>11, <1>o, <2>1, <2>2, NextObjectState DEF UnmarkObject
<1>12. ASSUME NEW s \in Scans, UnmarkObjectFails(s) PROVE SweepInv'
  <2>1. hist'[s].stable = hist[s].stable
        /\ hist'[s].alone = hist[s].alone /\ hist[s].struck \subseteq hist'[s].struck
        /\ \A p \in Scans \ {s} : hist'[p] = hist[p]
    BY <1>12, <1>k DEF UnmarkObjectFails
  <2>2. SweepOk(s)'
    BY <1>12, <1>u, <2>1 DEF UnmarkObjectFails
  <2> QED  BY <1>12, <1>o, <2>1, <2>2, NextObjectState DEF UnmarkObjectFails
<1>13. ASSUME NEW s \in Scans, CountMarked(s) PROVE SweepInv'
  <2>1. CASE Goto(s, "finalize")
    BY <1>13, <1>g, <1>o, <2>1, GotoState DEF CountMarked, Working
  <2>2. CASE Goto(s, "delete")
    <3>1. /\ scan'[s].pc = "delete" /\ scan'[s].page = scan[s].page
          /\ scan'[s].token = scan[s].token /\ scan'[s].more = scan[s].more
          /\ \A p \in Scans \ {s} : scan'[p] = scan[p]
      BY <2>2, GotoState
    <3>2. SweepOk(s)'
      BY <1>13, <3>1 DEF CountMarked, SweepOk, ListingState, Working, Trusted, Present,
                         CurrentCovered, KeptCovered, Covered
    <3> QED  BY <1>13, <1>o, <3>1, <3>2 DEF CountMarked
  <2> QED  BY <1>13, <2>1, <2>2 DEF CountMarked
<1>14. ASSUME NEW s \in Scans, DeleteMarkedRows(s) PROVE SweepInv'
  <2>1. MarkedKeys(index') = {}
    BY <1>14, MarksOnlyFromMarkAll DEF DeleteMarkedRows
  <2> QED  BY <1>14, <1>g, <1>o, <2>1, GotoState DEF DeleteMarkedRows, Working
<1>15. ASSUME NEW s \in Scans, CleanupFails(s) PROVE SweepInv'
  BY <1>15, <1>g, <1>o, <1>k, GotoState DEF CleanupFails, Working
<1>16. ASSUME NEW s \in Scans, Finalize(s) PROVE SweepInv'
  BY <1>16, <1>g, <1>o, GotoState DEF Finalize, Working
<1>17. ASSUME NEW s \in Scans, FinalizeFails(s) PROVE SweepInv'
  BY <1>17, <1>g, <1>o, <1>k, GotoState DEF FinalizeFails, Working
<1>s. ASSUME NEW s \in Scans, ScanStep(s) PROVE SweepInv'
  BY <1>s, <1>1, <1>2, <1>3, <1>4, <1>5, <1>6, <1>7, <1>8, <1>9, <1>10, <1>11, <1>12,
     <1>13, <1>14, <1>15, <1>16, <1>17 DEF ScanStep
<1>e. ASSUME NEW bucket, NEW changed, S3Changes(bucket, changed), scan' = scan, index' = index
      PROVE  SweepInv'
  <2>1. ASSUME NEW p \in Scans
        PROVE  /\ hist'[p].alone = hist[p].alone /\ hist'[p].struck = hist[p].struck
               /\ hist'[p].stable = hist[p].stable \cap Present(s3')
    BY <1>0, <1>e DEF S3Changes, ScanHistory
  <2> QED  BY <1>e, <2>1, SweepFrame
<1>18. ASSUME NEW q \in Requests, RequestStep(q) PROVE SweepInv'
  <2>1. ASSUME NEW k \in Scope \ Folders, NEW v \in Versions, Upload(q, k, v) PROVE SweepInv'
    BY <1>e, <2>1 DEF Upload
  <2>2. ASSUME NEW K \in SUBSET Scope \ {{}}, Delete(q, K) PROVE SweepInv'
    BY <1>e, <2>2 DEF Delete
  <2>3. ASSUME NEW K \in SUBSET Scope \ {{}}, DeletePartly(q, K) PROVE SweepInv'
    BY <1>e, <2>3 DEF DeletePartly
  <2>4. ASSUME SyncUpload(q) PROVE SweepInv'
    BY <2>4, SweepFrameQuiet, RequestsMarkNothing
  <2>5. ASSUME SyncDelete(q) PROVE SweepInv'
    BY <2>5, SweepFrameQuiet, RequestsMarkNothing
  <2>6. ASSUME SyncFails(q) PROVE SweepInv'
    BY <2>6, SweepFrameQuiet, RequestsMarkNothing
  <2> QED  BY <1>18, <2>1, <2>2, <2>3, <2>4, <2>5, <2>6 DEF RequestStep
<1>19. CASE ExternalChange
  BY <1>e, <1>19 DEF ExternalChange
<1>20. CASE Kill
  <2>1. ASSUME NEW p \in Scans, scan'[p] # scan[p] PROVE scan'[p].pc = "killed"
    BY <1>20, <2>1 DEF Kill, FreshScan
  <2>2. ASSUME NEW p \in Scans PROVE SweepOk(p)'
    <3>1. CASE scan'[p] = scan[p]
      BY <1>20, <3>1, SweepFrameQuiet DEF Kill
    <3>2. CASE scan'[p].pc = "killed"
      BY <3>2 DEF SweepOk, ListingState, Working
    <3> QED  BY <2>1, <3>1, <3>2
  <2> QED  BY <2>2
<1>21. CASE UNCHANGED vars
  BY <1>21, SweepFrameQuiet DEF vars
<1> QED  BY <1>s, <1>18, <1>19, <1>20, <1>21 DEF Next

LEMMA SweepSpares ==
  ASSUME SweepInv, NEW s \in Scans, DeleteMarkedRows(s), Trusted(s)
  PROVE  Protected(s) \cap DOMAIN index \subseteq DOMAIN index'
<1>1. KeptCovered(s) /\ scan[s].pc = "delete"
  BY DEF SweepInv, SweepOk, DeleteMarkedRows, Working
<1>2. Protected(s) \cap MarkedKeys(index) = {}
  BY <1>1 DEF Protected, KeptCovered, Covered
<1>3. DOMAIN index' = DOMAIN index \ MarkedKeys(index)
  BY DEF DeleteMarkedRows, DeleteMarked
<1> QED  BY <1>2, <1>3

(* The sweep spares what it must spare: CleanupSparesLiveObjects holds of   *)
(* every behaviour.                                                        *)
THEOREM SweepSparesLiveObjects == Spec => CleanupSparesLiveObjects
<1>1. SweepInv =>
        [\A s \in Scans :
           DeleteMarkedRows(s) /\ hist[s].alone /\ hist[s].struck \cap {"list", "row"} = {}
             => Protected(s) \cap DOMAIN index \subseteq DOMAIN index']_vars
  BY SweepSpares DEF Trusted
<1>2. Spec => []SweepInv
  BY TypeInit, TypeStep, SweepInit, SweepStep, PTL DEF Spec
<1> QED  BY <1>1, <1>2, PTL DEF CleanupSparesLiveObjects
-----------------------------------------------------------------------------
(* The marks. *)

(* A keeper stays one unless it finishes.                                   *)
LEMMA KeeperStays ==
  ASSUME NEW p \in Scans, Keeper(p), scan'[p] = scan[p], hist[p].struck \subseteq hist'[p].struck
  PROVE  Keeper(p)'
  BY DEF Keeper

LEMMA StruckGrows ==
  ASSUME TypeInv, NEW s \in Scans, NEW kind, Struck(s, kind)
  PROVE  /\ kind \in hist'[s].struck
         /\ \A p \in Scans : hist[p].struck \subseteq hist'[p].struck
  BY DEF TypeInv, TypeOK, ScanHistory, Struck

LEMMA MarksStep == TypeInv /\ MarksInv /\ [Next]_vars => MarksInv'
<1> SUFFICES ASSUME TypeInv, MarksInv, [Next]_vars, MarkedKeys(index') # {}
             PROVE  DeletionSync /\ \E p \in Scans : Keeper(p)'
  BY DEF MarksInv
(* A step that adds no mark, after which every keeper is still one.         *)
<1>f. ASSUME MarkedKeys(index') \subseteq MarkedKeys(index),
             \A p \in Scans : Keeper(p) => Keeper(p)'
      PROVE  DeletionSync /\ \E p \in Scans : Keeper(p)'
  BY <1>f DEF MarksInv
(* Scan s steps from one place at which it works to another.                *)
<1>w. ASSUME NEW s \in Scans, MarkedKeys(index') \subseteq MarkedKeys(index),
             \A p \in Scans \ {s} : scan'[p] = scan[p],
             \A p \in Scans : hist[p].struck \subseteq hist'[p].struck,
             scan[s].pc \in Working \cup {"killed"} =>
               scan'[s].pc \in Working \cup {"killed"} \/ "clean" \in hist'[s].struck
      PROVE  DeletionSync /\ \E p \in Scans : Keeper(p)'
  <2>1. \A p \in Scans : Keeper(p) => Keeper(p)'
    BY <1>w DEF Keeper
  <2> QED  BY <1>f, <1>w, <2>1
<1>g. ASSUME NEW s \in Scans, NEW label, Goto(s, label), index' = index,
             \A p \in Scans : hist[p].struck \subseteq hist'[p].struck,
             \/ scan[s].pc \in {"idle", "mark", "finalize"}
             \/ label \in Working
             \/ "clean" \in hist'[s].struck
      PROVE  DeletionSync /\ \E p \in Scans : Keeper(p)'
  <2>1. scan'[s].pc = label /\ \A p \in Scans \ {s} : scan'[p] = scan[p]
    BY <1>g, GotoState
  <2> QED  BY <1>g, <1>w, <2>1 DEF Working
<1>n. ASSUME NEW s \in Scans, scan[s].pc \in {"upsert", "unmark"}, NextObject(s),
             MarkedKeys(index') \subseteq MarkedKeys(index),
             \A p \in Scans : hist[p].struck \subseteq hist'[p].struck
      PROVE  DeletionSync /\ \E p \in Scans : Keeper(p)'
  <2>1. scan'[s].pc \in Working /\ \A p \in Scans \ {s} : scan'[p] = scan[p]
    BY <1>n, NextObjectState DEF Working
  <2> QED  BY <1>n, <1>w, <2>1
<1>1. ASSUME NEW s \in Scans, Begin(s) PROVE DeletionSync /\ \E p \in Scans : Keeper(p)'
  BY <1>1, <1>g DEF Begin
<1>2. ASSUME NEW s \in Scans, BeginFails(s) PROVE DeletionSync /\ \E p \in Scans : Keeper(p)'
  BY <1>2, <1>g, StruckGrows DEF BeginFails
<1>3. ASSUME NEW s \in Scans, MarkObjects(s) PROVE DeletionSync /\ \E p \in Scans : Keeper(p)'
  <2>1. scan'[s].pc = "list"
    BY <1>3, GotoState DEF MarkObjects
  <2>2. Keeper(s)'
    BY <2>1 DEF Keeper, Working
  <2>3. CASE DeletionSync
    BY <2>2, <2>3
  <2>4. CASE ~ DeletionSync
    BY <1>3, <2>4 DEF MarkObjects, MarksInv
  <2> QED  BY <2>3, <2>4
<1>4. ASSUME NEW s \in Scans, MarkObjectsFails(s) PROVE DeletionSync /\ \E p \in Scans : Keeper(p)'
  BY <1>4, <1>g, StruckGrows DEF MarkObjectsFails
<1>5. ASSUME NEW s \in Scans, ListPage(s) PROVE DeletionSync /\ \E p \in Scans : Keeper(p)'
  <2>1. PICK P \in Pages, t \in Nat, m \in BOOLEAN :
          scan' = [scan EXCEPT ![s] = Advance(@, P, t, m)]
    BY <1>5, ListedPage
  <2>2. scan \in [Scans -> ScanState] /\ scan[s] \in ScanState
    BY DEF TypeInv, TypeOK
  <2>3. Advance(scan[s], P, t, m).pc \in Working
    <3>1. CASE DOMAIN P # {}
      BY <2>2, <3>1, AdvanceState DEF Working
    <3>2. CASE DOMAIN P = {}
      <4>1. Advance(scan[s], P, t, m).pc = IF m THEN "list" ELSE "count"
        BY <2>2, <3>2, AdvanceState
      <4> QED  BY <4>1 DEF Working
    <3> QED  BY <3>1, <3>2
  <2>4. scan'[s].pc \in Working /\ \A p \in Scans \ {s} : scan'[p] = scan[p]
    BY <2>1, <2>2, <2>3
  <2> QED  BY <1>5, <1>w, <2>4 DEF ListPage
<1>6. ASSUME NEW s \in Scans, ListPageFails(s) PROVE DeletionSync /\ \E p \in Scans : Keeper(p)'
  <2>1. scan'[s].pc = "count" /\ \A p \in Scans \ {s} : scan'[p] = scan[p]
    BY <1>6 DEF ListPageFails, TypeInv, TypeOK, ScanState
  <2> QED  BY <1>6, <1>w, <2>1, StruckGrows DEF ListPageFails, Working
<1>7. ASSUME NEW s \in Scans, WriteParent(s) PROVE DeletionSync /\ \E p \in Scans : Keeper(p)'
  <2>1. /\ scan'[s].pc \in {"parent", "upsert"}
        /\ \A p \in Scans \ {s} : scan'[p] = scan[p]
    BY <1>7 DEF WriteParent, TypeInv, TypeOK, ScanState
  <2>2. MarkedKeys(index') = MarkedKeys(index) \ {Head(scan[s].todo)}
    BY <1>7, SMT DEF WriteParent, Upsert, MarkedKeys
  <2> QED  BY <1>7, <1>w, <2>1, <2>2 DEF WriteParent, Working
<1>8. ASSUME NEW s \in Scans, WriteParentFails(s) PROVE DeletionSync /\ \E p \in Scans : Keeper(p)'
  <2>1. scan'[s].pc = "upsert" /\ \A p \in Scans \ {s} : scan'[p] = scan[p]
    BY <1>8 DEF WriteParentFails, TypeInv, TypeOK, ScanState
  <2> QED  BY <1>8, <1>w, <2>1, StruckGrows DEF WriteParentFails, Working
<1>9. ASSUME NEW s \in Scans, WriteObject(s) PROVE DeletionSync /\ \E p \in Scans : Keeper(p)'
  <2>1. MarkedKeys(index') = MarkedKeys(index) \ {Current(s)}
    BY <1>9, SMT DEF WriteObject, Upsert, MarkedKeys
  <2>2. CASE NextObject(s)
    BY <1>9, <1>n, <2>1, <2>2 DEF WriteObject
  <2>3. CASE Goto(s, "unmark")
    <3>1. scan'[s].pc = "unmark" /\ \A p \in Scans \ {s} : scan'[p] = scan[p]
      BY <2>3, GotoState
    <3> QED  BY <1>9, <1>w, <2>1, <3>1 DEF WriteObject, Working
  <2> QED  BY <1>9, <2>2, <2>3 DEF WriteObject
<1>10. ASSUME NEW s \in Scans, WriteObjectFails(s) PROVE DeletionSync /\ \E p \in Scans : Keeper(p)'
  BY <1>10, <1>n, StruckGrows DEF WriteObjectFails
<1>11. ASSUME NEW s \in Scans, UnmarkObject(s) PROVE DeletionSync /\ \E p \in Scans : Keeper(p)'
  <2>1. MarkedKeys(index') \subseteq MarkedKeys(index)
    BY <1>11, MarksOnlyFromMarkAll DEF UnmarkObject
  <2> QED  BY <1>11, <1>n, <2>1 DEF UnmarkObject
<1>12. ASSUME NEW s \in Scans, UnmarkObjectFails(s) PROVE DeletionSync /\ \E p \in Scans : Keeper(p)'
  BY <1>12, <1>n DEF UnmarkObjectFails
<1>13. ASSUME NEW s \in Scans, CountMarked(s) PROVE DeletionSync /\ \E p \in Scans : Keeper(p)'
  <2>1. DeletionSync /\ MarkedKeys(index) # {}
    BY <1>13 DEF CountMarked, MarksInv
  <2>2. Goto(s, "delete") /\ index' = index /\ hist' = hist
    BY <1>13, <2>1 DEF CountMarked
  <2> QED  BY <1>g, <2>2 DEF Working
<1>14. ASSUME NEW s \in Scans, DeleteMarkedRows(s) PROVE DeletionSync /\ \E p \in Scans : Keeper(p)'
  BY <1>14, MarksOnlyFromMarkAll DEF DeleteMarkedRows
<1>15. ASSUME NEW s \in Scans, CleanupFails(s) PROVE DeletionSync /\ \E p \in Scans : Keeper(p)'
  BY <1>15, <1>g, StruckGrows DEF CleanupFails
<1>16. ASSUME NEW s \in Scans, Finalize(s) PROVE DeletionSync /\ \E p \in Scans : Keeper(p)'
  BY <1>16, <1>g DEF Finalize
<1>17. ASSUME NEW s \in Scans, FinalizeFails(s) PROVE DeletionSync /\ \E p \in Scans : Keeper(p)'
  BY <1>17, <1>g, StruckGrows DEF FinalizeFails
<1>s. ASSUME NEW s \in Scans, ScanStep(s) PROVE DeletionSync /\ \E p \in Scans : Keeper(p)'
  BY <1>s, <1>1, <1>2, <1>3, <1>4, <1>5, <1>6, <1>7, <1>8, <1>9, <1>10, <1>11, <1>12,
     <1>13, <1>14, <1>15, <1>16, <1>17 DEF ScanStep
<1>e. ASSUME NEW bucket, NEW changed, S3Changes(bucket, changed), scan' = scan, index' = index
      PROVE  DeletionSync /\ \E p \in Scans : Keeper(p)'
  <2>1. \A p \in Scans : hist'[p].struck = hist[p].struck
    BY <1>e DEF S3Changes, TypeInv, TypeOK, ScanHistory
  <2>2. \A p \in Scans : Keeper(p) => Keeper(p)'
    BY <1>e, <2>1 DEF Keeper
  <2> QED  BY <1>e, <1>f, <2>2
<1>q. ASSUME scan' = scan, hist' = hist, MarkedKeys(index') \subseteq MarkedKeys(index)
      PROVE  DeletionSync /\ \E p \in Scans : Keeper(p)'
  BY <1>f, <1>q DEF Keeper
<1>18. ASSUME NEW q \in Requests, RequestStep(q) PROVE DeletionSync /\ \E p \in Scans : Keeper(p)'
  <2>1. ASSUME NEW k \in Scope \ Folders, NEW v \in Versions, Upload(q, k, v)
        PROVE  DeletionSync /\ \E p \in Scans : Keeper(p)'
    BY <1>e, <2>1 DEF Upload
  <2>2. ASSUME NEW K \in SUBSET Scope \ {{}}, Delete(q, K) \/ DeletePartly(q, K)
        PROVE  DeletionSync /\ \E p \in Scans : Keeper(p)'
    BY <1>e, <2>2 DEF Delete, DeletePartly
  <2>3. ASSUME SyncUpload(q) \/ SyncDelete(q) \/ SyncFails(q)
        PROVE  DeletionSync /\ \E p \in Scans : Keeper(p)'
    BY <1>q, <2>3, RequestsMarkNothing
  <2> QED  BY <1>18, <2>1, <2>2, <2>3 DEF RequestStep
<1>19. CASE ExternalChange
  BY <1>e, <1>19 DEF ExternalChange
<1>20. CASE Kill
  <2>1. ASSUME NEW p \in Scans, Keeper(p) PROVE Keeper(p)'
    <3>1. CASE "clean" \in hist[p].struck
      BY <1>20, <3>1 DEF Kill, Keeper
    <3>2. CASE scan[p].pc \in Working \cup {"killed"}
      <4>1. scan'[p].pc = "killed"
        BY <1>20, <3>2 DEF Kill, Working, FreshScan
      <4> QED  BY <4>1 DEF Keeper
    <3> QED  BY <2>1, <3>1, <3>2 DEF Keeper
  <2> QED  BY <1>20, <1>f, <2>1 DEF Kill
<1>21. CASE UNCHANGED vars
  BY <1>21, <1>q DEF vars
<1> QED  BY <1>s, <1>18, <1>19, <1>20, <1>21 DEF Next

(* No row stays marked: MarksAreSwept holds of every reachable state.       *)
THEOREM MarksSwept == Spec => []MarksAreSwept
<1>1. Init => MarksInv
  BY DEF Init, MarksInv, MarkedKeys, NoRows
<1>2. MarksInv => MarksAreSwept
  BY DEF MarksInv, Keeper, MarksAreSwept
<1> QED  BY <1>1, <1>2, TypeInit, TypeStep, MarksStep, PTL DEF Spec

-----------------------------------------------------------------------------
(* Scans one after the other *)

(* No two scans work on the bucket at once, and no listing has broken off   *)
(* and no write of a row has failed.                                        *)
Orderly ==
  /\ \A s, p \in Scans : scan[s].pc \in Working /\ scan[p].pc \in Working => s = p
  /\ \A s \in Scans : hist[s].struck \cap {"list", "row"} = {}

(* Then whoever works on the bucket has it for itself.                      *)
AloneInv == \A s \in Scans : scan[s].pc \in Working => hist[s].alone

(* A step of a scan other than the marking brings no scan to work, and      *)
(* takes none's being alone.                                                *)
LEMMA OnlyMarkingStartsWork ==
  ASSUME TypeInv, NEW s \in Scans, ScanStep(s), ~ MarkObjects(s), NEW p \in Scans
  PROVE  /\ scan'[p].pc \in Working => scan[p].pc \in Working
         /\ hist'[p].alone = hist[p].alone
<1>0. hist \in [Scans -> ScanHistory] /\ scan \in [Scans -> ScanState]
  BY DEF TypeInv, TypeOK
<1>1. (\E label \in {"mark", "done", "finalize"} : Goto(s, label)) \/ scan[s].pc \in Working
  BY DEF ScanStep, Begin, BeginFails, MarkObjectsFails, ListPage, ListPageFails, WriteParent,
         WriteParentFails, WriteObject, WriteObjectFails, UnmarkObject, UnmarkObjectFails, CountMarked,
         DeleteMarkedRows, CleanupFails, Finalize, FinalizeFails, Working
<1>2. \A q \in Scans \ {s} : scan'[q] = scan[q]
  <2>1. (\E label : Goto(s, label)) \/ NextObject(s) => \A q \in Scans \ {s} : scan'[q] = scan[q]
    BY <1>0 DEF Goto, NextObject
  <2>2. CASE (\E label : Goto(s, label)) \/ NextObject(s)
    BY <2>1, <2>2
  <2>3. CASE ListPage(s) \/ ListPageFails(s) \/ WriteParent(s) \/ WriteParentFails(s)
    BY <1>0, <2>3 DEF ListPage, ListPageFails, WriteParent, WriteParentFails
  <2> QED
    BY <2>2, <2>3 DEF ScanStep, Begin, BeginFails, MarkObjectsFails, WriteObject, WriteObjectFails,
       UnmarkObject, UnmarkObjectFails, CountMarked, DeleteMarkedRows, CleanupFails, Finalize,
       FinalizeFails
<1>3. scan'[p].pc \in Working => scan[p].pc \in Working
  <2>1. CASE p = s
    BY <1>1, <2>1, GotoState DEF Working
  <2>2. CASE p # s
    BY <1>0, <1>2, <2>2
  <2> QED  BY <2>1, <2>2
<1>4. hist' = hist \/ \E kind : Struck(s, kind)
  BY DEF ScanStep, Begin, BeginFails, MarkObjectsFails, ListPage, ListPageFails, WriteParent,
         WriteParentFails, WriteObject, WriteObjectFails, UnmarkObject, UnmarkObjectFails, CountMarked,
         DeleteMarkedRows, CleanupFails, Finalize, FinalizeFails
<1>5. hist'[p].alone = hist[p].alone
  BY <1>0, <1>4 DEF Struck, ScanHistory
<1> QED  BY <1>3, <1>5

LEMMA AloneStep == TypeInv /\ AloneInv /\ Orderly' /\ [Next]_vars => AloneInv'
<1> SUFFICES ASSUME TypeInv, AloneInv, Orderly', [Next]_vars, NEW p \in Scans, scan'[p].pc \in Working
             PROVE  hist'[p].alone
  BY DEF AloneInv
<1>0. /\ hist \in [Scans -> ScanHistory] /\ scan \in [Scans -> ScanState]
      /\ scan[p].pc \in Working => hist[p].alone
  BY DEF TypeInv, TypeOK, AloneInv
<1>1. ASSUME NEW s \in Scans, MarkObjects(s) PROVE hist'[p].alone
  <2>1. scan' = [scan EXCEPT ![s].pc = "list"] /\ scan'[s].pc \in Working
    BY <1>0, <1>1 DEF MarkObjects, Goto, Working, ScanState
  <2>2. s = p
    BY <2>1 DEF Orderly
  <2>3. {q \in Scans \ {s} : scan[q].pc \in Working} = {}
    BY <1>0, <2>1 DEF Orderly
  <2> QED  BY <1>0, <1>1, <2>2, <2>3 DEF MarkObjects, ScanHistory
<1>2. CASE \E s \in Scans : ScanStep(s)
  BY <1>0, <1>1, <1>2, OnlyMarkingStartsWork
<1>3. ASSUME NEW bucket, NEW changed, S3Changes(bucket, changed) PROVE hist'[p].alone = hist[p].alone
  BY <1>0, <1>3 DEF S3Changes, ScanHistory
<1>4. CASE \E q \in Requests : RequestStep(q)
  <2>1. scan' = scan /\ (hist' = hist \/ \E bucket, changed : S3Changes(bucket, changed))
    BY <1>4 DEF RequestStep, Upload, Delete, DeletePartly, SyncUpload, SyncDelete, SyncFails
  <2> QED  BY <1>0, <1>3, <2>1
<1>5. CASE ExternalChange
  BY <1>0, <1>3, <1>5 DEF ExternalChange
<1>6. CASE Kill
  BY <1>0, <1>6 DEF Kill, FreshScan, Working
<1>7. CASE UNCHANGED vars
  BY <1>0, <1>7 DEF vars
<1> QED  BY <1>2, <1>4, <1>5, <1>6, <1>7 DEF Next

(* What the log says of the cleanup, "deleting objects no longer in S3",    *)
(* does hold as long as scans come one after the other, no listing breaks   *)
(* off and no write of a row fails, whatever else fails, dies or writes,    *)
(* and whatever earlier scans have left in the table.                       *)
THEOREM OrderlySweepsDeleteOnlyGone == Spec /\ []Orderly => CleanupDeletesOnlyGoneObjects
<1>1. Init => AloneInv
  BY DEF Init, AloneInv, FreshScan, Working
<1>2. TypeInv /\ SweepInv /\ Orderly /\ AloneInv =>
        [\A s \in Scans :
           DeleteMarkedRows(s) => hist[s].stable \cap Scope \cap DOMAIN index
                                    \subseteq DOMAIN index']_vars
  <2> SUFFICES ASSUME TypeInv, SweepInv, Orderly, AloneInv, NEW s \in Scans, DeleteMarkedRows(s)
               PROVE  hist[s].stable \cap Scope \cap DOMAIN index \subseteq DOMAIN index'
    OBVIOUS
  <2>1. Trusted(s)
    BY DEF Orderly, AloneInv, Trusted, DeleteMarkedRows, Working
  <2> QED  BY <2>1, SweepSpares DEF Protected
<1> QED
  BY <1>1, <1>2, AloneStep, TypeInit, TypeStep, SweepInit, SweepStep, PTL
     DEF Spec, CleanupDeletesOnlyGoneObjects

-----------------------------------------------------------------------------
(* What a scan leaves behind: that the rows agree with the bucket, and that *)
(* the job says how the listing ended.                                      *)

(* A scan whose rows SweptIndexMatchesBucket speaks of, now or later.       *)
Underway == Working \cup {"finalize"}

Listing == {"list", "parent", "upsert", "unmark"}

(* The folders of which no object has been touched.                         *)
CalmFolders(s) == {f \in Folders : Below(f) \subseteq hist[s].calm}

(* What calm means: the object is what it was when the rows were marked; it *)
(* is in S3 as it is in the page in hand, and no request is about to write  *)
(* or delete its row.                                                       *)
CalmIsCalm(s) ==
  scan[s].pc \in Underway =>
    /\ hist[s].calm \cap Present(s3) \subseteq hist[s].stable
    /\ \A q \in Requests : req[q].keys \cap hist[s].calm = {}
    /\ \A k \in DOMAIN scan[s].page \cap hist[s].calm : scan[s].page[k] = s3[k]

(* A scan that is alone stays so until another one marks the bucket.        *)
AloneIsAlone(s) ==
  scan[s].pc \in Underway /\ hist[s].alone =>
    \A p \in Scans \ {s} : scan[p].pc \notin Working

(* The keys at hand are those of the listing.                               *)
InScope(s) ==
  scan[s].pc \in Underway =>
    /\ DOMAIN scan[s].page \subseteq Scope
    /\ scan[s].pc = "parent" => TodoSet(s) \subseteq AncestorSet(Current(s))

RequestsInScope ==
  \A q \in Requests : /\ req[q].keys \subseteq Scope
                      /\ req[q].op = "upload" => req[q].keys \cap Folders = {}

RowShows(k) == k \in DOMAIN index /\ index[k].ver = s3[k]

(* The object has its row, and each of its folders, unless somebody touched *)
(* an object of that folder.                                                *)
InIndex(s, k) ==
  /\ k \notin Folders => RowShows(k)
  /\ AncestorSet(k) \cap CalmFolders(s) \subseteq DOMAIN index

(* An object that nobody touched has its rows, but for those that are still *)
(* to come in the listing or being written.                                 *)
PresentWritten(s) ==
  /\ \A k \in Scope \cap hist[s].calm \cap Present(s3) :
       ~ (scan[s].pc \in Listing /\ Awaited(s, k)) => InIndex(s, k)
  /\ scan[s].pc \in {"parent", "upsert", "unmark"} =>
       (AncestorSet(Current(s)) \ (IF scan[s].pc = "parent" THEN TodoSet(s) ELSE {}))
         \cap CalmFolders(s) \subseteq DOMAIN index
  /\ scan[s].pc = "unmark" /\ Current(s) \in hist[s].calm \ Folders => RowShows(Current(s))

(* No object, or none below the folder, since the rows were marked.         *)
Gone(s, k) ==
  \/ k \in (Scope \cap hist[s].calm) \ Folders /\ s3[k] = Absent
  \/ k \in CalmFolders(s) /\ Below(k) \cap Present(s3) = {}

(* Its row is still marked, and deleted in the end.                         *)
AbsentMarked(s) ==
  DeletionSync =>
    \A k \in DOMAIN index : Gone(s, k) => k \in MarkedKeys(index) /\ scan[s].pc # "finalize"

IndexOk(s) ==
  scan[s].pc \in Underway /\ Undisturbed(s) => PresentWritten(s) /\ AbsentMarked(s)

CalmInv ==
  RequestsInScope /\ \A s \in Scans : CalmIsCalm(s) /\ AloneIsAlone(s) /\ InScope(s)

IndexInv == \A s \in Scans : IndexOk(s)

(* The job of a scan at every stage of it.                                  *)
JobOk(s) ==
  /\ scan[s].pc = "idle" =>
       jobs[s] = "none" /\ hist[s].struck = {} /\ ~ scan[s].failed
  /\ scan[s].pc \in {"mark"} \cup Underway =>
       jobs[s] = "running" /\ (scan[s].failed <=> "list" \in hist[s].struck)
  /\ scan[s].pc \in {"count", "delete", "finalize"} => scan[s].failed \/ ~ scan[s].more
  /\ scan[s].pc = "done" =>
       \/ jobs[s] = "completed" /\ "list" \notin hist[s].struck /\ ~ scan[s].more
       \/ jobs[s] = "failed" /\ "list" \in hist[s].struck
       \/ jobs[s] = "running" /\ hist[s].struck \cap {"mark", "job"} # {}
       \/ jobs[s] = "none" /\ "validate" \in hist[s].struck

JobInv == \A s \in Scans : JobOk(s)

-----------------------------------------------------------------------------
(* What the steps of a scan do to its state. *)

LEMMA StruckState ==
  ASSUME TypeInv, NEW s \in Scans, NEW kind, Struck(s, kind)
  PROVE  /\ hist'[s].alone = hist[s].alone /\ hist'[s].stable = hist[s].stable
         /\ hist'[s].calm = hist[s].calm
         /\ hist'[s].struck = hist[s].struck \cup {kind}
         /\ \A p \in Scans \ {s} : hist'[p] = hist[p]
  BY DEF TypeInv, TypeOK, ScanHistory, Struck

LEMMA ListedState ==
  ASSUME TypeInv, NEW s \in Scans, ListPage(s)
  PROVE  LET old == scan[s]
             new == scan'[s]
         IN  /\ \A p \in Scans \ {s} : scan'[p] = scan[p]
             /\ new.failed = old.failed
             /\ \A k \in Scope : s3[k] # Absent /\ k > old.token =>
                  k \in DOMAIN new.page \/ (new.more /\ k > new.token)
             /\ \A k \in DOMAIN new.page :
                  k \in Scope /\ s3[k] # Absent /\ new.page[k] = s3[k] /\ k > old.token
             /\ DOMAIN new.page # {} =>
                  /\ new.todo = Ancestors[Least(DOMAIN new.page)]
                  /\ new.pc = IF Ancestors[Least(DOMAIN new.page)] # <<>>
                              THEN "parent" ELSE "upsert"
             /\ DOMAIN new.page = {} => new.pc = IF new.more THEN "list" ELSE "count"
<1>1. PICK P \in Pages, t \in Nat, m \in BOOLEAN :
        /\ scan' = [scan EXCEPT ![s] = Advance(@, P, t, m)]
        /\ \A k \in Scope : s3[k] # Absent /\ k > scan[s].token =>
             k \in DOMAIN P \/ (m /\ k > t)
        /\ \A k \in DOMAIN P : k \in Scope /\ s3[k] # Absent /\ P[k] = s3[k] /\ k > scan[s].token
  BY ListedPage
<1>2. scan \in [Scans -> ScanState] /\ scan[s] \in ScanState
  BY DEF TypeInv, TypeOK
<1> DEFINE a == Advance(scan[s], P, t, m)
<1>3. /\ a.failed = scan[s].failed /\ a.page = P /\ a.token = t /\ a.more = m
      /\ DOMAIN P # {} => a.todo = Ancestors[Least(DOMAIN P)]
      /\ DOMAIN P # {} => a.pc = IF Ancestors[Least(DOMAIN P)] # <<>>
                                 THEN "parent" ELSE "upsert"
      /\ DOMAIN P = {} => a.pc = IF m THEN "list" ELSE "count"
  BY <1>2, AdvanceState
<1>4. scan'[s] = a /\ \A p \in Scans \ {s} : scan'[p] = scan[p]
  BY <1>1, <1>2
<1> HIDE DEF a
<1> QED  BY <1>1, <1>3, <1>4

LEMMA WrittenParentState ==
  ASSUME TypeInv, NEW s \in Scans, WriteParent(s)
  PROVE  /\ scan'[s].todo = Tail(scan[s].todo)
         /\ scan'[s].pc = IF Tail(scan[s].todo) = <<>> THEN "upsert" ELSE "parent"
         /\ scan'[s].page = scan[s].page /\ scan'[s].token = scan[s].token
         /\ scan'[s].more = scan[s].more /\ scan'[s].failed = scan[s].failed
         /\ \A p \in Scans \ {s} : scan'[p] = scan[p]
  BY DEF TypeInv, TypeOK, WriteParent, ScanState

LEMMA GivenUpState ==
  ASSUME TypeInv, NEW s \in Scans, WriteParentFails(s) \/ ListPageFails(s)
  PROVE  /\ WriteParentFails(s) =>
              scan'[s].pc = "upsert" /\ scan'[s].failed = scan[s].failed
         /\ ListPageFails(s) => scan'[s].pc = "count" /\ scan'[s].failed
         /\ scan'[s].page = scan[s].page /\ scan'[s].token = scan[s].token
         /\ scan'[s].more = scan[s].more
         /\ \A p \in Scans \ {s} : scan'[p] = scan[p]
  BY DEF TypeInv, TypeOK, WriteParentFails, ListPageFails, ScanState

LEMMA MarkedState ==
  ASSUME TypeInv, NEW s \in Scans, MarkObjects(s)
  PROVE  /\ scan[s].pc = "mark" /\ scan'[s].pc = "list"
         /\ scan'[s].failed = scan[s].failed /\ scan'[s].page = scan[s].page
         /\ scan'[s].token = scan[s].token /\ scan'[s].more = scan[s].more
         /\ \A p \in Scans \ {s} : scan'[p] = scan[p]
         /\ s3' = s3 /\ jobs' = jobs /\ req' = req
         /\ index' = IF DeletionSync THEN MarkAll(index) ELSE index
         /\ hist'[s].alone <=> \A p \in Scans \ {s} : scan[p].pc \notin Working
         /\ hist'[s].stable = Present(s3)
         /\ hist'[s].calm = {k \in Objects : ~ InFlight(k)}
         /\ \A p \in Scans : hist'[p].struck = hist[p].struck
         /\ \A p \in Scans \ {s} : ~ hist'[p].alone /\ hist'[p].stable = hist[p].stable
                                   /\ hist'[p].calm = hist[p].calm
<1>1. hist \in [Scans -> ScanHistory]
  BY DEF TypeInv, TypeOK
<1>2. ASSUME NEW p \in Scans \ {s}
      PROVE  /\ ~ hist'[p].alone /\ hist'[p].stable = hist[p].stable
             /\ hist'[p].calm = hist[p].calm /\ hist'[p].struck = hist[p].struck
  <2>1. hist'[p] = [hist[p] EXCEPT !.alone = FALSE] /\ hist[p] \in ScanHistory
    BY <1>1, <1>2 DEF MarkObjects
  <2> QED  BY <2>1 DEF ScanHistory
<1>3. /\ hist'[s].alone <=> {p \in Scans \ {s} : scan[p].pc \in Working} = {}
      /\ hist'[s].stable = Present(s3) /\ hist'[s].calm = {k \in Objects : ~ InFlight(k)}
      /\ hist'[s].struck = hist[s].struck
  <2> DEFINE a == {p \in Scans \ {s} : scan[p].pc \in Working} = {}
             C == {k \in Objects : ~ InFlight(k)}
             P == Present(s3)
  <2>1. /\ hist'[s] = [hist[s] EXCEPT !.alone = a, !.stable = P, !.calm = C]
        /\ hist[s] \in ScanHistory
    BY <1>1 DEF MarkObjects
  <2> HIDE DEF a, C, P
  <2>2. /\ hist'[s].alone = a /\ hist'[s].stable = P /\ hist'[s].calm = C
        /\ hist'[s].struck = hist[s].struck
    BY <2>1 DEF ScanHistory
  <2> QED  BY <2>2 DEF a, C, P
<1>4. /\ Goto(s, "list") /\ scan[s].pc = "mark" /\ s3' = s3 /\ jobs' = jobs /\ req' = req
      /\ index' = IF DeletionSync THEN MarkAll(index) ELSE index
  BY DEF MarkObjects
<1> QED  BY <1>2, <1>3, <1>4, GotoState

-----------------------------------------------------------------------------
(* The job. *)

LEMMA JobStep == TypeInv /\ JobInv /\ [Next]_vars => JobInv'
<1> SUFFICES ASSUME TypeInv, JobInv, [Next]_vars PROVE JobInv'
  OBVIOUS
<1>0. /\ jobs \in [Scans -> {"none", "running", "completed", "failed"}]
      /\ hist \in [Scans -> ScanHistory]
      /\ \A s \in Scans : JobOk(s)
  BY DEF TypeInv, TypeOK, JobInv
(* Only the scan's own steps touch what its job depends on.                 *)
<1>o. ASSUME NEW s \in Scans, JobOk(s)',
             \A p \in Scans \ {s} : scan'[p] = scan[p] /\ hist'[p].struck = hist[p].struck
                                    /\ jobs'[p] = jobs[p]
      PROVE  JobInv'
  BY <1>0, <1>o DEF JobInv, JobOk
<1>q. ASSUME scan' = scan, jobs' = jobs, \A p \in Scans : hist'[p].struck = hist[p].struck
      PROVE  JobInv'
  BY <1>0, <1>q DEF JobInv, JobOk
(* Between two places at which the job is running.                          *)
<1>r. ASSUME NEW s \in Scans, scan[s].pc \in Underway, jobs' = jobs,
             scan'[s].pc \in Underway, scan'[s].failed = scan[s].failed,
             scan'[s].pc \in {"count", "delete", "finalize"} =>
               scan'[s].failed \/ ~ scan'[s].more,
             "list" \in hist'[s].struck <=> "list" \in hist[s].struck,
             \A p \in Scans \ {s} : scan'[p] = scan[p] /\ hist'[p].struck = hist[p].struck
      PROVE  JobInv'
  <2>1. JobOk(s)'
    BY <1>0, <1>r DEF JobOk, Underway, Working
  <2> QED  BY <1>o, <1>r, <2>1
<1>n. ASSUME NEW s \in Scans, scan[s].pc \in {"upsert", "unmark"}, NextObject(s), jobs' = jobs,
             "list" \in hist'[s].struck <=> "list" \in hist[s].struck,
             \A p \in Scans \ {s} : hist'[p].struck = hist[p].struck
      PROVE  JobInv'
  <2>1. /\ scan'[s].failed = scan[s].failed
        /\ scan'[s].pc \in {"parent", "upsert", "list", "count"}
        /\ scan'[s].pc = "count" => ~ scan'[s].more
        /\ \A p \in Scans \ {s} : scan'[p] = scan[p]
    BY <1>n, NextObjectState
  <2> QED  BY <1>n, <1>r, <2>1 DEF Underway, Working
<1>1. ASSUME NEW s \in Scans, Begin(s) PROVE JobInv'
  <2>1. JobOk(s)'
    BY <1>0, <1>1, GotoState DEF Begin, JobOk, Underway, Working
  <2> QED  BY <1>0, <1>1, <1>o, <2>1, GotoState DEF Begin
<1>2. ASSUME NEW s \in Scans, BeginFails(s) PROVE JobInv'
  <2>1. JobOk(s)'
    BY <1>0, <1>2, GotoState, StruckState DEF BeginFails, JobOk, Underway, Working
  <2> QED  BY <1>2, <1>o, <2>1, GotoState, StruckState DEF BeginFails
<1>3. ASSUME NEW s \in Scans, MarkObjects(s) PROVE JobInv'
  <2>1. /\ scan[s].pc = "mark" /\ scan'[s].pc = "list" /\ jobs' = jobs
        /\ scan'[s].failed = scan[s].failed /\ \A p \in Scans \ {s} : scan'[p] = scan[p]
        /\ \A p \in Scans : hist'[p].struck = hist[p].struck
    BY <1>3, MarkedState
  <2>2. JobOk(s)'
    BY <1>0, <2>1 DEF JobOk, Underway, Working
  <2> QED  BY <1>o, <2>1, <2>2
<1>4. ASSUME NEW s \in Scans, MarkObjectsFails(s) PROVE JobInv'
  <2>1. JobOk(s)'
    BY <1>0, <1>4, GotoState, StruckState DEF MarkObjectsFails, JobOk, Underway, Working
  <2> QED  BY <1>4, <1>o, <2>1, GotoState, StruckState DEF MarkObjectsFails
<1>5. ASSUME NEW s \in Scans, ListPage(s) PROVE JobInv'
  <2>1. /\ scan'[s].failed = scan[s].failed
        /\ scan'[s].pc \in {"parent", "upsert", "list", "count"}
        /\ scan'[s].pc = "count" => ~ scan'[s].more
        /\ \A p \in Scans \ {s} : scan'[p] = scan[p]
    BY <1>5, ListedState
  <2> QED  BY <1>5, <1>r, <2>1 DEF ListPage, Underway, Working
<1>6. ASSUME NEW s \in Scans, ListPageFails(s) PROVE JobInv'
  <2>1. /\ scan[s].pc = "list" /\ scan'[s].pc = "count" /\ scan'[s].failed /\ jobs' = jobs
        /\ \A p \in Scans \ {s} : scan'[p] = scan[p] /\ hist'[p].struck = hist[p].struck
    <3>1. scan[s].pc = "list" /\ Struck(s, "list") /\ jobs' = jobs
      BY <1>6 DEF ListPageFails
    <3>2. \A p \in Scans \ {s} : hist'[p].struck = hist[p].struck
      BY <3>1, StruckState
    <3>3. scan'[s].pc = "count" /\ scan'[s].failed /\ \A p \in Scans \ {s} : scan'[p] = scan[p]
      BY <1>6, GivenUpState
    <3> QED  BY <3>1, <3>2, <3>3
  <2>2. "list" \in hist'[s].struck
    BY <1>6, StruckGrows DEF ListPageFails
  <2>3. JobOk(s)'
    BY <1>0, <2>1, <2>2 DEF JobOk, Underway, Working
  <2> QED  BY <1>o, <2>1, <2>3
<1>7. ASSUME NEW s \in Scans, WriteParent(s) PROVE JobInv'
  <2>1. scan'[s].pc \in {"parent", "upsert"} /\ scan[s].pc = "parent"
    BY <1>7, WrittenParentState DEF WriteParent
  <2> QED  BY <1>7, <1>r, <2>1, WrittenParentState DEF WriteParent, Underway, Working
<1>8. ASSUME NEW s \in Scans, WriteParentFails(s) PROVE JobInv'
  <2>1. /\ scan[s].pc = "parent" /\ scan'[s].pc = "upsert" /\ jobs' = jobs
        /\ scan'[s].failed = scan[s].failed
        /\ \A p \in Scans \ {s} : scan'[p] = scan[p] /\ hist'[p].struck = hist[p].struck
        /\ hist'[s].struck = hist[s].struck \cup {"row"}
    <3>1. scan[s].pc = "parent" /\ Struck(s, "row") /\ jobs' = jobs
      BY <1>8 DEF WriteParentFails
    <3>2. /\ hist'[s].struck = hist[s].struck \cup {"row"}
          /\ \A p \in Scans \ {s} : hist'[p].struck = hist[p].struck
      BY <3>1, StruckState
    <3>3. /\ scan'[s].pc = "upsert" /\ scan'[s].failed = scan[s].failed
          /\ \A p \in Scans \ {s} : scan'[p] = scan[p]
      BY <1>8, GivenUpState
    <3> QED  BY <3>1, <3>2, <3>3
  <2> QED  BY <1>r, <2>1 DEF Underway, Working
<1>9. ASSUME NEW s \in Scans, WriteObject(s) PROVE JobInv'
  <2>1. CASE NextObject(s)
    BY <1>9, <1>n, <2>1 DEF WriteObject
  <2>2. CASE Goto(s, "unmark")
    BY <1>9, <1>r, <2>2, GotoState DEF WriteObject, Underway, Working
  <2> QED  BY <1>9, <2>1, <2>2 DEF WriteObject
<1>10. ASSUME NEW s \in Scans, WriteObjectFails(s) PROVE JobInv'
  BY <1>10, <1>n, StruckState DEF WriteObjectFails
<1>11. ASSUME NEW s \in Scans, UnmarkObject(s) PROVE JobInv'
  BY <1>11, <1>n DEF UnmarkObject
<1>12. ASSUME NEW s \in Scans, UnmarkObjectFails(s) PROVE JobInv'
  BY <1>12, <1>n DEF UnmarkObjectFails
<1>13. ASSUME NEW s \in Scans, CountMarked(s) PROVE JobInv'
  <2>1. PICK label \in {"delete", "finalize"} : Goto(s, label)
    BY <1>13 DEF CountMarked
  <2>2. scan[s].failed \/ ~ scan[s].more
    BY <1>0, <1>13 DEF CountMarked, JobOk
  <2> QED  BY <1>13, <1>r, <2>1, <2>2, GotoState DEF CountMarked, Underway, Working
<1>14. ASSUME NEW s \in Scans, DeleteMarkedRows(s) PROVE JobInv'
  <2>1. scan[s].failed \/ ~ scan[s].more
    BY <1>0, <1>14 DEF DeleteMarkedRows, JobOk
  <2> QED  BY <1>14, <1>r, <2>1, GotoState DEF DeleteMarkedRows, Underway, Working
<1>15. ASSUME NEW s \in Scans, CleanupFails(s) PROVE JobInv'
  <2>1. scan[s].failed \/ ~ scan[s].more
    BY <1>0, <1>15 DEF CleanupFails, JobOk
  <2>2. /\ scan[s].pc \in {"count", "delete"} /\ jobs' = jobs
        /\ scan'[s].pc = "finalize" /\ scan'[s].failed = scan[s].failed
        /\ scan'[s].more = scan[s].more
        /\ \A p \in Scans \ {s} : scan'[p] = scan[p] /\ hist'[p].struck = hist[p].struck
        /\ hist'[s].struck = hist[s].struck \cup {"clean"}
    BY <1>15, GotoState, StruckState DEF CleanupFails
  <2> QED  BY <1>r, <2>1, <2>2 DEF Underway, Working
<1>16. ASSUME NEW s \in Scans, Finalize(s) PROVE JobInv'
  <2>1. JobOk(s)'
    BY <1>0, <1>16, GotoState DEF Finalize, JobOk, Underway, Working
  <2> QED  BY <1>0, <1>16, <1>o, <2>1, GotoState DEF Finalize
<1>17. ASSUME NEW s \in Scans, FinalizeFails(s) PROVE JobInv'
  <2>1. JobOk(s)'
    BY <1>0, <1>17, GotoState, StruckState DEF FinalizeFails, JobOk, Underway, Working
  <2> QED  BY <1>17, <1>o, <2>1, GotoState, StruckState DEF FinalizeFails
<1>s. ASSUME NEW s \in Scans, ScanStep(s) PROVE JobInv'
  BY <1>s, <1>1, <1>2, <1>3, <1>4, <1>5, <1>6, <1>7, <1>8, <1>9, <1>10, <1>11, <1>12,
     <1>13, <1>14, <1>15, <1>16, <1>17 DEF ScanStep
<1>e. ASSUME NEW bucket, NEW changed, S3Changes(bucket, changed), scan' = scan, jobs' = jobs
      PROVE  JobInv'
  <2>1. ASSUME NEW p \in Scans PROVE hist'[p].struck = hist[p].struck
    BY <1>0, <1>e DEF S3Changes, ScanHistory
  <2> QED  BY <1>e, <1>q, <2>1
<1>18. ASSUME NEW q \in Requests, RequestStep(q) PROVE JobInv'
  <2>1. ASSUME NEW k \in Scope \ Folders, NEW v \in Versions, Upload(q, k, v) PROVE JobInv'
    BY <1>e, <2>1 DEF Upload
  <2>2. ASSUME NEW K \in SUBSET Scope \ {{}}, Delete(q, K) \/ DeletePartly(q, K) PROVE JobInv'
    BY <1>e, <2>2 DEF Delete, DeletePartly
  <2>3. ASSUME SyncUpload(q) \/ SyncDelete(q) \/ SyncFails(q) PROVE JobInv'
    BY <1>q, <2>3 DEF SyncUpload, SyncDelete, SyncFails
  <2> QED  BY <1>18, <2>1, <2>2, <2>3 DEF RequestStep
<1>19. CASE ExternalChange
  BY <1>e, <1>19 DEF ExternalChange
<1>20. CASE Kill
  <2>1. ASSUME NEW p \in Scans PROVE JobOk(p)'
    <3>1. CASE scan'[p] = scan[p]
      BY <1>0, <1>20, <3>1 DEF Kill, JobOk
    <3>2. CASE scan'[p].pc = "killed"
      BY <3>2 DEF JobOk, Underway, Working
    <3> QED  BY <1>20, <3>1, <3>2 DEF Kill, FreshScan
  <2> QED  BY <2>1 DEF JobInv
<1>21. CASE UNCHANGED vars
  BY <1>21, <1>q DEF vars
<1> QED  BY <1>s, <1>18, <1>19, <1>20, <1>21 DEF Next

(* The status of a finished job says what came of the listing:              *)
(* JobTellsOutcome holds of every reachable state.                          *)
THEOREM JobsTell == Spec => []JobTellsOutcome
<1>1. Init => JobInv
  BY DEF Init, JobInv, JobOk, FreshScan, Underway, Working
<1>2. TypeInv /\ JobInv => JobTellsOutcome
  BY DEF TypeInv, TypeOK, JobInv, JobOk, JobTellsOutcome
<1> QED  BY <1>1, <1>2, TypeInit, TypeStep, JobStep, PTL DEF Spec

-----------------------------------------------------------------------------
(* What is calm, and who is alone. *)

(* A step of scan s, which has begun its listing before, that leaves S3 and *)
(* the requests alone.                                                      *)
LEMMA CalmFrame ==
  ASSUME CalmInv, NEW s \in Scans, s3' = s3, req' = req,
         \A p \in Scans \ {s} : scan'[p] = scan[p],
         \A p \in Scans : /\ hist'[p].alone = hist[p].alone
                          /\ hist'[p].stable = hist[p].stable
                          /\ hist'[p].calm = hist[p].calm,
         scan'[s].pc \in Underway => scan[s].pc \in Underway,
         scan'[s].pc \in Working => scan[s].pc \in Working,
         scan'[s].pc \in Underway => \A k \in DOMAIN scan'[s].page :
           \/ k \in DOMAIN scan[s].page /\ scan'[s].page[k] = scan[s].page[k]
           \/ k \in Scope /\ scan'[s].page[k] = s3[k],
         scan'[s].pc = "parent" => TodoSet(s)' \subseteq AncestorSet(Current(s))'
  PROVE  CalmInv'
<1>1. RequestsInScope'
  BY DEF CalmInv, RequestsInScope
<1>2. ASSUME NEW p \in Scans PROVE CalmIsCalm(p)'
  <2>1. CalmIsCalm(p)
    BY DEF CalmInv
  <2>2. Present(s3)' = Present(s3)
    BY DEF Present
  <2>3. CASE p # s
    BY <2>1, <2>2, <2>3 DEF CalmIsCalm
  <2>4. CASE p = s
    BY <2>1, <2>2, <2>4 DEF CalmIsCalm
  <2> QED  BY <2>3, <2>4
<1>3. ASSUME NEW p \in Scans PROVE AloneIsAlone(p)'
  <2>1. AloneIsAlone(p) /\ \A r \in Scans : scan'[r].pc \in Working => scan[r].pc \in Working
    BY DEF CalmInv
  <2>2. scan'[p].pc \in Underway => scan[p].pc \in Underway
    OBVIOUS
  <2> QED  BY <2>1, <2>2 DEF AloneIsAlone
<1>4. ASSUME NEW p \in Scans PROVE InScope(p)'
  <2>1. InScope(p)
    BY DEF CalmInv
  <2>2. CASE p # s
    BY <2>1, <2>2 DEF InScope, TodoSet, Current
  <2>3. CASE p = s
    BY <2>1, <2>3 DEF InScope, AncestorSet
  <2> QED  BY <2>2, <2>3
<1> QED  BY <1>1, <1>2, <1>3, <1>4 DEF CalmInv

(* S3 changes, and what a request is about changed just now.                *)
LEMMA CalmChange ==
  ASSUME TypeInv, CalmInv, NEW bucket, NEW changed, S3Changes(bucket, changed), scan' = scan,
         RequestsInScope', \A k \in Objects \ changed : bucket[k] = s3[k],
         \A q \in Requests : req'[q].keys \subseteq req[q].keys \cup changed
  PROVE  CalmInv'
<1>1. ASSUME NEW p \in Scans
      PROVE  /\ hist'[p].alone = hist[p].alone /\ hist'[p].struck = hist[p].struck
             /\ hist'[p].stable = hist[p].stable \cap Present(s3')
             /\ hist'[p].calm = hist[p].calm \ changed
  BY DEF TypeInv, TypeOK, S3Changes, ScanHistory
<1>2. ASSUME NEW p \in Scans, scan[p].pc \in Underway PROVE CalmIsCalm(p)'
  <2>1. /\ hist[p].calm \cap Present(s3) \subseteq hist[p].stable
        /\ \A q \in Requests : req[q].keys \cap hist[p].calm = {}
        /\ \A k \in DOMAIN scan[p].page \cap hist[p].calm : scan[p].page[k] = s3[k]
    BY <1>2 DEF CalmInv, CalmIsCalm
  <2>2. hist[p].calm \subseteq Objects
    BY DEF TypeInv, TypeOK, ScanHistory
  <2>3. \A k \in hist'[p].calm : k \in hist[p].calm \ changed /\ s3'[k] = s3[k]
    BY <1>1, <2>2 DEF S3Changes
  <2>4. hist'[p].calm \cap Present(s3') \subseteq hist'[p].stable
    BY <1>1, <2>1, <2>3 DEF Present
  <2>5. \A q \in Requests : req'[q].keys \cap hist'[p].calm = {}
    BY <2>1, <2>3
  <2>6. \A k \in DOMAIN scan'[p].page \cap hist'[p].calm : scan'[p].page[k] = s3'[k]
    BY <2>1, <2>3
  <2> QED  BY <2>4, <2>5, <2>6 DEF CalmIsCalm, Present
<1>3. ASSUME NEW p \in Scans PROVE AloneIsAlone(p)' /\ InScope(p)'
  BY <1>1 DEF CalmInv, AloneIsAlone, InScope, TodoSet, Current
<1> QED  BY <1>2, <1>3 DEF CalmInv, CalmIsCalm

(* A step of scan s within its listing, or after it, that takes no new page.*)
LEMMA CalmWithin ==
  ASSUME CalmInv, NEW s \in Scans, s3' = s3, req' = req, hist' = hist \/ \E kind : Struck(s, kind),
         TypeInv, \A p \in Scans \ {s} : scan'[p] = scan[p],
         scan'[s].pc \in Underway => scan[s].pc \in Underway,
         scan'[s].pc \in Working => scan[s].pc \in Working,
         DOMAIN scan'[s].page \subseteq DOMAIN scan[s].page,
         \A k \in DOMAIN scan'[s].page : scan'[s].page[k] = scan[s].page[k],
         scan'[s].pc = "parent" => TodoSet(s)' \subseteq AncestorSet(Current(s))'
  PROVE  CalmInv'
<1>1. \A p \in Scans : /\ hist'[p].alone = hist[p].alone
                       /\ hist'[p].stable = hist[p].stable
                       /\ hist'[p].calm = hist[p].calm
  <2>1. CASE hist' = hist
    BY <2>1
  <2>2. ASSUME NEW kind, Struck(s, kind), NEW p \in Scans
        PROVE  /\ hist'[p].alone = hist[p].alone
               /\ hist'[p].stable = hist[p].stable
               /\ hist'[p].calm = hist[p].calm
    BY <2>2, StruckState
  <2> QED  BY <2>1, <2>2
<1> QED  BY <1>1, CalmFrame

(* A scan that takes up the next object has all the folders of it to write. *)
LEMMA FreshTodo ==
  ASSUME NEW s \in Scans,
         DOMAIN scan'[s].page # {} => scan'[s].todo = Ancestors[Least(DOMAIN scan'[s].page)],
         DOMAIN scan'[s].page = {} => scan'[s].pc \in {"list", "count"}
  PROVE  scan'[s].pc = "parent" => TodoSet(s)' \subseteq AncestorSet(Current(s))'
  BY DEF TodoSet, AncestorSet, Current

LEMMA CalmScanStep ==
  ASSUME TypeInv, SweepInv, CalmInv, NEW s \in Scans, ScanStep(s)
  PROVE  CalmInv'
<1>g. ASSUME NEW label, Goto(s, label), s3' = s3, req' = req,
             hist' = hist \/ \E kind : Struck(s, kind),
             label # "parent",
             label \in Underway => scan[s].pc \in Underway,
             label \in Working => scan[s].pc \in Working
      PROVE  CalmInv'
  BY <1>g, CalmWithin, GotoState
<1>n. ASSUME scan[s].pc \in {"upsert", "unmark"}, NextObject(s), s3' = s3, req' = req,
             hist' = hist \/ \E kind : Struck(s, kind)
      PROVE  CalmInv'
  <2>1. /\ scan[s].pc \in Working /\ scan[s].pc \in Underway
        /\ DOMAIN scan'[s].page \subseteq DOMAIN scan[s].page
        /\ \A k \in DOMAIN scan'[s].page : scan'[s].page[k] = scan[s].page[k]
        /\ \A p \in Scans \ {s} : scan'[p] = scan[p]
        /\ DOMAIN scan'[s].page # {} => scan'[s].todo = Ancestors[Least(DOMAIN scan'[s].page)]
        /\ DOMAIN scan'[s].page = {} => scan'[s].pc \in {"list", "count"}
    BY <1>n, NextObjectState DEF Underway, Working
  <2>2. scan'[s].pc = "parent" => TodoSet(s)' \subseteq AncestorSet(Current(s))'
    BY <2>1, FreshTodo
  <2> QED  BY <1>n, <2>1, <2>2, CalmWithin
<1>1. CASE Begin(s)
  BY <1>1, <1>g DEF Begin, Underway, Working
<1>2. CASE BeginFails(s)
  BY <1>2, <1>g DEF BeginFails, Underway, Working
<1>3. CASE MarkObjects(s)
  <2>1. /\ scan[s].pc = "mark" /\ scan'[s].pc = "list" /\ DOMAIN scan'[s].page = {}
        /\ s3' = s3 /\ req' = req /\ \A p \in Scans \ {s} : scan'[p] = scan[p]
        /\ hist'[s].alone => \A p \in Scans \ {s} : scan[p].pc \notin Working
        /\ hist'[s].stable = Present(s3) /\ hist'[s].calm = {k \in Objects : ~ InFlight(k)}
        /\ \A p \in Scans \ {s} : ~ hist'[p].alone /\ hist'[p].stable = hist[p].stable
                                  /\ hist'[p].calm = hist[p].calm
    BY <1>3, MarkedState DEF SweepInv, SweepOk, ListingState
  <2>2. RequestsInScope'
    BY <2>1 DEF CalmInv, RequestsInScope
  <2>3. ASSUME NEW p \in Scans \ {s} PROVE CalmIsCalm(p)' /\ AloneIsAlone(p)' /\ InScope(p)'
    <3>1. /\ scan'[p] = scan[p] /\ s3' = s3 /\ req' = req /\ ~ hist'[p].alone
          /\ hist'[p].stable = hist[p].stable /\ hist'[p].calm = hist[p].calm
      BY <2>1
    <3>2. CalmIsCalm(p)'
      BY <3>1 DEF CalmInv, CalmIsCalm, Present
    <3>3. AloneIsAlone(p)'
      BY <3>1 DEF AloneIsAlone
    <3>4. InScope(p)'
      BY <3>1 DEF CalmInv, InScope, TodoSet, Current
    <3> QED  BY <3>2, <3>3, <3>4
  <2>4. CalmIsCalm(s)'
    <3>1. \A q \in Requests : req[q].keys \cap hist'[s].calm = {}
      BY <2>1 DEF InFlight
    <3> QED  BY <2>1, <3>1 DEF CalmIsCalm, Present
  <2>5. AloneIsAlone(s)' /\ InScope(s)'
    BY <2>1 DEF AloneIsAlone, InScope
  <2> QED  BY <2>2, <2>3, <2>4, <2>5 DEF CalmInv
<1>4. CASE MarkObjectsFails(s)
  BY <1>4, <1>g DEF MarkObjectsFails, Underway, Working
<1>5. CASE ListPage(s)
  <2>1. /\ scan[s].pc = "list" /\ s3' = s3 /\ req' = req /\ hist' = hist
        /\ \A p \in Scans \ {s} : scan'[p] = scan[p]
        /\ \A k \in DOMAIN scan'[s].page : k \in Scope /\ scan'[s].page[k] = s3[k]
        /\ DOMAIN scan'[s].page # {} => scan'[s].todo = Ancestors[Least(DOMAIN scan'[s].page)]
        /\ DOMAIN scan'[s].page = {} => scan'[s].pc \in {"list", "count"}
    <3>1. scan[s].pc = "list" /\ s3' = s3 /\ req' = req /\ hist' = hist
      BY <1>5 DEF ListPage
    <3> QED  BY <1>5, <3>1, ListedState
  <2>2. scan'[s].pc = "parent" => TodoSet(s)' \subseteq AncestorSet(Current(s))'
    BY <2>1, FreshTodo
  <2> QED  BY <2>1, <2>2, CalmFrame DEF Underway, Working
<1>6. CASE ListPageFails(s)
  <2>1. scan[s].pc = "list" /\ s3' = s3 /\ req' = req /\ Struck(s, "list")
    BY <1>6 DEF ListPageFails
  <2> QED  BY <1>6, <2>1, CalmWithin, GivenUpState DEF Underway, Working
<1>7. CASE WriteParent(s)
  <2>1. scan[s].pc = "parent" /\ s3' = s3 /\ req' = req /\ hist' = hist
    BY <1>7 DEF WriteParent
  <2>2. TodoSet(s)' \subseteq AncestorSet(Current(s))
    BY <1>7, <2>1, WrittenParentState, TodoTail DEF CalmInv, InScope, Underway, Working
  <2>3. AncestorSet(Current(s))' = AncestorSet(Current(s))
    BY <1>7, WrittenParentState DEF Current, AncestorSet
  <2> QED  BY <1>7, <2>1, <2>2, <2>3, CalmWithin, WrittenParentState DEF Underway, Working
<1>8. CASE WriteParentFails(s)
  <2>1. scan[s].pc = "parent" /\ s3' = s3 /\ req' = req /\ Struck(s, "row")
    BY <1>8 DEF WriteParentFails
  <2> QED  BY <1>8, <2>1, CalmWithin, GivenUpState DEF Underway, Working
<1>9. CASE WriteObject(s)
  <2>1. /\ scan[s].pc = "upsert" /\ s3' = s3 /\ req' = req /\ hist' = hist
        /\ Goto(s, "unmark") \/ NextObject(s)
    BY <1>9 DEF WriteObject
  <2> QED  BY <1>g, <1>n, <2>1 DEF Underway, Working
<1>10. CASE WriteObjectFails(s)
  BY <1>10, <1>n DEF WriteObjectFails
<1>11. CASE UnmarkObject(s)
  BY <1>11, <1>n DEF UnmarkObject
<1>12. CASE UnmarkObjectFails(s)
  BY <1>12, <1>n DEF UnmarkObjectFails
<1>13. CASE CountMarked(s)
  BY <1>13, <1>g DEF CountMarked, Underway, Working
<1>14. CASE DeleteMarkedRows(s)
  BY <1>14, <1>g DEF DeleteMarkedRows, Underway, Working
<1>15. CASE CleanupFails(s)
  BY <1>15, <1>g DEF CleanupFails, Underway, Working
<1>16. CASE Finalize(s)
  BY <1>16, <1>g DEF Finalize, Underway, Working
<1>17. CASE FinalizeFails(s)
  BY <1>17, <1>g DEF FinalizeFails, Underway, Working
<1> QED
  BY <1>1, <1>2, <1>3, <1>4, <1>5, <1>6, <1>7, <1>8, <1>9, <1>10, <1>11, <1>12,
     <1>13, <1>14, <1>15, <1>16, <1>17 DEF ScanStep

(* A request changes its keys from none to those it has just touched in S3, *)
(* and then lets go of them one by one.                                     *)
LEMMA RequestKeys ==
  ASSUME TypeInv, NEW q \in Requests, NEW r \in Requests
  PROVE  /\ SyncUpload(q) \/ SyncDelete(q) \/ SyncFails(q) =>
              /\ req'[r].keys \subseteq req[r].keys
              /\ req'[r].op = "upload" => req[r].op = "upload"
         /\ \A k, v : Upload(q, k, v) =>
              req'[r] = req[r] \/ req'[r] = [op |-> "upload", keys |-> {k}, ver |-> v]
         /\ \A K : Delete(q, K) =>
              req'[r] = req[r] \/ req'[r] = [op |-> "delete", keys |-> K, ver |-> NoVersion]
<1>1. req \in [Requests -> RequestState]
  BY DEF TypeInv, TypeOK
<1>2. /\ IdleRequest.keys = {} /\ IdleRequest.op = "none"
      /\ \A k : /\ Without(req[q], k).keys \subseteq req[q].keys
                /\ Without(req[q], k).op \in {"none", req[q].op}
  BY <1>1 DEF IdleRequest, Without, RequestState
<1>3. ASSUME SyncUpload(q) \/ SyncDelete(q) \/ SyncFails(q)
      PROVE  \/ req'[r] = req[r]
             \/ q = r /\ req'[r] = IdleRequest
             \/ q = r /\ \E k : req'[r] = Without(req[r], k)
  BY <1>1, <1>3 DEF SyncUpload, SyncDelete, SyncFails
<1>4. ASSUME NEW k, NEW v, Upload(q, k, v)
      PROVE  req'[r] = req[r] \/ req'[r] = [op |-> "upload", keys |-> {k}, ver |-> v]
  BY <1>1, <1>4 DEF Upload
<1>5. ASSUME NEW K, Delete(q, K)
      PROVE  req'[r] = req[r] \/ req'[r] = [op |-> "delete", keys |-> K, ver |-> NoVersion]
  BY <1>1, <1>5 DEF Delete
<1> QED  BY <1>2, <1>3, <1>4, <1>5

LEMMA CalmStep == TypeInv /\ SweepInv /\ CalmInv /\ [Next]_vars => CalmInv'
<1> SUFFICES ASSUME TypeInv, SweepInv, CalmInv, [Next]_vars PROVE CalmInv'
  OBVIOUS
<1>0. /\ s3 \in [Objects -> Versions \cup {Absent}]
      /\ Scope \subseteq Objects /\ RequestsInScope
  BY ConstantsAssumption DEF TypeInv, TypeOK, CalmInv
<1>1. ASSUME NEW q \in Requests, RequestStep(q) PROVE CalmInv'
  <2>1. ASSUME NEW k \in Scope \ Folders, NEW v \in Versions, Upload(q, k, v) PROVE CalmInv'
    <3>1. S3Changes([s3 EXCEPT ![k] = v], {k}) /\ scan' = scan
      BY <2>1 DEF Upload
    <3>2. \A j \in Objects \ {k} : [s3 EXCEPT ![k] = v][j] = s3[j]
      BY <1>0
    <3>3. RequestsInScope' /\ \A r \in Requests : req'[r].keys \subseteq req[r].keys \cup {k}
      <4>1. \A r \in Requests :
              req'[r] = req[r] \/ req'[r] = [op |-> "upload", keys |-> {k}, ver |-> v]
        BY <2>1, RequestKeys
      <4> QED  BY <1>0, <4>1 DEF RequestsInScope
    <3> QED  BY <3>1, <3>2, <3>3, CalmChange
  <2>2. ASSUME NEW K \in SUBSET Scope \ {{}}, Delete(q, K) PROVE CalmInv'
    <3>1. S3Changes([k \in Objects |-> IF k \in K THEN Absent ELSE s3[k]], K) /\ scan' = scan
      BY <2>2 DEF Delete
    <3>2. RequestsInScope' /\ \A r \in Requests : req'[r].keys \subseteq req[r].keys \cup K
      <4>1. \A r \in Requests :
              req'[r] = req[r] \/ req'[r] = [op |-> "delete", keys |-> K, ver |-> NoVersion]
        BY <2>2, RequestKeys
      <4> QED  BY <1>0, <4>1 DEF RequestsInScope
    <3> QED  BY <3>1, <3>2, CalmChange
  <2>3. ASSUME NEW K \in SUBSET Scope \ {{}}, DeletePartly(q, K) PROVE CalmInv'
    <3>1. PICK D \in SUBSET K :
            S3Changes([k \in Objects |-> IF k \in D THEN Absent ELSE s3[k]], D)
      BY <2>3 DEF DeletePartly
    <3>2. scan' = scan /\ req' = req
      BY <2>3 DEF DeletePartly
    <3>3. RequestsInScope'
      BY <1>0, <3>2 DEF RequestsInScope
    <3> QED  BY <3>1, <3>2, <3>3, CalmChange
  <2>4. ASSUME SyncUpload(q) \/ SyncDelete(q) \/ SyncFails(q) PROVE CalmInv'
    <3>1. s3' = s3 /\ scan' = scan /\ hist' = hist
      BY <2>4, RequestsMarkNothing
    <3>2. \A r \in Requests : /\ req'[r].keys \subseteq req[r].keys
                              /\ req'[r].op = "upload" => req[r].op = "upload"
      BY <2>4, RequestKeys
    <3>3. RequestsInScope'
      BY <1>0, <3>2 DEF RequestsInScope
    <3>4. ASSUME NEW p \in Scans PROVE CalmIsCalm(p)' /\ AloneIsAlone(p)' /\ InScope(p)'
      <4>1. CalmIsCalm(p) /\ AloneIsAlone(p) /\ InScope(p)
        BY DEF CalmInv
      <4>2. CalmIsCalm(p)'
        BY <3>1, <3>2, <4>1 DEF CalmIsCalm, Present
      <4> QED  BY <3>1, <4>1, <4>2 DEF AloneIsAlone, InScope, TodoSet, Current
    <3> QED  BY <3>3, <3>4 DEF CalmInv
  <2> QED  BY <1>1, <2>1, <2>2, <2>3, <2>4 DEF RequestStep
<1>2. CASE ExternalChange
  <2>1. PICK k \in ExternalKeys, v \in Versions \cup {Absent} :
          S3Changes([s3 EXCEPT ![k] = v], {k})
    BY <1>2 DEF ExternalChange
  <2>2. \A j \in Objects \ {k} : [s3 EXCEPT ![k] = v][j] = s3[j]
    BY <1>0
  <2>3. scan' = scan /\ req' = req
    BY <1>2 DEF ExternalChange
  <2>4. RequestsInScope'
    BY <1>0, <2>3 DEF RequestsInScope
  <2> QED  BY <2>1, <2>2, <2>3, <2>4, CalmChange
<1>3. CASE Kill
  <2>1. \A p \in Scans : scan'[p].pc \notin Underway
    BY <1>3 DEF Kill, FreshScan, Underway, Working
  <2>2. RequestsInScope'
    BY <1>3 DEF Kill, RequestsInScope, IdleRequest
  <2> QED  BY <2>1, <2>2 DEF CalmInv, CalmIsCalm, AloneIsAlone, InScope
<1>4. CASE UNCHANGED vars
  BY <1>4 DEF vars, CalmInv, RequestsInScope, CalmIsCalm, AloneIsAlone, InScope, Present,
              TodoSet, Current
<1> QED  BY <1>1, <1>2, <1>3, <1>4, CalmScanStep DEF Next

LEMMA CalmInit == Init => CalmInv
  BY DEF Init, CalmInv, RequestsInScope, IdleRequest, CalmIsCalm, AloneIsAlone, InScope,
         FreshScan, Underway, Working

-----------------------------------------------------------------------------
(* The rows. *)

(* Nothing happened to the row of key k, if it has one.                     *)
RowStays(k) ==
  /\ k \in DOMAIN index' <=> k \in DOMAIN index
  /\ k \in DOMAIN index => index'[k] = index[k]

(* The keys whose rows scan s answers for.                                  *)
Settled(s) == ((Scope \cap hist[s].calm) \ Folders) \cup CalmFolders(s)

(* A scan keeps what it has achieved while others step, as long as they     *)
(* leave alone the rows of what is still calm.                              *)
LEMMA IndexFrame ==
  ASSUME TypeInv, CalmInv, NEW p \in Scans, IndexOk(p), scan'[p] = scan[p],
         hist'[p].alone => hist[p].alone, hist[p].struck \subseteq hist'[p].struck,
         hist'[p].calm \subseteq hist[p].calm,
         \A k \in hist'[p].calm : s3'[k] = s3[k],
         scan[p].pc \in Underway /\ Undisturbed(p)' =>
           \A k \in Settled(p)' : RowStays(k)
  PROVE  IndexOk(p)'
<1> SUFFICES ASSUME scan[p].pc \in Underway, Undisturbed(p)'
             PROVE  PresentWritten(p)' /\ AbsentMarked(p)'
  BY DEF IndexOk
<1>1. PresentWritten(p) /\ AbsentMarked(p)
  BY DEF IndexOk, Undisturbed
<1>2. \A k \in Settled(p)' : RowStays(k)
  OBVIOUS
<1>3. \A k \in (Scope \cap hist'[p].calm) \ Folders : RowShows(k) => RowShows(k)'
  BY <1>2 DEF Settled, RowStays, RowShows
<1>4. /\ CalmFolders(p)' \subseteq CalmFolders(p)
      /\ \A f \in CalmFolders(p)' : RowStays(f)
  <2>1. CalmFolders(p)' = {f \in Folders : Below(f) \subseteq hist'[p].calm}
    BY DEF CalmFolders, Below, AncestorSet
  <2> QED  BY <1>2, <2>1 DEF CalmFolders, Settled
<1>5. \A F : F \cap CalmFolders(p) \subseteq DOMAIN index
               => F \cap CalmFolders(p)' \subseteq DOMAIN index'
  BY <1>4 DEF RowStays
<1>6. Scope \cap hist'[p].calm \cap Present(s3') \subseteq hist[p].calm \cap Present(s3)
  BY DEF Present
<1>7. \A k : Awaited(p, k)' <=> Awaited(p, k)
  BY DEF Awaited
<1>8. Current(p)' = Current(p) /\ TodoSet(p)' = TodoSet(p)
  BY DEF Current, TodoSet
<1>9. scan[p].pc = "unmark" => Current(p) \in Scope
  BY CurrentInPage DEF CalmInv, InScope
<1>10. PresentWritten(p)'
  <2>1. ASSUME NEW k \in Scope \cap hist'[p].calm \cap Present(s3'),
               ~ (scan[p].pc \in Listing /\ Awaited(p, k))
        PROVE  InIndex(p, k)'
    <3>1. InIndex(p, k)
      BY <1>1, <1>6, <2>1 DEF PresentWritten
    <3>2. k \notin Folders => RowShows(k)'
      BY <1>3, <2>1, <3>1 DEF InIndex
    <3>3. AncestorSet(k) \cap CalmFolders(p)' \subseteq DOMAIN index'
      BY <1>5, <3>1 DEF InIndex
    <3> QED  BY <3>2, <3>3 DEF InIndex, AncestorSet
  <2> DEFINE left == AncestorSet(Current(p)) \ (IF scan[p].pc = "parent" THEN TodoSet(p) ELSE {})
  <2>2. ASSUME scan[p].pc \in {"parent", "upsert", "unmark"}
        PROVE  left \cap CalmFolders(p)' \subseteq DOMAIN index'
    <3>1. left \cap CalmFolders(p) \subseteq DOMAIN index
      BY <1>1, <2>2 DEF PresentWritten
    <3> HIDE DEF left
    <3> QED  BY <1>5, <3>1
  <2>3. ASSUME scan[p].pc = "unmark", Current(p) \in hist'[p].calm \ Folders
        PROVE  RowShows(Current(p))'
    BY <1>1, <1>3, <1>9, <2>3 DEF PresentWritten, RowShows, Current
  <2>4. /\ \A k \in Scope \cap hist'[p].calm \cap Present(s3)' :
             ~ (scan'[p].pc \in Listing /\ Awaited(p, k)') => InIndex(p, k)'
        /\ scan'[p].pc \in {"parent", "upsert", "unmark"} =>
             left \cap CalmFolders(p)' \subseteq DOMAIN index'
        /\ scan'[p].pc = "unmark" /\ Current(p) \in hist'[p].calm \ Folders
             => RowShows(Current(p))'
    BY <1>7, <2>1, <2>2, <2>3 DEF Present
  <2> QED  BY <1>8, <2>4 DEF PresentWritten, AncestorSet, RowShows
<1>11. AbsentMarked(p)'
  <2>1. ASSUME NEW k, Gone(p, k)' PROVE Gone(p, k) /\ k \in Settled(p)'
    <3>1. CASE k \in (Scope \cap hist'[p].calm) \ Folders /\ s3'[k] = Absent
      BY <3>1 DEF Gone, Settled
    <3>2. CASE k \in CalmFolders(p)' /\ Below(k) \cap Present(s3') = {}
      <4>1. k \in CalmFolders(p) /\ Below(k) \subseteq hist'[p].calm
        BY <1>4, <3>2 DEF CalmFolders, Below, AncestorSet
      <4>2. Below(k) \cap Present(s3) = {}
        BY <3>2, <4>1 DEF Present
      <4> QED  BY <3>2, <4>1, <4>2 DEF Gone, Settled
    <3> QED  BY <2>1, <3>1, <3>2 DEF Gone, Below, AncestorSet, Present
  <2> SUFFICES ASSUME DeletionSync, NEW k \in DOMAIN index', Gone(p, k)'
               PROVE  k \in MarkedKeys(index') /\ scan[p].pc # "finalize"
    BY DEF AbsentMarked
  <2>2. RowStays(k) /\ Gone(p, k)
    BY <1>2, <2>1
  <2> QED  BY <1>1, <2>2 DEF AbsentMarked, RowStays, MarkedKeys
<1> QED  BY <1>10, <1>11

(* The object in hand is there, unless somebody touched it, and so is an    *)
(* object below each of its folders.                                        *)
LEMMA CurrentIsThere ==
  ASSUME TypeInv, CalmInv, NEW s \in Scans, scan[s].pc \in {"parent", "upsert", "unmark"}
  PROVE  /\ Current(s) \in Scope
         /\ Current(s) \in hist[s].calm =>
              Current(s) \in Present(s3) /\ s3[Current(s)] = scan[s].page[Current(s)]
         /\ ~ Gone(s, Current(s))
         /\ \A f \in AncestorSet(Current(s)) \cap Folders : ~ Gone(s, f)
<1> DEFINE c == Current(s)
<1>1. c \in DOMAIN scan[s].page /\ c \in Objects /\ scan[s].page[c] \in Versions
  BY CurrentInPage
<1>2. c \in Scope
  BY <1>1 DEF CalmInv, InScope, Underway, Working
<1>3. c \in hist[s].calm => s3[c] = scan[s].page[c]
  BY <1>1 DEF CalmInv, CalmIsCalm, Underway, Working
<1>4. c \in hist[s].calm => c \in Present(s3)
  BY <1>1, <1>3, ConstantsAssumption DEF Present
<1>5. ASSUME NEW f \in AncestorSet(c) \cap Folders PROVE ~ Gone(s, f)
  <2>1. c \in Below(f)
    BY <1>2 DEF Below
  <2>2. f \in CalmFolders(s) => c \in hist[s].calm
    BY <2>1 DEF CalmFolders
  <2> QED  BY <1>4, <2>1, <2>2 DEF Gone
<1>6. ~ Gone(s, c)
  <2>1. CASE c \in Folders
    <3>1. c \in AncestorSet(c)
      BY <1>1, <2>1, MarkerAssumption DEF AncestorSet
    <3> QED  BY <1>5, <2>1, <3>1
  <2>2. CASE c \notin Folders
    BY <1>3, <1>4, <2>2 DEF Gone, CalmFolders, Present
  <2> QED  BY <2>1, <2>2
<1> QED  BY <1>2, <1>3, <1>4, <1>5, <1>6

(* The scan has taken up the next object, or has none: what is not to come  *)
(* any more has its rows.                                                   *)
LEMMA FreshWritten ==
  ASSUME NEW s \in Scans,
         DOMAIN scan'[s].page # {} =>
           /\ scan'[s].todo = Ancestors[Least(DOMAIN scan'[s].page)]
           /\ scan'[s].pc = IF Ancestors[Least(DOMAIN scan'[s].page)] # <<>>
                            THEN "parent" ELSE "upsert",
         DOMAIN scan'[s].page = {} => scan'[s].pc = IF scan'[s].more THEN "list" ELSE "count",
         \A k \in Scope \cap hist'[s].calm \cap Present(s3)' :
           ~ Awaited(s, k)' => InIndex(s, k)'
  PROVE  PresentWritten(s)'
<1>1. \A k : Awaited(s, k)' => scan'[s].pc \in Listing
  BY DEF Awaited, Listing
<1>2. ASSUME scan'[s].pc \in {"parent", "upsert", "unmark"}
      PROVE  AncestorSet(Current(s))' \
               (IF scan'[s].pc = "parent" THEN TodoSet(s)' ELSE {}) = {}
  <2>1. CASE scan'[s].pc = "parent"
    BY <2>1 DEF Current, TodoSet, AncestorSet
  <2>2. CASE scan'[s].pc = "upsert"
    <3>1. Ancestors[Current(s)'] = <<>>
      BY <2>2 DEF Current
    <3> QED  BY <2>2, <3>1 DEF AncestorSet
  <2> QED  BY <1>2, <2>1, <2>2
<1>3. scan'[s].pc # "unmark"
  OBVIOUS
<1>4. \A k \in Scope \cap hist'[s].calm \cap Present(s3)' :
        ~ (scan'[s].pc \in Listing /\ Awaited(s, k)') => InIndex(s, k)'
  BY <1>1
<1> QED  BY <1>2, <1>3, <1>4 DEF PresentWritten, AncestorSet

LEMMA NextObjectWritten ==
  ASSUME TypeInv, CalmInv, NEW s \in Scans, scan[s].pc \in {"upsert", "unmark"}, NextObject(s),
         PresentWritten(s), s3' = s3, hist'[s].calm = hist[s].calm,
         DOMAIN index \subseteq DOMAIN index',
         \A k \in DOMAIN index \ {Current(s)} : index'[k].ver = index[k].ver,
         \A k \in hist[s].calm \ Folders : k = Current(s) => RowShows(k)'
  PROVE  PresentWritten(s)'
<1>1. /\ scan'[s].token = scan[s].token /\ scan'[s].more = scan[s].more
      /\ DOMAIN scan'[s].page = DOMAIN scan[s].page \ {Current(s)}
      /\ DOMAIN scan'[s].page # {} =>
           /\ scan'[s].todo = Ancestors[Least(DOMAIN scan'[s].page)]
           /\ scan'[s].pc = IF Ancestors[Least(DOMAIN scan'[s].page)] # <<>>
                            THEN "parent" ELSE "upsert"
      /\ DOMAIN scan'[s].page = {} => scan'[s].pc = IF scan'[s].more THEN "list" ELSE "count"
  BY NextObjectState
<1>2. CalmFolders(s)' = CalmFolders(s)
  BY DEF CalmFolders, Below, AncestorSet
<1>3. \A k \in Scope \ {Current(s)} : InIndex(s, k) => InIndex(s, k)'
  BY <1>2 DEF InIndex, RowShows, AncestorSet
<1>4. ASSUME NEW k \in Scope \cap hist[s].calm \cap Present(s3), ~ Awaited(s, k)'
      PROVE  InIndex(s, k)'
  <2>1. CASE k = Current(s)
    <3>1. AncestorSet(Current(s)) \cap CalmFolders(s) \subseteq DOMAIN index
      BY DEF PresentWritten
    <3>2. AncestorSet(k) \cap CalmFolders(s)' \subseteq DOMAIN index'
      BY <1>2, <2>1, <3>1
    <3>3. k \notin Folders => RowShows(k)'
      BY <2>1
    <3> QED  BY <3>2, <3>3 DEF InIndex, AncestorSet
  <2>2. CASE k # Current(s)
    <3>1. ~ Awaited(s, k)
      BY <1>1, <1>4, <2>2 DEF Awaited
    <3> QED  BY <1>3, <2>2, <3>1 DEF PresentWritten
  <2> QED  BY <2>1, <2>2
<1>5. Present(s3)' = Present(s3)
  BY DEF Present
<1> QED  BY <1>1, <1>4, <1>5, FreshWritten

(* A step of scan s itself.                                                 *)
LEMMA IndexOwnStep ==
  ASSUME TypeInv, SweepInv, CalmInv, NEW s \in Scans, IndexOk(s), ScanStep(s)
  PROVE  IndexOk(s)'
<1>0. /\ Scope \subseteq Objects /\ Objects \subseteq Nat \ {0}
      /\ ListingState(s)
  BY ConstantsAssumption DEF SweepInv, SweepOk
(* A step that ends what IndexOk speaks of, or does not begin it.           *)
<1>d. ASSUME scan'[s].pc \notin Underway \/ hist'[s].struck \cap {"list", "row", "clean"} # {}
      PROVE  IndexOk(s)'
  BY <1>d DEF IndexOk, Undisturbed
(* What carries over when neither S3 nor the history changes.               *)
<1>c. ASSUME s3' = s3, hist'[s].calm = hist[s].calm
      PROVE  /\ Present(s3)' = Present(s3) /\ CalmFolders(s)' = CalmFolders(s)
             /\ \A k : Gone(s, k)' <=> Gone(s, k)
  <2>1. Present(s3)' = Present(s3) /\ CalmFolders(s)' = CalmFolders(s)
    BY <1>c DEF Present, CalmFolders, Below, AncestorSet
  <2>2. \A k : Gone(s, k)' <=> Gone(s, k)
    BY <1>c, <2>1 DEF Gone, Below, AncestorSet
  <2> QED  BY <2>1, <2>2
<1>n. ASSUME scan[s].pc \in {"upsert", "unmark"}, NextObject(s), s3' = s3,
             hist'[s].calm = hist[s].calm, hist'[s].alone => hist[s].alone,
             hist[s].struck \subseteq hist'[s].struck,
             DOMAIN index' \subseteq DOMAIN index \cup {Current(s)},
             DOMAIN index \subseteq DOMAIN index',
             \A k \in DOMAIN index \ {Current(s)} : index'[k] = index[k],
             Undisturbed(s) =>
               \A k \in hist[s].calm \ Folders : k = Current(s) => RowShows(k)'
      PROVE  IndexOk(s)'
  <2> SUFFICES ASSUME Undisturbed(s)' PROVE PresentWritten(s)' /\ AbsentMarked(s)'
    BY DEF IndexOk
  <2>1. Undisturbed(s) /\ PresentWritten(s) /\ AbsentMarked(s)
    BY <1>n DEF Undisturbed, IndexOk, Underway, Working
  <2>2. PresentWritten(s)'
    BY <1>n, <2>1, NextObjectWritten
  <2>3. scan'[s].pc \in {"parent", "upsert", "list", "count"}
    BY <1>n, NextObjectState
  <2>4. ASSUME DeletionSync, NEW k \in DOMAIN index', Gone(s, k)' PROVE k \in MarkedKeys(index')
    <3>1. Gone(s, k) /\ k # Current(s)
      BY <1>c, <1>n, <2>4, CurrentIsThere
    <3> QED  BY <1>n, <2>1, <2>4, <3>1 DEF AbsentMarked, MarkedKeys
  <2> QED  BY <2>2, <2>3, <2>4 DEF AbsentMarked
<1>1. ASSUME Begin(s) \/ BeginFails(s) PROVE IndexOk(s)'
  <2>1. Goto(s, "mark") \/ Goto(s, "done")
    BY <1>1 DEF Begin, BeginFails
  <2> QED  BY <1>d, <2>1, GotoState DEF Underway, Working
<1>3. ASSUME MarkObjects(s) PROVE IndexOk(s)'
  <2>1. /\ scan'[s].pc = "list" /\ scan'[s].more /\ scan'[s].token = 0
        /\ index' = IF DeletionSync THEN MarkAll(index) ELSE index
    BY <1>0, <1>3, MarkedState DEF ListingState
  <2>2. \A k \in Scope : Awaited(s, k)'
    BY <1>0, <2>1 DEF Awaited
  <2>3. PresentWritten(s)'
    BY <2>1, <2>2 DEF PresentWritten, Listing
  <2>4. DeletionSync => MarkedKeys(index') = DOMAIN index'
    BY <2>1 DEF MarkAll, MarkedKeys, SetMark
  <2> QED  BY <2>1, <2>3, <2>4 DEF IndexOk, AbsentMarked
<1>4. ASSUME MarkObjectsFails(s) PROVE IndexOk(s)'
  BY <1>4, <1>d, GotoState DEF MarkObjectsFails, Underway, Working
<1>5. ASSUME ListPage(s) PROVE IndexOk(s)'
  <2>1. scan[s].pc = "list" /\ s3' = s3 /\ index' = index /\ hist' = hist
    BY <1>5 DEF ListPage
  <2> SUFFICES ASSUME Undisturbed(s) PROVE PresentWritten(s)' /\ AbsentMarked(s)'
    BY <2>1 DEF IndexOk, Undisturbed
  <2>2. PresentWritten(s) /\ AbsentMarked(s)
    BY <2>1 DEF IndexOk, Underway, Working
  <2>3. /\ \A k \in Scope : s3[k] # Absent /\ k > scan[s].token =>
             k \in DOMAIN scan'[s].page \/ (scan'[s].more /\ k > scan'[s].token)
        /\ DOMAIN scan'[s].page # {} =>
             /\ scan'[s].todo = Ancestors[Least(DOMAIN scan'[s].page)]
             /\ scan'[s].pc = IF Ancestors[Least(DOMAIN scan'[s].page)] # <<>>
                              THEN "parent" ELSE "upsert"
        /\ DOMAIN scan'[s].page = {} => scan'[s].pc = IF scan'[s].more THEN "list" ELSE "count"
    BY <1>5, ListedState
  <2>4. ASSUME NEW k \in Scope \cap hist[s].calm \cap Present(s3), ~ Awaited(s, k)'
        PROVE  InIndex(s, k)'
    <3>1. DOMAIN scan[s].page = {}
      BY <1>0, <2>1 DEF ListingState
    <3>2. ~ Awaited(s, k)
      BY <2>3, <2>4, <3>1 DEF Awaited, Present
    <3>3. InIndex(s, k)
      BY <2>2, <2>4, <3>2 DEF PresentWritten
    <3> QED  BY <1>c, <2>1, <3>3 DEF InIndex, RowShows, AncestorSet
  <2>5. PresentWritten(s)'
    BY <1>c, <2>1, <2>3, <2>4, FreshWritten
  <2>6. AbsentMarked(s)'
    BY <1>c, <2>1, <2>2, <2>3 DEF AbsentMarked, MarkedKeys
  <2> QED  BY <2>5, <2>6
<1>6. ASSUME ListPageFails(s) PROVE IndexOk(s)'
  BY <1>6, <1>d, StruckGrows DEF ListPageFails
<1>7. ASSUME WriteParent(s) PROVE IndexOk(s)'
  <2> DEFINE f == Head(scan[s].todo)
  <2>1. /\ scan[s].pc = "parent" /\ s3' = s3 /\ hist' = hist
        /\ index' = Upsert(index, f, NoVersion, TRUE)
    BY <1>7 DEF WriteParent
  <2> SUFFICES ASSUME Undisturbed(s) PROVE PresentWritten(s)' /\ AbsentMarked(s)'
    BY <2>1 DEF IndexOk, Undisturbed
  <2>2. PresentWritten(s) /\ AbsentMarked(s)
    BY <2>1 DEF IndexOk, Underway, Working
  <2>3. /\ scan'[s].pc = IF Tail(scan[s].todo) = <<>> THEN "upsert" ELSE "parent"
        /\ scan'[s].page = scan[s].page /\ scan'[s].token = scan[s].token
        /\ scan'[s].more = scan[s].more
    BY <1>7, WrittenParentState
  <2>4. /\ f \in Folders \cap TodoSet(s)
        /\ TodoSet(s) \subseteq {f} \cup TodoSet(s)'
        /\ Tail(scan[s].todo) = <<>> => TodoSet(s) = {f}
    BY <1>7, <2>1, TodoTail, WrittenParentState
  <2>5. f \in AncestorSet(Current(s)) /\ ~ Gone(s, f)
    <3>1. f \in AncestorSet(Current(s))
      BY <2>1, <2>4 DEF CalmInv, InScope, Underway, Working
    <3> HIDE DEF f
    <3> QED  BY <2>1, <2>4, <3>1, CurrentIsThere
  <2>6. DOMAIN index' = DOMAIN index \cup {f} /\ \A k \in DOMAIN index \ {f} : index'[k] = index[k]
    BY <2>1, SMT DEF Upsert
  <2> HIDE DEF f
  <2>7. \A k : InIndex(s, k) => InIndex(s, k)'
    BY <1>c, <2>1, <2>4, <2>6 DEF InIndex, RowShows, AncestorSet
  <2>8. Current(s)' = Current(s) /\ \A k : Awaited(s, k)' <=> Awaited(s, k)
    BY <2>3 DEF Current, Awaited
  <2>9. PresentWritten(s)'
    <3>1. \A k \in Scope \cap hist'[s].calm \cap Present(s3)' :
            ~ (scan'[s].pc \in Listing /\ Awaited(s, k)') => InIndex(s, k)'
      BY <1>c, <2>1, <2>2, <2>3, <2>7, <2>8 DEF PresentWritten, Listing
    <3>2. (AncestorSet(Current(s)) \ (IF scan'[s].pc = "parent" THEN TodoSet(s)' ELSE {}))
            \cap CalmFolders(s) \subseteq DOMAIN index'
      <4>1. (AncestorSet(Current(s)) \ TodoSet(s)) \cap CalmFolders(s) \subseteq DOMAIN index
        BY <2>1, <2>2 DEF PresentWritten
      <4> QED  BY <2>3, <2>4, <2>6, <4>1
    <3>3. scan'[s].pc # "unmark"
      BY <2>3
    <3> QED  BY <1>c, <2>1, <2>8, <3>1, <3>2, <3>3 DEF PresentWritten, AncestorSet
  <2>10. AbsentMarked(s)'
    <3>1. ASSUME DeletionSync, NEW k \in DOMAIN index', Gone(s, k)' PROVE k \in MarkedKeys(index')
      <4>1. Gone(s, k) /\ k # f
        BY <1>c, <2>1, <2>5, <3>1
      <4> QED  BY <2>2, <2>6, <3>1, <4>1 DEF AbsentMarked, MarkedKeys
    <3> QED  BY <2>3, <3>1 DEF AbsentMarked
  <2> QED  BY <2>9, <2>10
<1>8. ASSUME WriteParentFails(s) PROVE IndexOk(s)'
  BY <1>8, <1>d, StruckGrows DEF WriteParentFails
<1>9. ASSUME WriteObject(s) PROVE IndexOk(s)'
  <2> DEFINE c == Current(s)
  <2>1. /\ scan[s].pc = "upsert" /\ s3' = s3 /\ hist' = hist
        /\ index' = Upsert(index, c, scan[s].page[c], FALSE)
    BY <1>9 DEF WriteObject
  <2>2. /\ DOMAIN index' = DOMAIN index \cup {c} /\ index'[c].ver = scan[s].page[c]
        /\ \A k \in DOMAIN index \ {c} : index'[k] = index[k]
    BY <2>1, SMT DEF Upsert
  <2>3. \A k \in hist[s].calm : k = c => RowShows(k)'
    BY <2>1, <2>2, CurrentIsThere DEF RowShows
  <2>4. CASE NextObject(s)
    BY <1>n, <2>1, <2>2, <2>3, <2>4
  <2>5. CASE Goto(s, "unmark")
    <3>1. /\ scan'[s].pc = "unmark" /\ scan'[s].page = scan[s].page
          /\ scan'[s].token = scan[s].token /\ scan'[s].more = scan[s].more
      BY <2>5, GotoState
    <3> SUFFICES ASSUME Undisturbed(s) PROVE PresentWritten(s)' /\ AbsentMarked(s)'
      BY <2>1 DEF IndexOk, Undisturbed
    <3>2. PresentWritten(s) /\ AbsentMarked(s)
      BY <2>1 DEF IndexOk, Underway, Working
    <3>3. Current(s)' = c /\ \A k : Awaited(s, k)' <=> Awaited(s, k)
      BY <3>1 DEF Current, Awaited
    <3>4. c \in DOMAIN scan[s].page
      BY <2>1, CurrentInPage
    <3> HIDE DEF c
    <3>5. ASSUME NEW k \in Scope \cap hist[s].calm \cap Present(s3), ~ Awaited(s, k)
          PROVE  InIndex(s, k)'
      <4>1. k # c /\ InIndex(s, k)
        BY <3>2, <3>4, <3>5 DEF Awaited, PresentWritten
      <4> QED  BY <1>c, <2>1, <2>2, <4>1 DEF InIndex, RowShows, AncestorSet
    <3>6. AncestorSet(c) \cap CalmFolders(s) \subseteq DOMAIN index'
      BY <2>1, <2>2, <3>2 DEF PresentWritten, c
    <3>7. PresentWritten(s)'
      <4>1. \A k \in Scope \cap hist'[s].calm \cap Present(s3)' :
              ~ (scan'[s].pc \in Listing /\ Awaited(s, k)') => InIndex(s, k)'
        BY <1>c, <2>1, <3>1, <3>3, <3>5 DEF Listing
      <4>2. c \in hist[s].calm \ Folders => c \in DOMAIN index' /\ index'[c].ver = s3[c]
        BY <2>1, <2>3 DEF RowShows
      <4> QED  BY <1>c, <2>1, <3>1, <3>3, <3>6, <4>1, <4>2 DEF PresentWritten, AncestorSet, RowShows
    <3>8. AbsentMarked(s)'
      <4>1. ASSUME DeletionSync, NEW k \in DOMAIN index', Gone(s, k)'
            PROVE  k \in MarkedKeys(index')
        <5>1. Gone(s, k) /\ k # c
          BY <1>c, <2>1, <4>1, CurrentIsThere DEF c
        <5> QED  BY <2>2, <3>2, <4>1, <5>1 DEF AbsentMarked, MarkedKeys
      <4> QED  BY <3>1, <4>1 DEF AbsentMarked
    <3> QED  BY <3>7, <3>8
  <2> QED  BY <1>9, <2>4, <2>5 DEF WriteObject
<1>10. ASSUME WriteObjectFails(s) PROVE IndexOk(s)'
  BY <1>10, <1>d, StruckGrows DEF WriteObjectFails
(* The object was written before the query that takes away its mark.        *)
<1>u. ASSUME scan[s].pc = "unmark", s3' = s3, Undisturbed(s),
             NEW k \in hist[s].calm \ Folders, k = Current(s)
      PROVE  RowShows(k)
  BY <1>u DEF IndexOk, PresentWritten, Underway, Working
<1>11. ASSUME UnmarkObject(s) PROVE IndexOk(s)'
  <2>1. /\ scan[s].pc = "unmark" /\ s3' = s3 /\ hist' = hist /\ NextObject(s)
        /\ index' = Unmark(index, Current(s))
    BY <1>11 DEF UnmarkObject
  <2>2. /\ DOMAIN index' = DOMAIN index
        /\ \A k \in DOMAIN index \ {Current(s)} : index'[k] = index[k]
        /\ \A k \in DOMAIN index : index'[k].ver = index[k].ver
    BY <2>1 DEF Unmark, SetMark
  <2>3. Undisturbed(s) => \A k \in hist[s].calm \ Folders : k = Current(s) => RowShows(k)'
    BY <1>u, <2>1, <2>2 DEF RowShows
  <2> QED  BY <1>n, <2>1, <2>2, <2>3
<1>12. ASSUME UnmarkObjectFails(s) PROVE IndexOk(s)'
  <2>1. /\ scan[s].pc = "unmark" /\ s3' = s3 /\ index' = index /\ NextObject(s)
        /\ hist' = hist
    BY <1>12 DEF UnmarkObjectFails
  <2>2. Undisturbed(s) => \A k \in hist[s].calm \ Folders : k = Current(s) => RowShows(k)'
    BY <1>u, <2>1 DEF RowShows
  <2> QED  BY <1>n, <2>1, <2>2
<1>13. ASSUME CountMarked(s) PROVE IndexOk(s)'
  <2>1. scan[s].pc = "count" /\ s3' = s3 /\ index' = index /\ hist' = hist
    BY <1>13 DEF CountMarked
  <2> SUFFICES ASSUME Undisturbed(s) PROVE PresentWritten(s)' /\ AbsentMarked(s)'
    BY <2>1 DEF IndexOk, Undisturbed
  <2>2. PresentWritten(s) /\ AbsentMarked(s)
    BY <2>1 DEF IndexOk, Underway, Working
  <2>3. /\ scan'[s].pc \in {"delete", "finalize"}
        /\ scan'[s].pc = "finalize" => ~ DeletionSync \/ MarkedKeys(index) = {}
    BY <1>13, GotoState DEF CountMarked
  <2>4. PresentWritten(s)'
    BY <1>c, <2>1, <2>2, <2>3 DEF PresentWritten, Listing, InIndex, RowShows, AncestorSet
  <2>5. AbsentMarked(s)'
    BY <1>c, <2>1, <2>2, <2>3 DEF AbsentMarked, MarkedKeys
  <2> QED  BY <2>4, <2>5
<1>14. ASSUME DeleteMarkedRows(s) PROVE IndexOk(s)'
  <2>1. /\ scan[s].pc = "delete" /\ s3' = s3 /\ hist' = hist /\ Goto(s, "finalize")
        /\ index' = DeleteMarked(index)
    BY <1>14 DEF DeleteMarkedRows
  <2> SUFFICES ASSUME Undisturbed(s) PROVE PresentWritten(s)' /\ AbsentMarked(s)'
    BY <2>1 DEF IndexOk, Undisturbed
  <2>2. PresentWritten(s) /\ AbsentMarked(s)
    BY <2>1 DEF IndexOk, Underway, Working
  <2>3. scan'[s].pc = "finalize"
    BY <2>1, GotoState
  <2>4. /\ DOMAIN index' = DOMAIN index \ MarkedKeys(index)
        /\ \A k \in DOMAIN index' : index'[k] = index[k]
    BY <2>1 DEF DeleteMarked
  <2>5. ASSUME NEW k \in Scope \cap hist[s].calm \cap Present(s3) PROVE InIndex(s, k)'
    <3>1. InIndex(s, k)
      BY <2>1, <2>2 DEF PresentWritten, Listing
    <3>2. ({k} \cup AncestorSet(k)) \cap MarkedKeys(index) = {}
      <4>1. k \in hist[s].stable
        BY <2>1 DEF CalmInv, CalmIsCalm, Underway, Working
      <4>2. KeptCovered(s)
        BY <2>1 DEF SweepInv, SweepOk, Trusted, Undisturbed, Working
      <4> QED  BY <2>1, <4>1, <4>2 DEF KeptCovered, Covered
    <3>3. k \notin Folders => RowShows(k)'
      BY <2>1, <2>4, <3>1, <3>2 DEF InIndex, RowShows
    <3>4. AncestorSet(k) \cap CalmFolders(s) \subseteq DOMAIN index'
      BY <2>4, <3>1, <3>2 DEF InIndex
    <3> QED  BY <1>c, <2>1, <3>3, <3>4 DEF InIndex, AncestorSet
  <2>6. PresentWritten(s)'
    BY <1>c, <2>1, <2>3, <2>5 DEF PresentWritten
  <2>7. AbsentMarked(s)'
    BY <1>c, <2>1, <2>2, <2>4 DEF AbsentMarked
  <2> QED  BY <2>6, <2>7
<1>15. ASSUME CleanupFails(s) PROVE IndexOk(s)'
  BY <1>15, <1>d, StruckGrows DEF CleanupFails
<1>16. ASSUME Finalize(s) \/ FinalizeFails(s) PROVE IndexOk(s)'
  BY <1>16, <1>d, GotoState DEF Finalize, FinalizeFails, Underway, Working
<1> QED
  BY <1>1, <1>3, <1>4, <1>5, <1>6, <1>7, <1>8, <1>9, <1>10, <1>11, <1>12,
     <1>13, <1>14, <1>15, <1>16 DEF ScanStep

(* What a step of scan s does to another scan.                              *)
LEMMA OtherScans ==
  ASSUME TypeInv, NEW s \in Scans, ScanStep(s), NEW p \in Scans \ {s}
  PROVE  /\ s3' = s3 /\ scan'[p] = scan[p]
         /\ MarkObjects(s) \/ (/\ hist'[p] = hist[p]
                               /\ index' = index \/ scan[s].pc \in Working)
<1>g. \A label : Goto(s, label) => scan'[p] = scan[p]
  BY GotoState
<1>k. \A kind : Struck(s, kind) => hist'[p] = hist[p]
  BY StruckState
<1>n. scan[s].pc \in {"upsert", "unmark"} /\ NextObject(s) => scan'[p] = scan[p]
  BY NextObjectState
<1>1. CASE Begin(s)              BY <1>1, <1>g DEF Begin
<1>2. CASE BeginFails(s)         BY <1>2, <1>g, <1>k DEF BeginFails
<1>3. CASE MarkObjects(s)        BY <1>3, MarkedState
<1>4. CASE MarkObjectsFails(s)   BY <1>4, <1>g, <1>k DEF MarkObjectsFails
<1>5. CASE ListPage(s)
  <2>1. scan'[p] = scan[p]
    BY <1>5, ListedState
  <2> QED  BY <1>5, <2>1 DEF ListPage
<1>6. CASE ListPageFails(s)
  <2>1. scan'[p] = scan[p]
    BY <1>6, GivenUpState
  <2> QED  BY <1>6, <1>k, <2>1 DEF ListPageFails
<1>7. CASE WriteParent(s)
  <2>1. scan'[p] = scan[p]
    BY <1>7, WrittenParentState
  <2> QED  BY <1>7, <2>1 DEF WriteParent, Working
<1>8. CASE WriteParentFails(s)
  <2>1. scan'[p] = scan[p]
    BY <1>8, GivenUpState
  <2> QED  BY <1>8, <1>k, <2>1 DEF WriteParentFails
<1>9. CASE WriteObject(s)
  <2>1. /\ scan[s].pc = "upsert" /\ s3' = s3 /\ hist' = hist
        /\ Goto(s, "unmark") \/ NextObject(s)
    BY <1>9 DEF WriteObject
  <2> QED  BY <1>g, <1>n, <2>1 DEF Working
<1>10. CASE WriteObjectFails(s)  BY <1>10, <1>n, <1>k DEF WriteObjectFails
<1>11. CASE UnmarkObject(s)      BY <1>11, <1>n DEF UnmarkObject, Working
<1>12. CASE UnmarkObjectFails(s) BY <1>12, <1>n, <1>k DEF UnmarkObjectFails
<1>13. CASE CountMarked(s)       BY <1>13, <1>g DEF CountMarked
<1>14. CASE DeleteMarkedRows(s)  BY <1>14, <1>g DEF DeleteMarkedRows, Working
<1>15. CASE CleanupFails(s)      BY <1>15, <1>g, <1>k DEF CleanupFails
<1>16. CASE Finalize(s)          BY <1>16, <1>g DEF Finalize
<1>17. CASE FinalizeFails(s)     BY <1>17, <1>g, <1>k DEF FinalizeFails
<1> QED
  BY <1>1, <1>2, <1>3, <1>4, <1>5, <1>6, <1>7, <1>8, <1>9, <1>10, <1>11, <1>12,
     <1>13, <1>14, <1>15, <1>16, <1>17 DEF ScanStep

(* The query with which a request ends touches no row a scan answers for.   *)
LEMMA RequestRow ==
  ASSUME TypeInv, CalmInv, NEW q \in Requests, SyncUpload(q) \/ SyncDelete(q) \/ SyncFails(q),
         NEW p \in Scans, scan[p].pc \in Underway
  PROVE  \A k \in Settled(p) : RowStays(k)
<1>1. /\ req[q].keys \subseteq Scope /\ req[q].keys \cap hist[p].calm = {}
      /\ req[q].op = "upload" => req[q].keys \cap Folders = {}
  BY DEF CalmInv, RequestsInScope, CalmIsCalm
<1>2. ASSUME NEW j \in req[q].keys PROVE j \notin CalmFolders(p)
  <2>1. CASE j \in Folders
    <3>1. j \in Below(j)
      BY <1>1, <2>1, MarkerAssumption, ConstantsAssumption DEF Below, AncestorSet
    <3> QED  BY <1>1, <3>1 DEF CalmFolders
  <2>2. CASE j \notin Folders
    BY <2>2 DEF CalmFolders
  <2> QED  BY <2>1, <2>2
<1>3. req[q].keys \cap Settled(p) = {}
  BY <1>1, <1>2 DEF Settled
<1>4. CASE SyncUpload(q)
  <2>1. PICK j \in req[q].keys : index' = Upsert(index, j, req[q].ver, j \in Folders)
    BY <1>4 DEF SyncUpload
  <2>2. \A k : k # j => RowStays(k)
    BY <2>1, SMT DEF Upsert, RowStays
  <2> QED  BY <1>3, <2>2
<1>5. CASE SyncDelete(q)
  <2>1. PICK j \in req[q].keys : index' = DeleteRow(index, j)
    BY <1>5 DEF SyncDelete
  <2>2. \A k : k # j => RowStays(k)
    BY <2>1, SMT DEF DeleteRow, RowStays
  <2> QED  BY <1>3, <2>2
<1>6. CASE SyncFails(q)
  BY <1>6 DEF SyncFails, RowStays
<1> QED  BY <1>4, <1>5, <1>6

LEMMA IndexStep == TypeInv /\ SweepInv /\ CalmInv /\ IndexInv /\ [Next]_vars => IndexInv'
<1> SUFFICES ASSUME TypeInv, SweepInv, CalmInv, IndexInv, [Next]_vars, NEW p \in Scans
             PROVE  IndexOk(p)'
  BY DEF IndexInv
<1>0. IndexOk(p) /\ s3 \in [Objects -> Versions \cup {Absent}]
  BY DEF IndexInv, TypeInv, TypeOK
<1>1. ASSUME NEW s \in Scans, ScanStep(s) PROVE IndexOk(p)'
  <2>1. CASE p = s
    BY <1>0, <1>1, <2>1, IndexOwnStep
  <2>2. CASE p # s /\ MarkObjects(s)
    <3>1. ~ hist'[p].alone
      BY <2>2, MarkedState
    <3> QED  BY <3>1 DEF IndexOk, Undisturbed
  <2>3. CASE p # s /\ ~ MarkObjects(s)
    <3>1. /\ s3' = s3 /\ scan'[p] = scan[p] /\ hist'[p] = hist[p]
          /\ index' = index \/ scan[s].pc \in Working
      BY <1>1, <2>3, OtherScans
    <3>2. scan[p].pc \in Underway /\ Undisturbed(p)' => index' = index
      BY <2>3, <3>1 DEF CalmInv, AloneIsAlone, Undisturbed
    <3>3. index' = index => \A k \in Settled(p)' : RowStays(k)
      BY DEF RowStays
    <3> QED  BY <1>0, <3>1, <3>2, <3>3, IndexFrame
  <2> QED  BY <2>1, <2>2, <2>3
<1>e. ASSUME NEW bucket, NEW changed, S3Changes(bucket, changed), scan' = scan, index' = index,
             \A k \in Objects \ changed : bucket[k] = s3[k]
      PROVE  IndexOk(p)'
  <2>1. /\ hist'[p].alone = hist[p].alone /\ hist'[p].struck = hist[p].struck
        /\ hist'[p].calm = hist[p].calm \ changed /\ hist[p].calm \subseteq Objects
    BY <1>e DEF TypeInv, TypeOK, S3Changes, ScanHistory
  <2>2. \A k \in hist'[p].calm : s3'[k] = s3[k]
    BY <1>e, <2>1 DEF S3Changes
  <2>3. \A k \in Settled(p)' : RowStays(k)
    BY <1>e DEF RowStays
  <2> QED  BY <1>0, <1>e, <2>1, <2>2, <2>3, IndexFrame
<1>2. ASSUME NEW q \in Requests, RequestStep(q) PROVE IndexOk(p)'
  <2>1. ASSUME NEW k \in Scope \ Folders, NEW v \in Versions, Upload(q, k, v) PROVE IndexOk(p)'
    <3>1. \A j \in Objects \ {k} : [s3 EXCEPT ![k] = v][j] = s3[j]
      BY <1>0
    <3> QED  BY <1>e, <2>1, <3>1 DEF Upload
  <2>2. ASSUME NEW K \in SUBSET Scope \ {{}}, Delete(q, K) PROVE IndexOk(p)'
    <3>1. /\ S3Changes([k \in Objects |-> IF k \in K THEN Absent ELSE s3[k]], K)
          /\ scan' = scan /\ index' = index
      BY <2>2 DEF Delete
    <3> QED  BY <1>e, <3>1
  <2>3. ASSUME NEW K \in SUBSET Scope \ {{}}, DeletePartly(q, K) PROVE IndexOk(p)'
    <3>1. PICK D \in SUBSET K :
            S3Changes([k \in Objects |-> IF k \in D THEN Absent ELSE s3[k]], D)
      BY <2>3 DEF DeletePartly
    <3>2. scan' = scan /\ index' = index
      BY <2>3 DEF DeletePartly
    <3> QED  BY <1>e, <3>1, <3>2
  <2>4. ASSUME SyncUpload(q) \/ SyncDelete(q) \/ SyncFails(q) PROVE IndexOk(p)'
    <3>1. s3' = s3 /\ scan' = scan /\ hist' = hist
      BY <2>4, RequestsMarkNothing
    <3>2. Settled(p)' = Settled(p)
      BY <3>1 DEF Settled, CalmFolders, Below, AncestorSet
    <3>3. scan[p].pc \in Underway => \A k \in Settled(p)' : RowStays(k)
      BY <2>4, <3>2, RequestRow
    <3> QED  BY <1>0, <3>1, <3>3, IndexFrame
  <2> QED  BY <1>2, <2>1, <2>2, <2>3, <2>4 DEF RequestStep
<1>3. CASE ExternalChange
  <2>1. PICK k \in ExternalKeys, v \in Versions \cup {Absent} :
          S3Changes([s3 EXCEPT ![k] = v], {k})
    BY <1>3 DEF ExternalChange
  <2>2. \A j \in Objects \ {k} : [s3 EXCEPT ![k] = v][j] = s3[j]
    BY <1>0
  <2> QED  BY <1>3, <1>e, <2>1, <2>2 DEF ExternalChange
<1>4. CASE Kill
  <2>1. scan'[p].pc \notin Underway
    BY <1>4 DEF Kill, FreshScan, Underway, Working
  <2> QED  BY <2>1 DEF IndexOk
<1>5. CASE UNCHANGED vars
  <2>1. /\ s3' = s3 /\ scan' = scan /\ hist' = hist
        /\ \A k \in Settled(p)' : RowStays(k)
    BY <1>5 DEF vars, RowStays
  <2> QED  BY <1>0, <2>1, IndexFrame
<1> QED  BY <1>1, <1>2, <1>3, <1>4, <1>5 DEF Next

(* After an undisturbed scan the rows agree with the bucket:                *)
(* SweptIndexMatchesBucket holds of every reachable state.                  *)
THEOREM IndexMatches == Spec => []SweptIndexMatchesBucket
<1>1. Init => IndexInv
  BY DEF Init, IndexInv, IndexOk, FreshScan, Underway, Working
<1>2. IndexInv => SweptIndexMatchesBucket
  <2> SUFFICES ASSUME IndexInv, NEW s \in Scans, scan[s].pc = "finalize", Undisturbed(s)
               PROVE  /\ \A k \in (Scope \cap hist[s].calm) \ Folders :
                           /\ s3[k] # Absent => k \in DOMAIN index /\ index[k].ver = s3[k]
                           /\ DeletionSync /\ s3[k] = Absent => k \notin DOMAIN index
                      /\ \A f \in Folders : Below(f) \subseteq hist[s].calm =>
                           /\ Below(f) \cap Present(s3) # {} => f \in DOMAIN index
                           /\ DeletionSync /\ Below(f) \cap Present(s3) = {}
                                => f \notin DOMAIN index
    BY DEF SweptIndexMatchesBucket
  <2>1. PresentWritten(s) /\ AbsentMarked(s)
    BY DEF IndexInv, IndexOk, Underway
  <2>2. \A k \in Scope \cap hist[s].calm \cap Present(s3) : InIndex(s, k)
    BY <2>1 DEF PresentWritten, Listing
  <2>3. DeletionSync => \A k \in DOMAIN index : ~ Gone(s, k)
    BY <2>1 DEF AbsentMarked
  <2>4. ASSUME NEW k \in (Scope \cap hist[s].calm) \ Folders
        PROVE  /\ s3[k] # Absent => k \in DOMAIN index /\ index[k].ver = s3[k]
               /\ DeletionSync /\ s3[k] = Absent => k \notin DOMAIN index
    <3>1. k \in Objects
      BY ConstantsAssumption
    <3> QED  BY <2>2, <2>3, <3>1 DEF InIndex, RowShows, Gone, Present
  <2>5. ASSUME NEW f \in Folders, Below(f) \subseteq hist[s].calm
        PROVE  /\ Below(f) \cap Present(s3) # {} => f \in DOMAIN index
               /\ DeletionSync /\ Below(f) \cap Present(s3) = {} => f \notin DOMAIN index
    <3>1. f \in CalmFolders(s)
      BY <2>5 DEF CalmFolders
    <3>2. \A k \in Below(f) : k \in Scope \cap hist[s].calm /\ f \in AncestorSet(k)
      BY <2>5 DEF Below
    <3>3. Below(f) \cap Present(s3) # {} => f \in DOMAIN index
      BY <2>2, <3>1, <3>2 DEF InIndex
    <3> QED  BY <2>3, <3>1, <3>3 DEF Gone
  <2> QED  BY <2>4, <2>5
<1> QED
  BY <1>1, <1>2, TypeInit, TypeStep, SweepInit, SweepStep, CalmInit, CalmStep, IndexStep, PTL
     DEF Spec
=============================================================================
