------------------------- MODULE BucketSelectionProofs -------------------------
(***************************************************************************)
(* Theorems about BucketSelection, for any buckets, keys and number of      *)
(* browsers.  The argument is about a selection that nobody is changing     *)
(* (Still): both copies name one bucket then, and as only the beginning of  *)
(* a switch puts an end to it, and clears hist.quiet and hist.fresh, what a *)
(* request in hist.quiet or a page in hist.fresh has read is what it will   *)
(* find.                                                                    *)
(***************************************************************************)
EXTENDS BucketSelection, TLAPS

SwitchStates == {"svctext", "app", "apptext"}

(* While one switch is at work alone, what it has written is its bucket.    *)
SwitchInv(u) ==
  /\ req[u].pc = "svctext" => svc.length = req[u].bucket
  /\ req[u].pc = "app" => svc.text = req[u].bucket /\ svc.length = req[u].bucket
  /\ req[u].pc = "apptext" => /\ svc.text = req[u].bucket /\ svc.length = req[u].bucket
                              /\ app.length = req[u].bucket

SelectionInv ==
  /\ app.locked => \A u \in Users : req[u].pc \notin SwitchStates
  /\ ~ hist.crossed =>
       /\ \A u, w \in Users :
            req[u].pc \in SwitchStates /\ req[w].pc \in SwitchStates => u = w
       /\ \A u \in Users : SwitchInv(u)
       /\ (\A u \in Users : req[u].pc \notin SwitchStates)
            => app.text = app.length /\ svc.text = app.text /\ svc.length = app.text

(* What quiet requests and fresh pages stand on.                            *)
ReadersInv ==
  /\ hist.quiet \cup hist.fresh # {} => Still
  /\ \A u \in hist.quiet : req[u].pc \in {"row", "norow"} => req[u].bucket = Bucket(app)
  /\ \A u \in hist.fresh : seen[u] # NoBucket => seen[u] = Bucket(app)

Inv == TypeOK /\ SelectionInv /\ ReadersInv

-----------------------------------------------------------------------------
(* Requests and histories *)

LEMMA Became ==
  ASSUME TypeOK, NEW u \in Users, NEW r, Become(u, r)
  PROVE  req'[u] = r /\ \A w \in Users \ {u} : req'[w] = req[w]
  BY DEF TypeOK, Become

LEMMA Went ==
  ASSUME TypeOK, NEW u \in Users, NEW label, Goto(u, label)
  PROVE  /\ req'[u].pc = label /\ req'[u].bucket = req[u].bucket /\ req'[u].keys = req[u].keys
         /\ \A w \in Users \ {u} : req'[w] = req[w]
  BY DEF TypeOK, Goto

LEMMA SelectedName ==
  ASSUME TypeOK
  PROVE  /\ app.text \in Names /\ svc.text \in Names /\ Garbage \notin Names
         /\ Bucket(app) \in Names \cup {Garbage} /\ Bucket(svc) \in Names \cup {Garbage}
  BY ConstantsAssumption DEF TypeOK, Selection, Names, Bucket

(* A selection nobody is changing is one bucket, in both copies.            *)
LEMMA StillAgrees ==
  ASSUME TypeOK, SelectionInv, Still
  PROVE  Bucket(app) = Bucket(svc) /\ Bucket(app) # Garbage
<1>1. \A u \in Users : req[u].pc \notin SwitchStates
  BY DEF Still, Switching, SwitchStates
<1> QED  BY <1>1, SelectedName DEF Still, SelectionInv, Bucket

-----------------------------------------------------------------------------
(* Type correctness *)

LEMMA TypeInit == Init => TypeOK
<1> SUFFICES ASSUME Init PROVE TypeOK
  OBVIOUS
<1>1. app \in Selection /\ svc \in Selection
  <2>1. PICK b \in Configs : app = Selected(b) /\ svc = app
    BY DEF Init
  <2>2. b \in Names /\ Prefixed \in BOOLEAN /\ (b # NoBucket) \in BOOLEAN
    BY ConstantsAssumption DEF Names
  <2>3. \A locked \in BOOLEAN :
          [text |-> b, length |-> b, prefix |-> Prefixed, locked |-> locked] \in Selection
    BY <2>2 DEF Selection
  <2>4. Selected(b) \in Selection
    BY <2>2, <2>3, Zenon DEF Selected
  <2> QED  BY <2>1, <2>4
<1>2. /\ req = [u \in Users |-> Idle] /\ seen = [u \in Users |-> NoBucket]
      /\ s3 \in [Buckets -> SUBSET Keys] /\ index = s3 /\ accessible = Buckets
      /\ hist = [crossed |-> FALSE, quiet |-> {}, fresh |-> {}]
  BY DEF Init
<1>3. req \in [Users -> [pc : {"idle", "svctext", "app", "apptext", "empty", "list", "row", "norow"},
                          bucket : Names, keys : SUBSET Keys]]
  BY <1>2 DEF Idle, Names
<1>4. seen \in [Users -> Names] /\ hist \in SelectionHistory
  BY <1>2 DEF Names, SelectionHistory
<1> QED  BY <1>1, <1>2, <1>3, <1>4 DEF TypeOK

LEMMA TypeStep == TypeOK /\ [Next]_vars => TypeOK'
<1> SUFFICES ASSUME TypeOK, [Next]_vars PROVE TypeOK'
  OBVIOUS
<1> DEFINE Request == [pc : {"idle", "svctext", "app", "apptext", "empty", "list", "row", "norow"},
                       bucket : Names, keys : SUBSET Keys]
<1>0. /\ app \in Selection /\ svc \in Selection /\ Buckets \subseteq Names
      /\ req \in [Users -> Request] /\ Idle \in Request
  BY DEF TypeOK, Idle, Names
<1>b. ASSUME NEW u \in Users, NEW r \in Request, Become(u, r) PROVE req' \in [Users -> Request]
  BY <1>0, <1>b DEF Become
<1>g. ASSUME NEW u \in Users, Goto(u, "app") \/ Goto(u, "apptext") \/ Goto(u, "empty") \/ Goto(u, "list")
      PROVE  req' \in [Users -> Request]
  BY <1>0, <1>g DEF Goto
<1>h. ASSUME NEW u \in Users, NEW test
      PROVE  /\ [hist EXCEPT !.quiet = With(@, u, test)] \in SelectionHistory
             /\ [hist EXCEPT !.fresh = With(@, u, test)] \in SelectionHistory
  BY DEF TypeOK, SelectionHistory, With
<1>1. ASSUME NEW u \in Users, NEW b \in Buckets, AskSwitch(u, b) PROVE TypeOK'
  <2>1. svc' \in Selection
    BY <1>0, <1>1 DEF AskSwitch, Selection
  <2>2. [pc |-> "svctext", bucket |-> b, keys |-> {}] \in Request
    BY <1>0
  <2>3. hist' \in SelectionHistory
    BY <1>1 DEF AskSwitch, SwitchBegins, SelectionHistory
  <2> QED  BY <1>0, <1>1, <1>b, <2>1, <2>2, <2>3 DEF AskSwitch, TypeOK
<1>2. ASSUME NEW u \in Users, SwitchService(u) PROVE TypeOK'
  <2>1. svc' \in Selection
    BY <1>0, <1>2 DEF SwitchService, Selection
  <2> QED  BY <1>0, <1>2, <1>g, <2>1 DEF SwitchService, TypeOK
<1>3. ASSUME NEW u \in Users, SwitchApp(u) PROVE TypeOK'
  <2>1. app' \in Selection
    BY <1>0, <1>3 DEF SwitchApp, Selection
  <2> QED  BY <1>0, <1>3, <1>g, <2>1 DEF SwitchApp, TypeOK
<1>4. ASSUME NEW u \in Users, SwitchAppText(u) PROVE TypeOK'
  <2>1. app' \in Selection
    BY <1>0, <1>4 DEF SwitchAppText, Selection
  <2>2. [pc |-> "empty", bucket |-> NoBucket, keys |-> {}] \in Request
    BY DEF Names
  <2> QED  BY <1>0, <1>4, <1>b, <2>1, <2>2 DEF SwitchAppText, TypeOK
<1>5. ASSUME NEW u \in Users, View(u) PROVE TypeOK'
  BY <1>0, <1>5, <1>g DEF View, TypeOK
<1>6. ASSUME NEW u \in Users, CheckEmpty(u) PROVE TypeOK'
  <2>1. req' \in [Users -> Request] /\ seen' \in [Users -> Names]
    BY <1>0, <1>6, <1>b, <1>g DEF CheckEmpty, TypeOK, Names
  <2> QED  BY <1>0, <1>6, <2>1 DEF CheckEmpty, TypeOK
<1>7. ASSUME NEW u \in Users, List(u) PROVE TypeOK'
  <2>1. req' \in [Users -> Request] /\ seen' \in [Users -> Names]
    BY <1>0, <1>7, <1>b DEF List, TypeOK, Names
  <2> QED  BY <1>0, <1>7, <1>h, <2>1 DEF List, TypeOK
<1>8. ASSUME NEW u \in Users, NEW k \in Keys, Upload(u, k) PROVE TypeOK'
  <2>1. Bucket(svc) \in Buckets /\ s3' = [s3 EXCEPT ![Bucket(svc)] = @ \cup {k}]
    BY <1>8 DEF Upload
  <2>2. s3' \in [Buckets -> SUBSET Keys]
    BY <2>1 DEF TypeOK
  <2>3. [pc |-> "row", bucket |-> Bucket(svc), keys |-> {k}] \in Request
    BY <1>0, <2>1
  <2> QED  BY <1>0, <1>8, <1>b, <1>h, <2>2, <2>3 DEF Upload, TypeOK
<1>9. ASSUME NEW u \in Users, NEW K \in SUBSET Keys, Delete(u, K) PROVE TypeOK'
  <2>1. Bucket(svc) \in Buckets /\ s3' = [s3 EXCEPT ![Bucket(svc)] = @ \ K]
    BY <1>9 DEF Delete
  <2>2. s3' \in [Buckets -> SUBSET Keys]
    BY <2>1 DEF TypeOK
  <2>3. [pc |-> "norow", bucket |-> Bucket(svc), keys |-> K] \in Request
    BY <1>0, <2>1
  <2> QED  BY <1>0, <1>9, <1>b, <1>h, <2>2, <2>3 DEF Delete, TypeOK
<1>10. ASSUME NEW u \in Users, SyncUpload(u) \/ SyncDelete(u) PROVE TypeOK'
  <2>1. index' \in [Buckets -> SUBSET Keys]
    BY <1>0, <1>10 DEF SyncUpload, SyncDelete, TypeOK
  <2>2. [Idle EXCEPT !.pc = "empty"] \in Request
    BY <1>0
  <2> QED  BY <1>0, <1>10, <1>b, <2>1, <2>2 DEF SyncUpload, SyncDelete, TypeOK
<1>11. CASE AccessChanges
  BY <1>11 DEF AccessChanges, TypeOK
<1>12. CASE UNCHANGED vars
  BY <1>12 DEF vars, TypeOK
<1> QED
  BY <1>1, <1>2, <1>3, <1>4, <1>5, <1>6, <1>7, <1>8, <1>9, <1>10, <1>11, <1>12
     DEF Next, UserStep

-----------------------------------------------------------------------------
(* The selection *)

LEMMA SelectionInit == Init => SelectionInv
<1> SUFFICES ASSUME Init PROVE SelectionInv
  OBVIOUS
<1>1. \A u \in Users : req[u].pc \notin SwitchStates
  BY DEF Init, Idle, SwitchStates
<1>2. app.text = app.length /\ svc = app
  BY DEF Init, Selected
<1> QED  BY <1>1, <1>2 DEF SelectionInv, SwitchInv, SwitchStates

(* A step that switches nothing.                                            *)
LEMMA SelectionRests ==
  ASSUME SelectionInv, app' = app, svc' = svc, hist'.crossed = hist.crossed,
         \A u \in Users :
           \/ req'[u] = req[u]
           \/ req[u].pc \notin SwitchStates /\ req'[u].pc \notin SwitchStates
  PROVE  SelectionInv'
<1>1. \A u \in Users : req'[u].pc \in SwitchStates <=> req[u].pc \in SwitchStates
  OBVIOUS
<1>2. \A u \in Users : req[u].pc \in SwitchStates => req'[u] = req[u]
  OBVIOUS
<1>3. \A u \in Users : SwitchInv(u) => SwitchInv(u)'
  BY <1>1, <1>2 DEF SwitchInv, SwitchStates
<1> QED  BY <1>1, <1>3 DEF SelectionInv

LEMMA SelectionStep == TypeOK /\ SelectionInv /\ [Next]_vars => SelectionInv'
<1> SUFFICES ASSUME TypeOK, SelectionInv, [Next]_vars PROVE SelectionInv'
  OBVIOUS
<1>0. app \in Selection /\ svc \in Selection /\ hist \in SelectionHistory
  BY DEF TypeOK
(* The rest of a step of the switch that u is at.                           *)
<1>s. ASSUME NEW u \in Users, req[u].pc \in SwitchStates, ~ hist.crossed
      PROVE  \A w \in Users \ {u} : req[w].pc \notin SwitchStates
  BY <1>s DEF SelectionInv
<1>1. ASSUME NEW u \in Users, NEW b \in Buckets, AskSwitch(u, b) PROVE SelectionInv'
  <2>1. /\ req[u].pc = "idle" /\ ~ app.locked /\ app' = app
        /\ svc'.length = b /\ hist'.crossed = (Switching # {})
    BY <1>0, <1>1 DEF AskSwitch, Selection, SwitchBegins, Idle
  <2>2. req'[u].pc = "svctext" /\ req'[u].bucket = b /\ \A w \in Users \ {u} : req'[w] = req[w]
    BY <1>1, Became DEF AskSwitch
  <2>3. ASSUME ~ hist'.crossed PROVE \A w \in Users \ {u} : req'[w].pc \notin SwitchStates
    BY <2>1, <2>2, <2>3 DEF Switching, SwitchStates
  <2>4. ~ hist'.crossed => \A w \in Users : SwitchInv(w)'
    BY <2>1, <2>2, <2>3 DEF SwitchInv, SwitchStates
  <2> QED  BY <2>1, <2>2, <2>3, <2>4 DEF SelectionInv, SwitchStates
<1>2. ASSUME NEW u \in Users, SwitchService(u) PROVE SelectionInv'
  <2>1. /\ req[u].pc = "svctext" /\ app' = app /\ hist' = hist
        /\ svc'.text = req[u].bucket /\ svc'.length = svc.length
    BY <1>0, <1>2 DEF SwitchService, Selection
  <2>2. /\ req'[u].pc = "app" /\ req'[u].bucket = req[u].bucket
        /\ \A w \in Users \ {u} : req'[w] = req[w]
    BY <1>2, Went DEF SwitchService
  <2>3. ~ hist.crossed => \A w \in Users \ {u} : req'[w].pc \notin SwitchStates
    BY <1>s, <2>1, <2>2 DEF SwitchStates
  <2>4. ~ hist.crossed => \A w \in Users : SwitchInv(w)'
    BY <2>1, <2>2, <2>3 DEF SelectionInv, SwitchInv, SwitchStates
  <2> QED  BY <2>1, <2>2, <2>3, <2>4 DEF SelectionInv, SwitchStates
<1>3. ASSUME NEW u \in Users, SwitchApp(u) PROVE SelectionInv'
  <2>1. /\ req[u].pc = "app" /\ svc' = svc /\ hist' = hist
        /\ app'.length = req[u].bucket /\ app'.locked = app.locked
    BY <1>0, <1>3 DEF SwitchApp, Selection
  <2>2. /\ req'[u].pc = "apptext" /\ req'[u].bucket = req[u].bucket
        /\ \A w \in Users \ {u} : req'[w] = req[w]
    BY <1>3, Went DEF SwitchApp
  <2>3. ~ hist.crossed => \A w \in Users \ {u} : req'[w].pc \notin SwitchStates
    BY <1>s, <2>1, <2>2 DEF SwitchStates
  <2>4. ~ hist.crossed => \A w \in Users : SwitchInv(w)'
    BY <2>1, <2>2, <2>3 DEF SelectionInv, SwitchInv, SwitchStates
  <2> QED  BY <2>1, <2>2, <2>3, <2>4 DEF SelectionInv, SwitchStates
<1>4. ASSUME NEW u \in Users, SwitchAppText(u) PROVE SelectionInv'
  <2>1. /\ req[u].pc = "apptext" /\ svc' = svc /\ hist' = hist
        /\ app'.text = req[u].bucket /\ app'.length = app.length /\ app'.locked = app.locked
    BY <1>0, <1>4 DEF SwitchAppText, Selection
  <2>2. req'[u].pc = "empty" /\ \A w \in Users \ {u} : req'[w] = req[w]
    BY <1>4, Became DEF SwitchAppText
  <2>3. ~ hist.crossed => \A w \in Users : req'[w].pc \notin SwitchStates
    BY <1>s, <2>1, <2>2 DEF SwitchStates
  <2>4. ~ hist.crossed => /\ app'.length = app'.text /\ svc'.text = app'.text /\ svc'.length = app'.text
    BY <2>1 DEF SelectionInv, SwitchInv
  <2> QED  BY <2>1, <2>2, <2>3, <2>4 DEF SelectionInv, SwitchInv, SwitchStates
<1>5. ASSUME NEW u \in Users, View(u) \/ CheckEmpty(u) \/ List(u) PROVE SelectionInv'
  <2>1. /\ app' = app /\ svc' = svc /\ hist'.crossed = hist.crossed
        /\ req[u].pc \notin SwitchStates
    BY <1>0, <1>5 DEF View, CheckEmpty, List, SelectionHistory, Idle, SwitchStates
  <2>2. Goto(u, "empty") \/ Goto(u, "list") \/ Become(u, Idle)
    BY <1>5 DEF View, CheckEmpty, List
  <2>3. req'[u].pc \notin SwitchStates /\ \A w \in Users \ {u} : req'[w] = req[w]
    BY <2>2, Became, Went DEF Idle, SwitchStates
  <2> QED  BY <2>1, <2>3, SelectionRests
<1>6. ASSUME NEW u \in Users, NEW k \in Keys, Upload(u, k) PROVE SelectionInv'
  <2>1. /\ app' = app /\ svc' = svc /\ hist'.crossed = hist.crossed
        /\ req[u].pc \notin SwitchStates
    BY <1>0, <1>6 DEF Upload, SelectionHistory, Idle, SwitchStates
  <2>2. Become(u, [pc |-> "row", bucket |-> Bucket(svc), keys |-> {k}])
    BY <1>6 DEF Upload
  <2>3. req'[u].pc \notin SwitchStates /\ \A w \in Users \ {u} : req'[w] = req[w]
    BY <2>2, Became DEF SwitchStates
  <2> QED  BY <2>1, <2>3, SelectionRests
<1>7. ASSUME NEW u \in Users, NEW K \in SUBSET Keys, Delete(u, K) PROVE SelectionInv'
  <2>1. /\ app' = app /\ svc' = svc /\ hist'.crossed = hist.crossed
        /\ req[u].pc \notin SwitchStates
    BY <1>0, <1>7 DEF Delete, SelectionHistory, Idle, SwitchStates
  <2>2. Become(u, [pc |-> "norow", bucket |-> Bucket(svc), keys |-> K])
    BY <1>7 DEF Delete
  <2>3. req'[u].pc \notin SwitchStates /\ \A w \in Users \ {u} : req'[w] = req[w]
    BY <2>2, Became DEF SwitchStates
  <2> QED  BY <2>1, <2>3, SelectionRests
<1>8. ASSUME NEW u \in Users, SyncUpload(u) \/ SyncDelete(u) PROVE SelectionInv'
  <2>1. /\ app' = app /\ svc' = svc /\ hist' = hist
        /\ req[u].pc \notin SwitchStates
    BY <1>8 DEF SyncUpload, SyncDelete, SwitchStates
  <2>2. Become(u, [Idle EXCEPT !.pc = "empty"])
    BY <1>8 DEF SyncUpload, SyncDelete
  <2>3. req'[u].pc \notin SwitchStates /\ \A w \in Users \ {u} : req'[w] = req[w]
    BY <2>2, Became DEF Idle, SwitchStates
  <2> QED  BY <2>1, <2>3, SelectionRests
<1>9. CASE AccessChanges \/ UNCHANGED vars
  BY <1>9, SelectionRests DEF AccessChanges, vars
<1> QED
  BY <1>1, <1>2, <1>3, <1>4, <1>5, <1>6, <1>7, <1>8, <1>9 DEF Next, UserStep

-----------------------------------------------------------------------------
(* What quiet requests and fresh pages stand on *)

(* Nobody begins or ends a switch, and nobody but u moves.                  *)
Calmly(u) ==
  /\ app' = app /\ svc' = svc /\ hist'.crossed = hist.crossed
  /\ req[u].pc \notin SwitchStates /\ req'[u].pc \notin SwitchStates
  /\ \A w \in Users \ {u} : req'[w] = req[w]

LEMMA StillRests ==
  ASSUME NEW u \in Users, Calmly(u)
  PROVE  (Still <=> Still') /\ Bucket(app)' = Bucket(app)
<1>1. Switching' = Switching
  BY DEF Calmly, Switching, SwitchStates
<1> QED  BY <1>1 DEF Calmly, Still, Bucket

LEMMA ReadersInit == Init => ReadersInv
  BY DEF Init, ReadersInv

LEMMA ReadersStep == TypeOK /\ SelectionInv /\ ReadersInv /\ [Next]_vars => ReadersInv'
<1> SUFFICES ASSUME TypeOK, SelectionInv, ReadersInv, [Next]_vars PROVE ReadersInv'
  OBVIOUS
<1>0. hist \in SelectionHistory /\ seen \in [Users -> Names]
  BY DEF TypeOK
<1>a. ASSUME Still PROVE Bucket(svc) = Bucket(app)
  BY <1>a, StillAgrees
<1>1. ASSUME NEW u \in Users, NEW b \in Buckets, AskSwitch(u, b) PROVE ReadersInv'
  BY <1>1 DEF AskSwitch, SwitchBegins, ReadersInv
<1>2. ASSUME NEW u \in Users, SwitchService(u) \/ SwitchApp(u) \/ SwitchAppText(u) PROVE ReadersInv'
  <2>1. u \in Switching /\ hist' = hist
    BY <1>2 DEF SwitchService, SwitchApp, SwitchAppText, Switching
  <2>2. hist.quiet = {} /\ hist.fresh = {}
    BY <2>1 DEF ReadersInv, Still
  <2> QED  BY <2>1, <2>2 DEF ReadersInv
<1>3. ASSUME NEW u \in Users, View(u) \/ CheckEmpty(u) PROVE ReadersInv'
  <2>1. Goto(u, "empty") \/ Goto(u, "list") \/ Become(u, Idle)
    BY <1>3 DEF View, CheckEmpty
  <2>2. Calmly(u) /\ hist' = hist /\ req'[u].pc \notin {"row", "norow"}
    BY <1>3, <2>1, Became, Went DEF View, CheckEmpty, Calmly, Idle, SwitchStates
  <2>3. \A w \in Users : seen'[w] \in {seen[w], NoBucket}
    BY <1>0, <1>3 DEF View, CheckEmpty
  <2>4. hist.quiet \subseteq Users /\ hist.fresh \subseteq Users
    BY <1>0 DEF SelectionHistory
  <2> QED  BY <2>2, <2>3, <2>4, StillRests DEF ReadersInv, Calmly
<1>4. ASSUME NEW u \in Users, List(u) PROVE ReadersInv'
  <2>1. /\ hist'.crossed = hist.crossed /\ hist'.quiet = hist.quiet
        /\ hist'.fresh = With(hist.fresh, u, Still)
        /\ hist.quiet \subseteq Users /\ hist.fresh \subseteq Users
    BY <1>0, <1>4 DEF List, SelectionHistory
  <2>2. Calmly(u) /\ req'[u].pc = "idle"
    BY <1>4, <2>1, Became DEF List, Calmly, Idle, SwitchStates
  <2>3. /\ seen'[u] # NoBucket => seen'[u] = Bucket(app)
        /\ \A w \in Users \ {u} : seen'[w] = seen[w]
    BY <1>0, <1>4 DEF List
  <2> QED  BY <2>1, <2>2, <2>3, StillRests DEF ReadersInv, Calmly, With
<1>5. ASSUME NEW u \in Users, Calmly(u), seen' = seen,
             hist'.quiet = With(hist.quiet, u, Still), hist'.fresh = hist.fresh,
             req'[u].bucket = Bucket(svc)
      PROVE  ReadersInv'
  <2>1. hist.quiet \subseteq Users /\ hist.fresh \subseteq Users
    BY <1>0 DEF SelectionHistory
  <2>2. u \in hist'.quiet => req'[u].bucket = Bucket(app)
    BY <1>5, <1>a DEF With
  <2> QED  BY <1>5, <2>1, <2>2, StillRests DEF ReadersInv, Calmly, With
<1>6. ASSUME NEW u \in Users, NEW k \in Keys, Upload(u, k) PROVE ReadersInv'
  <2>1. Become(u, [pc |-> "row", bucket |-> Bucket(svc), keys |-> {k}]) /\ req[u] = Idle
    BY <1>6 DEF Upload
  <2>2. /\ hist'.crossed = hist.crossed /\ hist'.fresh = hist.fresh
        /\ hist'.quiet = With(hist.quiet, u, Still)
    BY <1>0, <1>6 DEF Upload, SelectionHistory
  <2>3. Calmly(u) /\ seen' = seen /\ req'[u].bucket = Bucket(svc)
    BY <1>6, <2>1, <2>2, Became DEF Upload, Calmly, Idle, SwitchStates
  <2> QED  BY <1>5, <2>2, <2>3
<1>7. ASSUME NEW u \in Users, NEW K \in SUBSET Keys, Delete(u, K) PROVE ReadersInv'
  <2>1. Become(u, [pc |-> "norow", bucket |-> Bucket(svc), keys |-> K]) /\ req[u] = Idle
    BY <1>7 DEF Delete
  <2>2. /\ hist'.crossed = hist.crossed /\ hist'.fresh = hist.fresh
        /\ hist'.quiet = With(hist.quiet, u, Still)
    BY <1>0, <1>7 DEF Delete, SelectionHistory
  <2>3. Calmly(u) /\ seen' = seen /\ req'[u].bucket = Bucket(svc)
    BY <1>7, <2>1, <2>2, Became DEF Delete, Calmly, Idle, SwitchStates
  <2> QED  BY <1>5, <2>2, <2>3
<1>8. ASSUME NEW u \in Users, SyncUpload(u) \/ SyncDelete(u) PROVE ReadersInv'
  <2>1. /\ Become(u, [Idle EXCEPT !.pc = "empty"]) /\ req[u].pc \in {"row", "norow"}
        /\ hist' = hist /\ seen' = seen /\ app' = app /\ svc' = svc
    BY <1>8 DEF SyncUpload, SyncDelete
  <2>2. Calmly(u) /\ req'[u].pc = "empty"
    BY <2>1, Became DEF Calmly, Idle, SwitchStates
  <2>3. hist.quiet \subseteq Users /\ hist.fresh \subseteq Users
    BY <1>0 DEF SelectionHistory
  <2> QED  BY <2>1, <2>2, <2>3, StillRests DEF ReadersInv, Calmly
<1>9. CASE AccessChanges \/ UNCHANGED vars
  <2>1. /\ app' = app /\ svc' = svc /\ req' = req /\ seen' = seen /\ hist' = hist
    BY <1>9 DEF AccessChanges, vars
  <2>2. (Still <=> Still') /\ Bucket(app)' = Bucket(app)
    BY <2>1 DEF Still, Switching, Bucket
  <2> QED  BY <2>1, <2>2 DEF ReadersInv
<1> QED
  BY <1>1, <1>2, <1>3, <1>4, <1>6, <1>7, <1>8, <1>9 DEF Next, UserStep

-----------------------------------------------------------------------------
(* The theorems *)

LEMMA Invariance == Spec => []Inv
<1>1. Init => Inv
  BY TypeInit, SelectionInit, ReadersInit DEF Inv
<1>2. Inv /\ [Next]_vars => Inv'
  BY TypeStep, SelectionStep, ReadersStep DEF Inv
<1> QED  BY <1>1, <1>2, PTL DEF Spec

(* Type correctness of the selection and of everything that reads it.       *)
THEOREM TypeCorrect == Spec => []TypeOK
  BY Invariance, PTL DEF Inv

(* Both copies of the selection name the same bucket, whenever no switch is *)
(* under way and the last one was alone, however many went wrong before.    *)
THEOREM CopiesAgree == Spec => []SelectionsAgree
<1>1. Inv => SelectionsAgree
  BY StillAgrees DEF Inv, SelectionsAgree
<1> QED  BY <1>1, Invariance, PTL

(* A bucket named in the configuration is never switched from.              *)
THEOREM LockHolds == Spec => LockedBucketStays
<1>1. Inv /\ [Next]_vars => [app.locked => app' = app /\ svc' = svc]_vars
  <2> SUFFICES ASSUME Inv, Next, app.locked PROVE app' = app /\ svc' = svc
    OBVIOUS
  <2>1. \A u \in Users : req[u].pc \notin SwitchStates
    BY DEF Inv, SelectionInv
  <2>2. ASSUME NEW u \in Users, UserStep(u) PROVE app' = app /\ svc' = svc
    BY <2>1, <2>2 DEF UserStep, AskSwitch, SwitchService, SwitchApp, SwitchAppText, View,
                      CheckEmpty, List, Upload, Delete, SyncUpload, SyncDelete, SwitchStates
  <2> QED  BY <2>2 DEF Next, AccessChanges
<1> QED  BY <1>1, Invariance, PTL DEF Spec, LockedBucketStays

(* A request no switch has got in the way of writes rows of the bucket      *)
(* whose objects it has changed, and of no other.                           *)
THEOREM SyncsHitTheBucket == Spec => RowsFollowTheObjects
<1> DEFINE A == \A u \in hist.quiet : SyncUpload(u) \/ SyncDelete(u) =>
                  \A b \in Buckets \ {req[u].bucket} : index'[b] = index[b]
<1>1. Inv /\ [Next]_vars => [A]_vars
  <2> SUFFICES ASSUME Inv, NEW u \in hist.quiet, SyncUpload(u) \/ SyncDelete(u),
                      NEW b \in Buckets \ {req[u].bucket}
               PROVE  index'[b] = index[b]
    OBVIOUS
  <2>1. req[u].bucket = Bucket(app)
    BY DEF Inv, ReadersInv, SyncUpload, SyncDelete
  <2>2. b \in Buckets /\ b # Bucket(app) /\ index \in [Buckets -> SUBSET Keys]
    BY <2>1 DEF Inv, TypeOK
  <2>3. CASE SyncUpload(u)
    BY <2>2, <2>3 DEF SyncUpload
  <2>4. CASE SyncDelete(u)
    BY <2>2, <2>4 DEF SyncDelete
  <2> QED  BY <2>3, <2>4
<1> QED  BY <1>1, Invariance, PTL DEF Spec, RowsFollowTheObjects

(* Objects change only in the bucket whose page the browser shows, unless a *)
(* switch has come after the page.                                          *)
THEOREM ChangesAreShown == Spec => ChangesHitTheBucketShown
<1> DEFINE A == \A u \in hist.fresh : req[u] = Idle /\ req'[u].pc \in {"row", "norow"} =>
                  \A b \in Buckets \ {seen[u]} : s3'[b] = s3[b]
<1>1. Inv /\ [Next]_vars => [A]_vars
  <2> SUFFICES ASSUME Inv, Next, NEW u \in hist.fresh, req[u] = Idle,
                      req'[u].pc \in {"row", "norow"}, NEW b \in Buckets \ {seen[u]}
               PROVE  s3'[b] = s3[b]
    OBVIOUS
  <2>0. TypeOK /\ u \in Users /\ Still /\ (seen[u] # NoBucket => seen[u] = Bucket(svc))
    BY StillAgrees DEF Inv, ReadersInv, TypeOK, SelectionHistory
  <2>1. ASSUME NEW w \in Users, NEW k \in Keys, Upload(w, k) PROVE s3'[b] = s3[b]
    <3>1. w = u
      BY <2>0, <2>1, Became DEF Upload, Idle
    <3> QED  BY <2>0, <2>1, <3>1 DEF Upload, TypeOK
  <2>2. ASSUME NEW w \in Users, NEW K \in SUBSET Keys, Delete(w, K) PROVE s3'[b] = s3[b]
    <3>1. w = u
      BY <2>0, <2>2, Became DEF Delete, Idle
    <3> QED  BY <2>0, <2>2, <3>1 DEF Delete, TypeOK
  <2> QED
    BY <2>1, <2>2 DEF Next, UserStep, AskSwitch, SwitchService, SwitchApp, SwitchAppText, View,
                      CheckEmpty, List, SyncUpload, SyncDelete, AccessChanges
<1> QED  BY <1>1, Invariance, PTL DEF Spec, ChangesHitTheBucketShown
=============================================================================
