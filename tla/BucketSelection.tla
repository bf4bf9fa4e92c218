--------------------------- MODULE BucketSelection ---------------------------
(***************************************************************************)
(* The bucket the web application works on.  There is one selection for all *)
(* browsers, and it is kept twice: in the App's copy of the configuration   *)
(* (s.cfg.S3 of pkg/app), which names the bucket of the index, and in the   *)
(* s3svc Service's copy, which names the bucket of the S3 calls.  Switching *)
(* buckets (handleBucketSwitch) writes both; page views, uploads and        *)
(* deletions read them at different moments, without any lock.              *)
(*                                                                         *)
(* A Go string is two words, the address of its text and its length, and    *)
(* goroutines that write and read it without synchronization may see one    *)
(* of the two words only: a selection is a pair of names, the one its       *)
(* address and the one its length come from, and is no name when they       *)
(* differ.                                                                  *)
(***************************************************************************)
EXTENDS Naturals, FiniteSets

CONSTANTS
  Buckets,     \* the buckets that have a row in the index
  NoBucket,    \* the empty string
  Garbage,     \* a text with the length of another
  Configs,     \* the values cfg.S3.Bucket may have in the configuration file
  Keys,        \* the keys of objects
  InPrefix,    \* those under the configured prefix
  Prefixed,    \* whether cfg.S3.Prefix is set
  Users        \* the browsers, each with one request at a time

ASSUME ConstantsAssumption ==
  /\ NoBucket \notin Buckets /\ Garbage \notin Buckets \cup {NoBucket}
  /\ Configs \subseteq Buckets \cup {NoBucket}
  /\ InPrefix \subseteq Keys
  /\ Prefixed \in BOOLEAN

VARIABLES
  app,         \* App.cfg.S3: the bucket, whether it is locked, and whether
               \* the prefix is in force
  svc,         \* Service.cfg.S3 of s3svc
  s3,          \* the keys in each bucket
  index,       \* the keys with a row, for each bucket
  accessible,  \* the buckets dbsvc.GetBuckets returns
  req,         \* where each browser's request stands
  seen,        \* the bucket of the directory page each browser shows
  hist         \* auxiliary: which switches got in the way of what

vars == <<app, svc, s3, index, accessible, req, seen, hist>>

Names == Buckets \cup {NoBucket}
Selection == [text : Names, length : Names, prefix : BOOLEAN, locked : BOOLEAN]

(* crossed: two switches were under way at once, and none has had the       *)
(* selection to itself since then; quiet: the browsers whose upload or      *)
(* deletion, fresh: those whose page, no switch has got in the way of.      *)
SelectionHistory == [crossed : BOOLEAN, quiet : SUBSET Users, fresh : SUBSET Users]

(* bucket: the one a switch goes to, or, for the reader of the model, the   *)
(* one whose objects an upload or deletion has changed.                     *)
Idle == [pc |-> "idle", bucket |-> NoBucket, keys |-> {}]

TypeOK ==
  /\ {app, svc} \subseteq Selection
  /\ {s3, index} \subseteq [Buckets -> SUBSET Keys]
  /\ accessible \subseteq Buckets
  /\ req \in [Users -> [pc : {"idle", "svctext", "app", "apptext", "empty", "list",
                              "row", "norow"},
                        bucket : Names, keys : SUBSET Keys]]
  /\ seen \in [Users -> Names]
  /\ hist \in SelectionHistory

(* What a goroutine that reads the bucket gets.                             *)
Bucket(cfg) == IF cfg.text = cfg.length THEN cfg.text ELSE Garbage

Selected(bucket) == [text |-> bucket, length |-> bucket, prefix |-> Prefixed,
                     locked |-> bucket # NoBucket]

(* validateKeyPrefix, validateDeleteKeys.                                   *)
Allowed(k) == app.prefix => k \in InPrefix

Become(u, r) == req' = [req EXCEPT ![u] = r]

Goto(u, label) == req' = [req EXCEPT ![u].pc = label]

(* The browsers that are switching, and a selection nobody is changing.     *)
Switching == {u \in Users : req[u].pc \in {"svctext", "app", "apptext"}}
Still == Switching = {} /\ ~ hist.crossed

With(S, u, test) == IF test THEN S \cup {u} ELSE S \ {u}

SwitchBegins == hist' = [crossed |-> Switching # {}, quiet |-> {}, fresh |-> {}]

----------------------------------------------------------------------------
(* Switching *)

(* Mutant: a locked bucket can be switched from.                            *)
AskSwitch_Locked(u, b) ==
  /\ req[u] = Idle
  /\ b \in accessible
  /\ svc' = [svc EXCEPT !.length = b]
  /\ Become(u, [pc |-> "svctext", bucket |-> b, keys |-> {}])
  /\ SwitchBegins
  /\ UNCHANGED <<app, s3, index, accessible, seen>>

(* handleBucketSwitch finds the bucket among the accessible ones and calls  *)
(* SwitchBucket, which writes the length ...                                *)
AskSwitch(u, b) ==
  /\ req[u] = Idle /\ ~ app.locked
  /\ b \in accessible
  /\ svc' = [svc EXCEPT !.length = b]
  /\ Become(u, [pc |-> "svctext", bucket |-> b, keys |-> {}])
  /\ SwitchBegins
  /\ UNCHANGED <<app, s3, index, accessible, seen>>

(* Mutant: the prefix is given the name of the bucket.                      *)
SwitchService_Swapped(u) ==
  /\ req[u].pc = "svctext"
  /\ svc' = [svc EXCEPT !.text = req[u].bucket, !.prefix = req[u].bucket]
  /\ Goto(u, "app")
  /\ UNCHANGED <<app, s3, index, accessible, seen, hist>>

(* ... and the text of the bucket, and resets the prefix;                   *)
SwitchService(u) ==
  /\ req[u].pc = "svctext"
  /\ svc' = [svc EXCEPT !.text = req[u].bucket, !.prefix = FALSE]
  /\ Goto(u, "app")
  /\ UNCHANGED <<app, s3, index, accessible, seen, hist>>

(* then the App's own copy, length and text again.                          *)
SwitchApp(u) ==
  /\ req[u].pc = "app"
  /\ app' = [app EXCEPT !.length = req[u].bucket]
  /\ Goto(u, "apptext")
  /\ UNCHANGED <<svc, s3, index, accessible, seen, hist>>

(* Mutant: the App's copy is set only when it has no bucket yet.            *)
SwitchAppText_IfUnset(u) ==
  /\ req[u].pc = "apptext"
  /\ app' = IF app.text = NoBucket THEN [app EXCEPT !.text = req[u].bucket, !.prefix = FALSE]
            ELSE [app EXCEPT !.length = app.text, !.prefix = FALSE]
  /\ Become(u, [pc |-> "empty", bucket |-> NoBucket, keys |-> {}])
  /\ UNCHANGED <<svc, s3, index, accessible, seen, hist>>

(* The browser follows the redirect to the root of the new bucket.          *)
SwitchAppText(u) ==
  /\ req[u].pc = "apptext"
  /\ app' = [app EXCEPT !.text = req[u].bucket, !.prefix = FALSE]
  /\ Become(u, [pc |-> "empty", bucket |-> NoBucket, keys |-> {}])
  /\ UNCHANGED <<svc, s3, index, accessible, seen, hist>>

----------------------------------------------------------------------------
(* Pages *)

View(u) ==
  /\ req[u] = Idle
  /\ Goto(u, "empty")
  /\ UNCHANGED <<app, svc, s3, index, accessible, seen, hist>>

(* checkEmptyBucket: to the bucket list, or on to the directory, as always  *)
(* when the count fails.                                                    *)
CheckEmpty(u) ==
  /\ req[u].pc = "empty"
  /\ LET b == Bucket(app)
     IN  \/ /\ b = NoBucket \/ (~ app.prefix /\ b \in Buckets /\ index[b] = {})
            /\ Become(u, Idle) /\ seen' = [seen EXCEPT ![u] = NoBucket]
         \/ b # NoBucket /\ Goto(u, "list") /\ UNCHANGED seen
  /\ UNCHANGED <<app, svc, s3, index, accessible, hist>>

(* loadAndRenderBucketContents reads the selection anew; of no bucket, or   *)
(* when a query fails, there is an error page.                              *)
List(u) ==
  /\ req[u].pc = "list"
  /\ Become(u, Idle)
  /\ \E b \in ({Bucket(app)} \cap Buckets) \cup {NoBucket} : seen' = [seen EXCEPT ![u] = b]
  /\ hist' = [hist EXCEPT !.fresh = With(@, u, Still)]
  /\ UNCHANGED <<app, svc, s3, index, accessible>>

----------------------------------------------------------------------------
(* Uploads and deletions, from a directory page *)

(* PutObject in the bucket of s3svc; it fails if there is no such bucket.   *)
Upload(u, k) ==
  /\ req[u] = Idle /\ seen[u] # NoBucket
  /\ Allowed(k) /\ Bucket(svc) \in Buckets
  /\ s3' = [s3 EXCEPT ![Bucket(svc)] = @ \cup {k}]
  /\ Become(u, [pc |-> "row", bucket |-> Bucket(svc), keys |-> {k}])
  /\ hist' = [hist EXCEPT !.quiet = With(@, u, Still)]
  /\ UNCHANGED <<app, svc, index, accessible, seen>>

(* Mutant: the bucket is missing from the query.                            *)
SyncUpload_Everywhere(u) ==
  /\ req[u].pc = "row"
  /\ index' = [b \in Buckets |-> index[b] \cup req[u].keys]
  /\ Become(u, [Idle EXCEPT !.pc = "empty"])
  /\ UNCHANGED <<app, svc, s3, accessible, seen, hist>>

(* SyncUploadedObject with the bucket of the App; an error is logged.  The  *)
(* redirect then brings up the directory again.                             *)
SyncUpload(u) ==
  /\ req[u].pc = "row"
  /\ index' = [b \in Buckets |-> index[b] \cup IF b = Bucket(app) THEN req[u].keys ELSE {}]
  /\ Become(u, [Idle EXCEPT !.pc = "empty"])
  /\ UNCHANGED <<app, svc, s3, accessible, seen, hist>>

(* DeleteObject and DeleteObjects.                                          *)
Delete(u, K) ==
  /\ req[u] = Idle /\ seen[u] # NoBucket
  /\ \A k \in K : Allowed(k)
  /\ Bucket(svc) \in Buckets
  /\ s3' = [s3 EXCEPT ![Bucket(svc)] = @ \ K]
  /\ Become(u, [pc |-> "norow", bucket |-> Bucket(svc), keys |-> K])
  /\ hist' = [hist EXCEPT !.quiet = With(@, u, Still)]
  /\ UNCHANGED <<app, svc, index, accessible, seen>>

SyncDelete(u) ==
  /\ req[u].pc = "norow"
  /\ index' = [b \in Buckets |-> index[b] \ IF b = Bucket(app) THEN req[u].keys ELSE {}]
  /\ Become(u, [Idle EXCEPT !.pc = "empty"])
  /\ UNCHANGED <<app, svc, s3, accessible, seen, hist>>

(* The synchronization of the bucket list changes what GetBuckets returns.  *)
AccessChanges ==
  /\ accessible' \in SUBSET Buckets
  /\ UNCHANGED <<app, svc, s3, index, req, seen, hist>>

----------------------------------------------------------------------------
(* The specification *)

Init ==
  /\ app \in {Selected(b) : b \in Configs} /\ svc = app
  /\ s3 \in [Buckets -> SUBSET Keys] /\ index = s3
  /\ accessible = Buckets
  /\ req = [u \in Users |-> Idle]
  /\ seen = [u \in Users |-> NoBucket]
  /\ hist = [crossed |-> FALSE, quiet |-> {}, fresh |-> {}]

UserStep(u) ==
  \/ \E b \in Buckets : AskSwitch(u, b)
  \/ SwitchService(u) \/ SwitchApp(u) \/ SwitchAppText(u)
  \/ View(u) \/ CheckEmpty(u) \/ List(u)
  \/ \E k \in Keys : Upload(u, k)
  \/ \E K \in SUBSET Keys \ {{}} : Delete(u, K)
  \/ SyncUpload(u) \/ SyncDelete(u)

Next == (\E u \in Users : UserStep(u)) \/ AccessChanges

Spec == Init /\ [][Next]_vars

----------------------------------------------------------------------------
(* Properties *)

(* "Also update the bucket in the App's config to ensure consistency": both *)
(* copies name the same bucket whenever no switch is under way, unless two  *)
(* switches were at once and none has had the selection to itself since:    *)
(* one switch alone repairs whatever others have left.                      *)
SelectionsAgree ==
  Still => Bucket(app) = Bucket(svc) /\ Bucket(app) # Garbage

(* A configured bucket is never switched from, by whatever request.         *)
LockedBucketStays == [][app.locked => app' = app /\ svc' = svc]_vars

(* A handler writes rows of no other bucket than the one whose objects it   *)
(* has changed, what "keeps the database in sync with S3" takes for         *)
(* granted, unless a switch comes between its S3 call and its query.        *)
RowsFollowTheObjects ==
  [][\A u \in hist.quiet : SyncUpload(u) \/ SyncDelete(u) =>
       \A b \in Buckets \ {req[u].bucket} : index'[b] = index[b]]_vars

(* A browser changes objects only in the bucket whose page it shows, unless *)
(* somebody switches, for all browsers, after the page was made.            *)
ChangesHitTheBucketShown ==
  [][\A u \in hist.fresh : req[u] = Idle /\ req'[u].pc \in {"row", "norow"} =>
       \A b \in Buckets \ {seen[u]} : s3'[b] = s3[b]]_vars
=============================================================================
