-------------------------------- MODULE Sync --------------------------------
(* The sync revisions of a business (services/sync_state.py), the requests *)
(* of the API that move them, and a mobile device that keeps one family of *)
(* queries in a persisted cache and compares revisions to notice changes   *)
(* (apps/mobile/src/cache).                                                *)
EXTENDS Integers, FiniteSets

CONSTANTS
  Session,     \* database sessions of the API
  Followed,    \* the families one of which the device shows
  MaxCommits,  \* bound of the requests that begin
  MaxRestarts  \* bound of the restarts of the app

ASSUME BoundAssumption == MaxCommits \in Nat /\ MaxRestarts \in Nat

VARIABLES
  rev,       \* business_sync_revisions
  content,   \* per domain, how often what it shows has changed
  silent,    \* of these changes, those made by requests known to be silent
  tx,        \* the open transaction of each session
  begun,     \* requests begun
  family,    \* the family of the device: what it shows, and what refetches it
  mounted,   \* a screen shows the family
  restoring, \* the persisted cache is being read
  cache,     \* the query in memory
  fetch,     \* its request in flight
  disk,      \* the persisted copy of the query
  stored,    \* the revisions in AsyncStorage
  sync,      \* synchronizeOperations
  restarts,  \* restarts of the app
  blind      \* older data was kept where the code has no remedy

server == <<rev, content, silent, tx, begun>>

device == <<family, mounted, restoring, cache, fetch, disk, stored, sync, restarts, blind>>

vars == <<server, device>>
-----------------------------------------------------------------------------
(* Requests: which domains they change and which revisions they move.  A   *)
(* domain is that of the tables written.  Requests that write nothing that *)
(* a domain shows (coupons, reviews of guests, upload grants) are left out.*)

Domain == {"jobs", "workforce", "schedule", "finance", "inventory", "customers"}

(* Requests with what they change, by the tables that their services write, *)
(* and what they announce, by the arguments of bump_sync_revisions.        *)
Rows(names, changes, bumps) ==
  {[name |-> n, changes |-> changes, bumps |-> bumps] : n \in names}

CatalogueRequests ==
  UNION {Rows({"service_create", "service_update", "addon_create", "addon_update"},
              {"schedule"}, {"schedule"}),
         Rows({"business_booking_settings"}, {"schedule", "customers"}, {"schedule"})}

AccountRequests ==
  Rows({"own_profile_update", "staff_user_create", "staff_user_update", "staff_user_password",
        "staff_user_password_reset"}, {"workforce"}, {"workforce"})

TeamRequests ==
  UNION {Rows({"team_create", "team_update"},
              {"workforce", "schedule"}, {"workforce", "schedule"}),
         Rows({"team_members", "attendance_clock_in", "attendance_clock_out", "shift_create"},
              {"workforce"}, {"workforce"})}

LeaveRequests ==
  Rows({"shift_assignment", "leave_create", "leave_review"}, {"workforce"}, {"workforce"})

(* Mutant: an expense of a job is announced to finance alone.              *)
ExpenseRequestsOfFinance ==
  UNION {Rows({"expense_create", "expense_evidence_complete", "expense_void"},
              {"finance"}, {"finance"}),
         Rows({"expense_create_of_job", "expense_void_of_job"},
              {"finance", "jobs"}, {"finance"})}

ExpenseRequests ==
  UNION {Rows({"expense_create", "expense_evidence_complete", "expense_void"},
              {"finance"}, {"finance"}),
         Rows({"expense_create_of_job", "expense_void_of_job"},
              {"finance", "jobs"}, {"finance", "jobs"})}

CashRequests ==
  Rows({"cash_reconciliation_create", "cash_reconciliation_void"}, {"finance"}, {"finance"})

ItemRequests ==
  Rows({"consumption_review", "item_create", "item_update", "location_create",
        "location_update"}, {"inventory"}, {"inventory"})

StockRequests ==
  UNION {Rows({"threshold_update", "receive", "transfer", "usage", "wastage", "stock_count",
               "service_template_update"}, {"inventory"}, {"inventory"}),
         Rows({"receive_with_expense"}, {"inventory", "finance"}, {"inventory", "finance"})}

QualityRequests ==
  UNION {Rows({"job_delay_notification"}, {"jobs"}, {}),
         Rows({"job_quality_inspection", "job_quality_checklist", "job_quality_issue",
               "job_quality_photo_complete"}, {"jobs"}, {"jobs"})}

ComplaintRequests ==
  UNION {Rows({"job_quality_complaint"}, {"jobs"}, {"jobs", "customers"}),
         Rows({"complaint_review_rewash"}, {"jobs", "schedule", "finance", "customers"},
              {"jobs", "schedule", "finance", "customers"}),
         Rows({"complaint_review"}, {"jobs"}, {"jobs"}),
         Rows({"job_start_trip"}, {"jobs", "customers"}, {"jobs", "customers"})}

JobRequests ==
  UNION {Rows({"job_start", "job_arrive", "job_complete"},
              {"jobs", "customers"}, {"jobs", "customers"}),
         Rows({"job_complete_with_stock"},
              {"jobs", "inventory", "customers"}, {"jobs", "inventory", "customers"}),
         Rows({"job_cash"}, {"jobs", "finance", "customers"}, {"jobs", "finance", "customers"}),
         Rows({"job_assignment"}, {"jobs", "schedule"}, {"jobs", "schedule"}),
         Rows({"cancellation_review"},
              {"jobs", "schedule", "customers"}, {"jobs", "schedule", "customers"})}

CustomerRecordRequests ==
  Rows({"customer_update", "customer_address_create", "customer_address_update",
        "customer_address_delete", "customer_vehicle_create", "customer_vehicle_update",
        "customer_vehicle_delete"}, {"customers"}, {"customers"})

LoyaltyRequests ==
  UNION {Rows({"loyalty_adjustment", "loyalty_settings_update"}, {"customers"}, {"customers"}),
         Rows({"manager_reschedule"},
              {"jobs", "schedule", "customers"}, {"jobs", "schedule", "customers"})}

ProfileRequests ==
  Rows({"profile_update", "address_create", "address_update", "address_delete",
        "vehicle_create", "vehicle_update", "vehicle_delete"}, {"customers"}, {"customers"})

CustomerRequests ==
  UNION {Rows({"review_create"}, {"customers"}, {}),
         Rows({"account_delete"}, {"jobs", "customers"}, {}),
         Rows({"cancellation_request"}, {"jobs", "customers"}, {"jobs", "customers"}),
         Rows({"reschedule"},
              {"jobs", "schedule", "customers"}, {"jobs", "schedule", "customers"})}

PublicRequests ==
  UNION {Rows({"hold"}, {"schedule"}, {}),
         Rows({"booking"}, {"jobs", "schedule", "finance", "customers"},
              {"jobs", "schedule", "finance", "customers"}),
         Rows({"managed_cancellation_request"}, {"jobs", "customers"}, {"jobs", "customers"})}

Request ==
  UNION {CatalogueRequests, AccountRequests, TeamRequests, LeaveRequests, ExpenseRequests,
         CashRequests, ItemRequests, StockRequests, QualityRequests, ComplaintRequests,
         JobRequests, CustomerRecordRequests, LoyaltyRequests, ProfileRequests,
         CustomerRequests, PublicRequests}

(* The changes that no revision tells, as the code has them.               *)
Unannounced ==
  {<<"business_booking_settings", "customers">>, <<"job_delay_notification", "jobs">>,
   <<"review_create", "customers">>, <<"account_delete", "jobs">>,
   <<"account_delete", "customers">>, <<"hold", "schedule">>}
-----------------------------------------------------------------------------
(* Families of queries and the domains that refetch them.                  *)

JobFamilies ==
  {"jobs", "job", "calendar", "communications", "quality", "dashboard", "teams", "team"}

WorkforceFamilies ==
  {"staff", "teams", "team", "shifts", "shift-assignments", "attendance",
   "attendance-history", "leave", "profile", "dashboard", "jobs"}

ScheduleFamilies ==
  {"availability", "jobs", "job", "calendar", "dashboard", "teams", "team",
   "managed-catalogue", "business-settings"}

FinanceFamilies ==
  {"reports", "finance", "expenses", "cash-pending", "cash-pending-detail",
   "cash-reconciliations", "personal-cash", "dashboard", "jobs", "job", "cancellations"}

InventoryFamilies ==
  {"inventory-overview", "inventory-attention", "inventory-items", "inventory-locations",
   "inventory-stock", "inventory-movements", "team-stock", "service-template"}

CustomerFamilies == {"customers", "customer", "loyalty-settings"}

Prefixes ==
  [jobs |-> JobFamilies, workforce |-> WorkforceFamilies, schedule |-> ScheduleFamilies,
   finance |-> FinanceFamilies, inventory |-> InventoryFamilies,
   customers |-> CustomerFamilies]

(* Queries that pass the abort signal on are aborted with their last       *)
(* screen; the others go on.                                               *)
Abortable ==
  {"jobs", "job", "calendar", "communications", "quality", "customers", "customer",
   "availability"}

(* What the answers of some families are made of, by their statements:     *)
(* jobs with the names of their teams, limited to the teams of the reader; *)
(* payments, jobs, attendance and expenses of a period; the requests that  *)
(* wait for a review, with the status of the payment.                      *)
Shows ==
  [calendar |-> {"jobs", "schedule", "workforce"},
   reports |-> {"jobs", "schedule", "workforce", "finance"},
   cancellations |-> {"jobs", "finance"}]

(* What of it no domain refetches, as the code has it.                     *)
Unfollowed ==
  {<<"calendar", "workforce">>, <<"reports", "jobs">>, <<"reports", "schedule">>,
   <<"reports", "workforce">>, <<"cancellations", "jobs">>}

ASSUME FollowedAssumption == Followed \subseteq DOMAIN Shows

Family(f) ==
  [shows |-> Shows[f],
   gaps |-> {d \in Shows[f] : <<f, d>> \in Unfollowed},
   refetchedBy |-> {d \in Domain : f \in Prefixes[d]},
   aborts |-> f \in Abortable]
-----------------------------------------------------------------------------
(* State.                                                                  *)

Revisions == [Domain -> Nat]

Zero == [d \in Domain |-> 0]

Closed == [content |-> {}, bumps |-> {}, silent |-> {}]

Empty == [has |-> FALSE, valid |-> FALSE, seen |-> Zero]

Query == [has : BOOLEAN, valid : BOOLEAN, seen : Revisions]

NoFetch == [at |-> "none", seen |-> Zero]

NotStored == [has |-> FALSE, rev |-> Zero]

NoSync == [at |-> "idle", next |-> Zero]

TypeOK ==
  /\ rev \in Revisions
  /\ content \in Revisions
  /\ silent \in Revisions
  /\ tx \in [Session -> [content : SUBSET Domain, bumps : SUBSET Domain, silent : SUBSET Domain]]
  /\ family \in [shows : SUBSET Domain, gaps : SUBSET Domain, refetchedBy : SUBSET Domain,
                 aborts : BOOLEAN]
  /\ mounted \in BOOLEAN /\ restoring \in BOOLEAN
  /\ cache \in Query
  /\ fetch \in [at : {"none", "asked", "read"}, seen : Revisions]
  /\ disk \in Query
  /\ stored \in [has : BOOLEAN, rev : Revisions]
  /\ sync \in [at : {"idle", "read", "refetching", "invalidated"}, next : Revisions]
  /\ blind \in BOOLEAN
  /\ begun \in 0 .. MaxCommits
  /\ restarts \in 0 .. MaxRestarts

Init ==
  /\ rev = Zero /\ content = Zero /\ silent = Zero
  /\ tx = [p \in Session |-> Closed]
  /\ family \in {Family(f) : f \in Followed}
  /\ mounted = FALSE /\ restoring = TRUE
  /\ cache = Empty /\ disk = Empty
  /\ fetch = NoFetch
  /\ stored = NotStored
  /\ sync = NoSync
  /\ blind = FALSE
  /\ begun = 0 /\ restarts = 0
-----------------------------------------------------------------------------
(* The server.                                                             *)

Plus(v, ds) == [d \in Domain |-> IF d \in ds THEN v[d] + 1 ELSE v[d]]

(* What the family shows, but for changes the device is never told of.     *)
Announced ==
  [d \in Domain |-> IF d \in family.shows THEN content[d] - silent[d] ELSE 0]

(* A request up to its last statement, which moves the revisions and keeps *)
(* their one row locked until the commit.                                  *)
Begin(p, r) ==
  /\ begun < MaxCommits
  /\ tx[p] = Closed
  /\ r.bumps # {} => \A q \in Session : tx[q].bumps = {}
  /\ tx' = [tx EXCEPT ![p] =
               [content |-> r.changes \cup r.bumps,
                bumps |-> r.bumps,
                silent |-> {d \in r.changes \ r.bumps : <<r.name, d>> \in Unannounced}]]
  /\ begun' = begun + 1
  /\ UNCHANGED <<rev, content, silent, device>>

(* Mutant: the revisions are moved in a transaction of their own, first.   *)
CommitRevisionsFirst(p) ==
  /\ tx[p] # Closed
  /\ rev' = Plus(rev, tx[p].bumps)
  /\ IF tx[p].bumps # {}
     THEN /\ tx' = [tx EXCEPT ![p].bumps = {}]
          /\ UNCHANGED <<content, silent>>
     ELSE /\ content' = Plus(content, tx[p].content)
          /\ silent' = Plus(silent, tx[p].silent)
          /\ tx' = [tx EXCEPT ![p] = Closed]
  /\ UNCHANGED <<begun, device>>

Commit(p) ==
  /\ tx[p] # Closed
  /\ rev' = Plus(rev, tx[p].bumps)
  /\ content' = Plus(content, tx[p].content)
  /\ silent' = Plus(silent, tx[p].silent)
  /\ tx' = [tx EXCEPT ![p] = Closed]
  /\ UNCHANGED <<begun, device>>

Rollback(p) ==
  /\ tx[p] # Closed
  /\ tx' = [tx EXCEPT ![p] = Closed]
  /\ UNCHANGED <<rev, content, silent, begun, device>>
-----------------------------------------------------------------------------
(* The query of the device.                                                *)

Behind(seen, than) == \E d \in family.shows \ family.gaps : seen[d] < than[d]

Stale == ~cache.has \/ ~cache.valid

Ask == [NoFetch EXCEPT !.at = "asked"]

(* A query is observed, and asked for, only when the cache is restored.    *)
Active == mounted /\ ~restoring

(* A screen opens: data that is there and not invalidated is shown as it is.*)
Mount ==
  /\ ~mounted
  /\ mounted' = TRUE
  /\ fetch' = IF ~restoring /\ fetch.at = "none" /\ Stale THEN Ask ELSE fetch
  /\ UNCHANGED <<server, family, restoring, cache, disk, stored, sync, restarts, blind>>

(* A synchronisation that waits for the request goes on when it ends.      *)
Awaited == IF sync.at = "refetching" THEN [sync EXCEPT !.at = "invalidated"] ELSE sync

Unmount ==
  /\ mounted
  /\ mounted' = FALSE
  /\ IF family.aborts /\ fetch.at # "none"
     THEN fetch' = NoFetch /\ sync' = Awaited
     ELSE UNCHANGED <<fetch, sync>>
  /\ UNCHANGED <<server, family, restoring, cache, disk, stored, restarts, blind>>

Read ==
  /\ fetch.at = "asked"
  /\ fetch' = [at |-> "read", seen |-> Announced]
  /\ UNCHANGED <<server, family, mounted, restoring, cache, disk, stored, sync, restarts, blind>>

(* An answer clears the mark of the query, whenever it was asked for.      *)
Arrive ==
  /\ fetch.at = "read"
  /\ cache' = [has |-> TRUE, valid |-> TRUE, seen |-> fetch.seen]
  /\ fetch' = NoFetch
  /\ sync' = Awaited
  /\ UNCHANGED <<server, family, mounted, restoring, disk, stored, restarts, blind>>

Fail ==
  /\ fetch.at # "none"
  /\ fetch' = NoFetch
  /\ sync' = Awaited
  /\ UNCHANGED <<server, family, mounted, restoring, cache, disk, stored, restarts, blind>>

(* The persister writes a moment after a change.                           *)
Persist ==
  /\ ~restoring
  /\ cache.has
  /\ disk # cache
  /\ disk' = cache
  /\ UNCHANGED <<server, family, mounted, restoring, cache, fetch, stored, sync, restarts, blind>>

Restart ==
  /\ restarts < MaxRestarts
  /\ restarts' = restarts + 1
  /\ mounted' = FALSE
  /\ restoring' = TRUE
  /\ cache' = Empty
  /\ fetch' = NoFetch
  /\ sync' = NoSync
  /\ UNCHANGED <<server, family, disk, stored, blind>>

(* The copy replaces what is in memory, with its own mark, also when the   *)
(* shell has synchronised in the meantime.  It may be older than the       *)
(* revisions that are stored, or are about to be.                          *)
Restore ==
  /\ restoring
  /\ restoring' = FALSE
  /\ cache' = disk
  /\ fetch' = IF mounted /\ (~disk.has \/ ~disk.valid) THEN Ask ELSE fetch
  /\ blind' = (blind \/ (/\ disk.has /\ disk.valid
                         /\ \/ stored.has /\ Behind(disk.seen, stored.rev)
                            \/ sync.at = "invalidated" /\ Behind(disk.seen, sync.next)))
  /\ UNCHANGED <<server, family, mounted, disk, stored, sync, restarts>>
-----------------------------------------------------------------------------
(* synchronizeOperations.  Triggers share the one that runs.               *)

(* Mutant: after the first one no other starts.                            *)
SyncReadOnce ==
  /\ sync.at = "idle" /\ ~stored.has
  /\ sync' = [at |-> "read", next |-> rev]
  /\ UNCHANGED <<server, family, mounted, restoring, cache, fetch, disk, stored, restarts, blind>>

SyncRead ==
  /\ sync.at = "idle"
  /\ sync' = [at |-> "read", next |-> rev]
  /\ UNCHANGED <<server, family, mounted, restoring, cache, fetch, disk, stored, restarts, blind>>

(* The first one stores and invalidates nothing.                           *)
SyncFirst ==
  /\ sync.at = "read"
  /\ ~stored.has
  /\ stored' = [has |-> TRUE, rev |-> sync.next]
  /\ sync' = NoSync
  /\ blind' = (blind \/ (cache.has /\ Behind(cache.seen, sync.next))
                     \/ (fetch.at = "read" /\ Behind(fetch.seen, sync.next)))
  /\ UNCHANGED <<server, family, mounted, restoring, cache, fetch, disk, restarts>>

ChangedDomains == {d \in Domain : stored.rev[d] # sync.next[d]}

(* An active query with data is asked for again, its older request         *)
(* cancelled.  A request of another one goes on, and its answer clears the *)
(* mark.                                                                   *)
SyncInvalidate ==
  /\ sync.at = "read"
  /\ stored.has
  /\ IF ChangedDomains \cap family.refetchedBy = {}
     THEN /\ sync' = [sync EXCEPT !.at = "invalidated"]
          /\ UNCHANGED <<cache, fetch, blind>>
     ELSE LET again == Active /\ (cache.has \/ fetch.at = "none") IN
          /\ cache' = [cache EXCEPT !.valid = FALSE]
          /\ fetch' = IF again THEN Ask ELSE fetch
          /\ sync' = [sync EXCEPT !.at = IF Active THEN "refetching" ELSE "invalidated"]
          /\ blind' = (blind \/ (~again /\ fetch.at = "read" /\ Behind(fetch.seen, sync.next)))
  /\ UNCHANGED <<server, family, mounted, restoring, disk, stored, restarts>>

(* Mutant: the state is fetched once more, to store the latest.            *)
SyncStoreLatest ==
  /\ sync.at = "invalidated"
  /\ stored' = [has |-> TRUE, rev |-> rev]
  /\ sync' = NoSync
  /\ UNCHANGED <<server, family, mounted, restoring, cache, fetch, disk, restarts, blind>>

SyncStore ==
  /\ sync.at = "invalidated"
  /\ stored' = [has |-> TRUE, rev |-> sync.next]
  /\ sync' = NoSync
  /\ UNCHANGED <<server, family, mounted, restoring, cache, fetch, disk, restarts, blind>>
-----------------------------------------------------------------------------
Next ==
  \/ \E p \in Session : (\E r \in Request : Begin(p, r)) \/ Commit(p) \/ Rollback(p)
  \/ Mount \/ Unmount \/ Read \/ Arrive \/ Fail \/ Persist \/ Restart \/ Restore
  \/ SyncRead \/ SyncFirst \/ SyncInvalidate \/ SyncStore

Spec == Init /\ [][Next]_vars

(* Requests end, the cache is read, the timer of the app goes on, and what *)
(* it asks for is answered or fails.                                       *)
Fairness ==
  /\ \A p \in Session : WF_vars(Commit(p) \/ Rollback(p))
  /\ WF_vars(Restore) /\ WF_vars(Read) /\ WF_vars(Arrive \/ Fail)
  /\ WF_vars(SyncRead) /\ WF_vars(SyncFirst) /\ WF_vars(SyncInvalidate) /\ WF_vars(SyncStore)

FairSpec == Spec /\ Fairness
-----------------------------------------------------------------------------
(* Properties.                                                             *)

(* Whoever reads the revisions and then the data never reads data older    *)
(* than the revisions, and no change goes uncounted but the known ones: at *)
(* every moment revisions and visible changes agree.                       *)
RevisionsTellChanges == \A d \in Domain : content[d] = rev[d] + silent[d]

(* Data that the app shows without a mark has every change counted in the  *)
(* revisions it stored, so that the next comparison misses nothing.  Apart *)
(* from what Unfollowed lists, a change is lost in four ways only: data    *)
(* fetched before the first synchronisation; an answer on its way while    *)
(* its query is marked and not asked for again; a crash between storing    *)
(* revisions and persisting the mark; and a synchronisation while the      *)
(* cache is being restored, whose mark the restored copy replaces.         *)
NothingElseMissed ==
  ~blind /\ stored.has /\ cache.has /\ cache.valid => ~Behind(cache.seen, stored.rev)

(* Once the requests are over, what the app shows is up to date or marked, *)
(* whatever requests of the app failed, unless older data was kept in one  *)
(* of these ways, and apart from what Unfollowed lists.                    *)
Converges ==
  <>[](blind \/ ~cache.valid \/ ~Behind(cache.seen, Announced))
=============================================================================
