----------------------------- MODULE Inventory ------------------------------
(* The stock ledger of a business (services/inventory.py) and the usage    *)
(* that the completion of a job records (services/job_consumption.py).     *)
(* A request is a transaction of two steps: Begin inserts the operation    *)
(* row of its client_event_id and makes the plain reads, Commit locks the  *)
(* stock rows, checks, writes and commits.  Between the two other          *)
(* transactions commit, and the transaction itself may fail (Abort).       *)
EXTENDS Integers, Sequences, FiniteSets, Functions

CONSTANTS
  Item, Location, Job, Service, Session,
  Request,      \* the requests that clients send, and send again
  Performed,    \* the services of each job's booking, in order of their rows
  JobTeam,      \* the team of each job
  JobStaff,     \* the employee that each job is assigned to
  TeamsOf,      \* the teams that each employee is a member of
  MainLocation, \* the locations of type main
  Templates,    \* the templates a manager chooses from
  Retirable,    \* the items and locations that a manager may deactivate
  NoLocation, NoJob, NoTeam, NoRequest

(* A request: its key (client_event_id), what it does, and its lines.      *)
RequestKind ==
  {"opening_balance", "receipt", "transfer", "usage", "wastage", "stock_count"}

RequestRow(r) ==
  /\ r.kind \in RequestKind
  /\ r.at \in Location
  /\ r.to \in Location \cup {NoLocation}
  /\ r.kind = "transfer" => r.to \in Location \ {r.at}
  /\ r.job \in Job \cup {NoJob}
  /\ r.lines \in Seq(Item \X Nat)
  /\ r.key \notin Job   \* no client takes the key of a completion

ASSUME RequestAssumption ==
  /\ \A r \in Request : RequestRow(r)
  /\ NoRequest \notin Request \cup Job

ASSUME JobAssumption ==
  /\ Performed \in [Job -> Seq(Service)]
  /\ NoJob \notin Job

ASSUME StockAssumption ==
  /\ IsFiniteSet(Item)
  /\ NoLocation \notin Location
  /\ Templates \subseteq [Service -> [Item -> Nat]]

Teams == (UNION {TeamsOf[e] : e \in DOMAIN TeamsOf}) \cup {NoTeam}

StockRow == Item \X Location

(* The key of a completion is service-completion:<job>, so the job itself. *)
Key == {r.key : r \in Request} \cup Job

VARIABLES
  active,    \* the items and locations with is_active
  linked,    \* inventory_locations.linked_team_id
  default,   \* business_settings.default_inventory_location_id
  template,  \* service_inventory_templates
  stock,     \* inventory_stock.quantity; a missing row counts 0
  operation, \* inventory_operations: the request under each key
  movement,  \* rows of inventory_movements
  expense,   \* the keys whose receipt was also recorded as an expense
  job,       \* the status of each job
  run,       \* rows of job_inventory_consumption_runs with their lines
  tx         \* the open transaction of each session

vars == <<active, linked, default, template, stock, operation, movement, expense,
          job, run, tx>>
-----------------------------------------------------------------------------
(* Rows.                                                                   *)

Outbound == {"transfer_out", "usage", "wastage", "adjustment_out"}

Inbound == {"opening_balance", "receipt", "transfer_in", "adjustment_in"}

MovementRow ==
  [key : Key, kind : Inbound \cup Outbound, item : Item, at : Location,
   quantity : Nat \ {0}, job : Job \cup {NoJob}]

Issue ==
  {"none", "INVENTORY_ITEM_INACTIVE", "SOURCE_LOCATION_MISSING",
   "SOURCE_LOCATION_AMBIGUOUS", "INSUFFICIENT_RECORDED_STOCK"}

LineRow ==
  [service : Nat, item : Item, expected : Nat \ {0}, manual : Nat, automatic : Nat,
   shortfall : Nat, issue : Issue]

RunRow ==
  [status : {"none", "no_template", "applied", "needs_review"},
   source : Location \cup {NoLocation}, lines : SUBSET LineRow, reviewed : BOOLEAN]

NoRun == [status |-> "none", source |-> NoLocation, lines |-> {}, reviewed |-> FALSE]

Idle == [kind |-> "idle"]

(* What an open transaction has read; a completion, where its automatic     *)
(* usage comes from or why it comes from nowhere.                          *)
RequestTx == [kind : {"request"}, key : Key, request : Request]

Source ==
  [at : Location, issue : {"none"}] \cup
  [at : {NoLocation}, issue : {"SOURCE_LOCATION_MISSING", "SOURCE_LOCATION_AMBIGUOUS"}]

CompletionTx(j) ==
  [kind : {"completion"}, key : {j}, expected : [(DOMAIN Performed[j]) \X Item -> Nat],
   usable : SUBSET Item, manual : [Item -> Nat], source : Source]

TxRow(t) ==
  \/ t = Idle
  \/ t \in RequestTx /\ t.key = t.request.key
  \/ \E j \in Job : t \in CompletionTx(j)

TypeOK ==
  /\ active \subseteq Item \cup Location
  /\ linked \in [Location -> Teams]
  /\ default \in Location \cup {NoLocation}
  /\ template \in Templates
  /\ stock \in [StockRow -> Nat]
  /\ operation \in [Key -> Request \cup Job \cup {NoRequest}]
  /\ movement \subseteq MovementRow
  /\ expense \subseteq Key
  /\ job \in [Job -> {"in_progress", "completed"}]
  /\ run \in [Job -> RunRow]
  /\ DOMAIN tx = Session /\ \A s \in Session : TxRow(tx[s])

Init ==
  /\ active = Item \cup Location
  /\ linked = [l \in Location |-> NoTeam]
  /\ default = NoLocation
  /\ template \in Templates
  /\ stock = [x \in StockRow |-> 0]
  /\ operation = [k \in Key |-> NoRequest]
  /\ movement = {}
  /\ expense = {}
  /\ job = [j \in Job |-> "in_progress"]
  /\ run = [j \in Job |-> NoRun]
  /\ tx = [s \in Session |-> Idle]
-----------------------------------------------------------------------------
(* Operations, the primitives.                                             *)

(* The quantity of each item in the lines of a request.                    *)
Combine(lines) ==
  [i \in Item |->
     SumFunction([n \in {k \in DOMAIN lines : lines[k][1] = i} |-> lines[n][2]])]

Counted(lines) == {lines[n][1] : n \in DOMAIN lines}

(* _items and _locations: all that the request names are active.           *)
Available(r) ==
  Counted(r.lines) \cup {r.at} \cup ({r.to} \ {NoLocation}) \subseteq active

(* Mutant: the operation is looked up before the insert, so that two       *)
(* requests with one key may both go on.                                   *)
KeyFreeUnlessOpen(k) == operation[k] = NoRequest

(* The insert of an operation row waits for an open transaction that       *)
(* inserted the same key; the row it then finds is replayed or refused.    *)
KeyFree(k) ==
  /\ operation[k] = NoRequest
  /\ \A s \in Session : tx[s].kind # "idle" => tx[s].key # k

Movements(k, kind, l, quantity, j) ==
  {[key |-> k, kind |-> kind, item |-> i, at |-> l, quantity |-> quantity[i], job |-> j] :
     i \in {x \in Item : quantity[x] > 0}}

(* Adds change[i] to the stock of every item i at l.                       *)
Moved(s, l, change) ==
  [x \in StockRow |-> IF x[2] = l THEN s[x] + change[x[1]] ELSE s[x]]

Negative(quantity) == [i \in Item |-> -quantity[i]]

Enough(l, quantity) == \A i \in Item : stock[i, l] >= quantity[i]

(* An employee uses the stock linked to a team of his, for a job that is   *)
(* assigned to him or to a team of his.                                    *)
AuthorizeUsage(r) ==
  \/ r.actor = "manager"
  \/ /\ r.kind = "usage"
     /\ r.at \in active
     /\ linked[r.at] \in TeamsOf[r.actor]
     /\ r.job # NoJob
     /\ JobStaff[r.job] = r.actor \/ JobTeam[r.job] \in TeamsOf[r.actor]
-----------------------------------------------------------------------------
(* Requests.                                                               *)

(* A request that was applied before is answered from its operation row;   *)
(* another body under its key is refused.  Neither changes anything.       *)
BeginRequest(s, r) ==
  /\ tx[s] = Idle
  /\ AuthorizeUsage(r)
  /\ KeyFree(r.key)
  /\ Available(r)
  /\ tx' = [tx EXCEPT ![s] = [kind |-> "request", key |-> r.key, request |-> r]]
  /\ UNCHANGED <<active, linked, default, template, stock, operation, movement, expense,
                 job, run>>

ReceiveStock(r) ==
  LET quantity == Combine(r.lines) IN
  /\ r.kind \in {"opening_balance", "receipt"}
  /\ stock' = Moved(stock, r.at, quantity)
  /\ movement' = movement \cup Movements(r.key, r.kind, r.at, quantity, NoJob)
  /\ expense' = IF r.expense THEN expense \cup {r.key} ELSE expense

TransferStock(r) ==
  LET quantity == Combine(r.lines) IN
  /\ r.kind = "transfer"
  /\ Enough(r.at, quantity)
  /\ stock' = Moved(Moved(stock, r.at, Negative(quantity)), r.to, quantity)
  /\ movement' = movement \cup Movements(r.key, "transfer_out", r.at, quantity, NoJob)
                          \cup Movements(r.key, "transfer_in", r.to, quantity, NoJob)
  /\ UNCHANGED expense

(* The foreign key of a movement's job_id takes a share lock on the job,   *)
(* which waits for a completion that holds the job for update.             *)
JobFree(j) == \A s \in Session : tx[s].kind = "completion" => tx[s].key # j

(* Mutant: the usage of a job is written while its completion runs.        *)
ConsumeDuringCompletion(r) ==
  LET quantity == Combine(r.lines) IN
  /\ r.kind \in {"usage", "wastage"}
  /\ Enough(r.at, quantity)
  /\ stock' = Moved(stock, r.at, Negative(quantity))
  /\ movement' = movement \cup Movements(r.key, r.kind, r.at, quantity, r.job)
  /\ UNCHANGED expense

Consume(r) ==
  LET quantity == Combine(r.lines) IN
  /\ r.kind \in {"usage", "wastage"}
  /\ JobFree(r.job)
  /\ Enough(r.at, quantity)
  /\ stock' = Moved(stock, r.at, Negative(quantity))
  /\ movement' = movement \cup Movements(r.key, r.kind, r.at, quantity, r.job)
  /\ UNCHANGED expense

(* Each counted item gets the counted quantity; the difference to what the *)
(* locked row held is its movement.                                        *)
RecordStockCount(r) ==
  LET counted == Combine(r.lines)
      change == [i \in Item |-> IF i \in Counted(r.lines) THEN counted[i] - stock[i, r.at] ELSE 0]
  IN
  /\ r.kind = "stock_count"
  /\ Cardinality(Counted(r.lines)) = Len(r.lines)
  /\ stock' = Moved(stock, r.at, change)
  /\ movement' = movement \cup Movements(r.key, "adjustment_in", r.at, change, NoJob)
                          \cup Movements(r.key, "adjustment_out", r.at, Negative(change), NoJob)
  /\ UNCHANGED expense

CommitRequest(s) ==
  LET r == tx[s].request IN
  /\ tx[s].kind = "request"
  /\ ReceiveStock(r) \/ TransferStock(r) \/ Consume(r) \/ RecordStockCount(r)
  /\ operation' = [operation EXCEPT ![r.key] = r]
  /\ tx' = [tx EXCEPT ![s] = Idle]
  /\ UNCHANGED <<active, linked, default, template, job, run>>

(* An error, INSUFFICIENT_STOCK among them, or a lost connection.          *)
Abort(s) ==
  /\ tx[s] # Idle
  /\ tx' = [tx EXCEPT ![s] = Idle]
  /\ UNCHANGED <<active, linked, default, template, stock, operation, movement, expense,
                 job, run>>
-----------------------------------------------------------------------------
(* Completion of a job.                                                    *)

(* Where automatic usage is taken from.                                    *)
SourceLocation ==
  LET usable == active \cap Location
      main == usable \cap MainLocation
  IN
  CASE usable = {} -> [at |-> NoLocation, issue |-> "SOURCE_LOCATION_MISSING"]
    [] default \in usable -> [at |-> default, issue |-> "none"]
    [] Cardinality(usable) = 1 -> [at |-> CHOOSE l \in usable : TRUE, issue |-> "none"]
    [] Cardinality(main) = 1 -> [at |-> CHOOSE l \in main : TRUE, issue |-> "none"]
    [] OTHER -> [at |-> NoLocation, issue |-> "SOURCE_LOCATION_AMBIGUOUS"]

Expected(j) ==
  [x \in (DOMAIN Performed[j]) \X Item |-> template[Performed[j][x[1]]][x[2]]]

JobUsage(j) == {m \in movement : m.job = j /\ m.kind = "usage"}

ManualUsage(j) ==
  [i \in Item |-> SumFunction([m \in {n \in JobUsage(j) : n.item = i} |-> m.quantity])]

Least(a, b) == IF a <= b THEN a ELSE b

(* What the rows of need before row n ask for.                             *)
Before(need, n) == SumFunctionOnSet(need, {k \in DOMAIN need : k < n})

(* total handed out to the rows of need in their order.                    *)
Spread(total, need) ==
  [n \in DOMAIN need |->
     IF total <= Before(need, n) THEN 0 ELSE Least(need[n], total - Before(need, n))]

(* Mutant: the job is not locked, so that two sessions may complete it.     *)
BeginCompletionUnlocked(s, j) ==
  /\ tx[s] = Idle
  /\ job[j] = "in_progress"
  /\ tx' = [tx EXCEPT ![s] =
              [kind |-> "completion", key |-> j, expected |-> Expected(j),
               usable |-> active \cap Item, manual |-> ManualUsage(j),
               source |-> SourceLocation]]
  /\ UNCHANGED <<active, linked, default, template, stock, operation, movement, expense,
                 job, run>>

(* transition_job holds the lock of the job from its read on.              *)
BeginCompletion(s, j) ==
  /\ tx[s] = Idle
  /\ job[j] = "in_progress"
  /\ KeyFree(j)
  /\ tx' = [tx EXCEPT ![s] =
              [kind |-> "completion", key |-> j, expected |-> Expected(j),
               usable |-> active \cap Item, manual |-> ManualUsage(j),
               source |-> SourceLocation]]
  /\ UNCHANGED <<active, linked, default, template, stock, operation, movement, expense,
                 job, run>>

(* What is expected beyond the manual usage, per row and item.             *)
Manual(t) ==
  [i \in Item |->
     Spread(t.manual[i], [n \in {x[1] : x \in DOMAIN t.expected} |-> t.expected[n, i]])]

Need(t) == [x \in DOMAIN t.expected |-> t.expected[x] - Manual(t)[x[2]][x[1]]]

Needed(t) ==
  [i \in Item |->
     IF i \in t.usable
     THEN SumFunctionOnSet(Need(t), {x \in DOMAIN t.expected : x[2] = i})
     ELSE 0]

(* apply_available_job_usage: never more than the source holds.            *)
Applied(t) ==
  [i \in Item |-> IF t.source.at = NoLocation THEN 0
                  ELSE Least(stock[i, t.source.at], Needed(t)[i])]

(* Mutant: what was applied is credited to every row that needs it.         *)
AutomaticTwice(t) ==
  [i \in Item |-> [n \in {x[1] : x \in DOMAIN t.expected} |-> Least(Need(t)[n, i], Applied(t)[i])]]

Automatic(t) ==
  [i \in Item |->
     Spread(Applied(t)[i], [n \in {x[1] : x \in DOMAIN t.expected} |-> Need(t)[n, i]])]

LineIssue(t, x, missing) ==
  IF x[2] \notin t.usable THEN "INVENTORY_ITEM_INACTIVE"
  ELSE IF Need(t)[x] = 0 THEN "none"
  ELSE IF t.source.issue # "none" THEN t.source.issue
  ELSE IF missing > 0 THEN "INSUFFICIENT_RECORDED_STOCK" ELSE "none"

RunLine(t, x) ==
  LET automatic == IF x[2] \in t.usable THEN Automatic(t)[x[2]][x[1]] ELSE 0
      missing == Need(t)[x] - automatic
  IN [service |-> x[1], item |-> x[2], expected |-> t.expected[x],
      manual |-> Manual(t)[x[2]][x[1]], automatic |-> automatic, shortfall |-> missing,
      issue |-> LineIssue(t, x, missing)]

RunLines(t) == {RunLine(t, x) : x \in {y \in DOMAIN t.expected : t.expected[y] > 0}}

CompletionRun(t) ==
  LET lines == RunLines(t)
      drawn == \E i \in Item : Needed(t)[i] > 0
  IN [status |-> IF lines = {} THEN "no_template"
                 ELSE IF \E x \in lines : x.issue # "none" THEN "needs_review"
                 ELSE "applied",
      source |-> IF drawn THEN t.source.at ELSE NoLocation,
      lines |-> lines, reviewed |-> FALSE]

CommitCompletion(s) ==
  LET t == tx[s]
      j == t.key
  IN
  /\ t.kind = "completion"
  /\ run' = [run EXCEPT ![j] = CompletionRun(t)]
  /\ IF run'[j].source = NoLocation
     THEN UNCHANGED <<stock, operation, movement>>
     ELSE /\ stock' = Moved(stock, t.source.at, Negative(Applied(t)))
          /\ movement' = movement \cup Movements(j, "usage", t.source.at, Applied(t), j)
          /\ operation' = [operation EXCEPT ![j] = j]
  /\ job' = [job EXCEPT ![j] = "completed"]
  /\ tx' = [tx EXCEPT ![s] = Idle]
  /\ UNCHANGED <<active, linked, default, template, expense>>

ReviewConsumption(j) ==
  /\ run[j].status # "none"
  /\ ~run[j].reviewed
  /\ run' = [run EXCEPT ![j].reviewed = TRUE]
  /\ UNCHANGED <<active, linked, default, template, stock, operation, movement, expense,
                 job, tx>>
-----------------------------------------------------------------------------
(* The catalogue of items and locations.                                   *)

UpdateItem(i) ==
  /\ i \in Retirable
  /\ active' = IF i \in active THEN active \ {i} ELSE active \cup {i}
  /\ UNCHANGED <<linked, default, template, stock, operation, movement, expense, job, run,
                 tx>>

(* The partial unique index on linked_team_id.                             *)
OneLocationPerTeam(on, link) ==
  \A a, b \in on \cap Location : link[a] = link[b] /\ link[a] # NoTeam => a = b

UpdateLocation(l, on, t) ==
  /\ on # active \/ t # linked[l]
  /\ on # active => l \in Retirable
  /\ t # NoTeam => l \notin MainLocation
  /\ active' = on
  /\ linked' = [linked EXCEPT ![l] = t]
  /\ OneLocationPerTeam(active', linked')
  /\ UNCHANGED <<default, template, stock, operation, movement, expense, job, run, tx>>

UpdateServiceTemplate(t) ==
  /\ t # template
  /\ \A v \in Service, i \in Item : t[v][i] > 0 => i \in active
  /\ template' = t
  /\ UNCHANGED <<active, linked, default, stock, operation, movement, expense, job, run, tx>>

SetDefault(l) ==
  /\ default # l
  /\ l \in active \cup {NoLocation}
  /\ default' = l
  /\ UNCHANGED <<active, linked, template, stock, operation, movement, expense, job, run,
                 tx>>

Next ==
  \/ \E s \in Session :
       \/ \E r \in Request : BeginRequest(s, r)
       \/ \E j \in Job : BeginCompletion(s, j)
       \/ CommitRequest(s)
       \/ CommitCompletion(s)
       \/ Abort(s)
  \/ \E j \in Job : ReviewConsumption(j)
  \/ \E i \in Item : UpdateItem(i)
  \/ \E l \in Location, t \in Teams : \/ UpdateLocation(l, active \cup {l}, t)
                                     \/ UpdateLocation(l, active \ {l}, t)
  \/ \E t \in Templates : UpdateServiceTemplate(t)
  \/ \E l \in Location \cup {NoLocation} : SetDefault(l)

Spec == Init /\ [][Next]_vars
-----------------------------------------------------------------------------
(* Properties.                                                             *)

Signed(m) == IF m.kind \in Inbound THEN m.quantity ELSE -m.quantity

Moves(rows, i, l) == {m \in rows : m.item = i /\ m.at = l}

(* The balance of every stock row is the sum of its movements, whatever    *)
(* the order of receipts, transfers, usage, counts and their retries: the  *)
(* ledger that _operation and _lock_stock are there for.                   *)
LedgerExplainsStock ==
  \A i \in Item, l \in Location :
    stock[i, l] = SumFunction([m \in Moves(movement, i, l) |-> Signed(m)])

(* The lines of a completed job account for what its services expect, each *)
(* shortfall has an issue and each issue of the stock or its place a       *)
(* shortfall, and the automatic part is what the completion took.          *)
CompletionAccounted ==
  \A j \in Job, i \in Item :
    LET lines == {x \in run[j].lines : x.item = i}
        taken == {m \in movement : m.key = j /\ m.item = i}
    IN
    /\ \A x \in lines : /\ x.expected = x.manual + x.automatic + x.shortfall
                        /\ x.shortfall > 0 => x.issue # "none"
                        /\ x.issue \notin {"none", "INVENTORY_ITEM_INACTIVE"} => x.shortfall > 0
    /\ SumFunction([x \in lines |-> x.automatic]) = SumFunction([m \in taken |-> m.quantity])

(* Usage of a job that was recorded by hand before the job was completed   *)
(* satisfies the expected amount first, so that no request that is under   *)
(* way during the completion is taken from the stock twice (README.md:249).*)
ManualUsageCountsFirst ==
  [][\A j \in Job, i \in Item :
       LET lines == {x \in run'[j].lines : x.item = i}
           expected == SumFunction([x \in lines |-> x.expected])
       IN run[j].status = "none" /\ run'[j].status # "none" =>
            SumFunction([x \in lines |-> x.manual]) = Least(ManualUsage(j)[i], expected)]_vars

(* Automatic usage leaves a shortfall only when it took all that the       *)
(* source had: README "stock stops at zero".                               *)
ShortfallOnlyAtZero ==
  [][\A j \in Job : \A x \in run'[j].lines :
       x \notin run[j].lines /\ x.issue = "INSUFFICIENT_RECORDED_STOCK" =>
         stock'[x.item, run'[j].source] = 0]_vars

(* What an operation recorded stays what it was: a retry, a second request *)
(* under its key, a second completion or a review adds nothing to it.      *)
HistoryIsKept ==
  [][/\ \A k \in Key : operation[k] # NoRequest =>
          /\ operation'[k] = operation[k]
          /\ {m \in movement' : m.key = k} = {m \in movement : m.key = k}
     /\ \A j \in Job : run[j].status # "none" =>
          /\ run'[j].lines = run[j].lines
          /\ run[j].reviewed => run'[j].reviewed]_vars
=============================================================================
