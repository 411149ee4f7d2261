------------------------ MODULE PreviewRoutingProofs ------------------------
(***************************************************************************)
(* Theorems of PreviewRouting, for any previews, addresses, processes and    *)
(* bounds.  The invariant comes in three layers: types and the shape of a    *)
(* job, which hold however many processes run; what the one process that     *)
(* runs knows about its rows (Solo); and what rows, the route table and the  *)
(* requests on their way have to do with each other.                         *)
(***************************************************************************)
EXTENDS PreviewRouting, TLAPS

ItemSteps ==
  {"inspect", "decide", "probe", "apply", "send", "wait", "readback", "confirm",
   "verify", "rejected", "recover"}
JobSteps == ItemSteps \cup {"none", "read", "next", "failed"}
JobType ==
  [kind : {"none", "pass", "removal", "withdrawal"}, step : JobSteps,
   reads : SUBSET {"branch", "operation", "rows"},
   todo : SUBSET Previews, stale : SUBSET Previews,
   branch : [status : BranchStatuses, ip : Ips \cup {NoIp}], blocked : BOOLEAN,
   rows : [Previews -> Rows], at : SUBSET Previews, table : Tables]

TypeInv == TypeOK /\ job \in [Workers -> JobType]

(* A job works on one preview at a time, one it has taken off its list, and  *)
(* a process that does not run has no job.                                   *)
Shape(w) ==
  /\ job[w].kind = "none" <=> job[w].step = "none"
  /\ job[w].step \in ItemSteps => \E p \in Previews : job[w].at = {p}
  /\ job[w].step \notin ItemSteps => job[w].at = {}
  /\ job[w].todo \cap job[w].at = {}
  /\ job[w].step \in {"none", "read"} => job[w].todo = {}
  /\ Withdrawing(w) => job[w].step \notin {"read", "probe", "apply", "verify"}
  /\ w \notin running => job[w].kind = "none"

(* A request whose answer is waited for is the one its sender has just sent. *)
RequestIsOwn(r) ==
  r.by # NoWorker =>
    /\ r.by \in running
    /\ job[r.by].step = "wait"
    /\ r.preview \in job[r.by].at
    /\ r.ip = Target(r.by, r.preview)
    /\ r.base = job[r.by].table

(* Only a mutation under way, or one an operator has to look at, has a       *)
(* pending configuration.                                                    *)
PendingIsIntent ==
  \A p \in Previews :
    preview[p].status \notin {"applying", "cleanup_required"} => preview[p].pending = NoIp

ShapeInv ==
  /\ \A w \in Workers : Shape(w)
  /\ \A r \in requests : RequestIsOwn(r)
  /\ PendingIsIntent

-----------------------------------------------------------------------------
(* No two processes run at once, and what that gives: the rows a job works   *)
(* on are as it copied them.                                                 *)
Solo == ~Overlap \/ boots = 0

Sent == {"send", "wait", "readback", "confirm", "rejected", "recover"}
Synced(w) ==
  /\ job[w].stale = {}
  /\ \A p \in job[w].todo \cup job[w].at : job[w].rows[p] = preview[p]
  /\ job[w].step = "read" /\ "rows" \notin job[w].reads => job[w].rows = preview
(* Where a job stands says what its intent has made of the row.              *)
RowAtStep(w, p) ==
  /\ preview[p].status # "cleanup_required"
  /\ job[w].step \in {"probe", "apply"} => preview[p].status # "applying"
  /\ job[w].step \in Sent =>
       IF Withdrawing(w) THEN preview[p].status = "removing"
       ELSE preview[p].status = "applying" /\ preview[p].pending = job[w].branch.ip
SoloInv ==
  /\ \A v, w \in running : v = w
  /\ \A w \in running : Synced(w)
  /\ \A w \in running : \A p \in job[w].at : RowAtStep(w, p)

-----------------------------------------------------------------------------
(* Requests that create a route where their sender saw none.                 *)
Creations(p) == {r \in requests : r.preview = p /\ r.ip # NoIp /\ r.base[p] = NoIp}

(* One creation at most is on its way, to a preview that has no route and    *)
(* whose row owns up to it.                                                  *)
CreationIsOwned(p) ==
  /\ \A r, s \in Creations(p) : r = s
  /\ Creations(p) # {} =>
       routes[p] = NoIp /\ preview[p].status \in {"applying", "cleanup_required"}
InactiveIsUnrouted(p) == preview[p].status = "inactive" => routes[p] = NoIp

(* What a job knows of the creations on their way to its preview, and of a   *)
(* table in which it saw no route.                                           *)
Knows(w, p) ==
  /\ job[w].step \in {"probe", "apply", "send", "readback", "confirm", "verify", "rejected", "recover"}
       => Creations(p) = {}
  /\ job[w].step = "decide" /\ job[w].table[p] # NoIp => Creations(p) = {}
  /\ job[w].step = "wait" => \A r \in Creations(p) : r.by = w
  /\ \/ job[w].step \in {"probe", "apply", "send", "confirm", "recover"}
     \/ job[w].step = "decide" /\ preview[p].status # "applying"
     => (job[w].table[p] = NoIp => routes[p] = NoIp)
  /\ job[w].step = "confirm" => job[w].table[p] = Target(w, p)

RouteInv ==
  /\ \A p \in Previews : CreationIsOwned(p) /\ InactiveIsUnrouted(p)
  /\ \A w \in running : \A p \in job[w].at : Knows(w, p)

(* Behind the gate no job can touch a row: a pass that starts is blocked.    *)
Blocked(w) ==
  \/ job[w].kind = "none"
  \/ job[w].step = "read" /\ ("operation" \in job[w].reads \/ job[w].blocked)
StopInv ==
  /\ op.step \in {"gate", "stop"} => \A w \in running : Blocked(w)
  /\ op.step = "stop" => GateOpen

(* Within the life of one process: a request that would leave a route has    *)
(* its intent in the row, and somebody to wait for it, or a row that asks    *)
(* for an operator.                                                          *)
AccountedFor(p) ==
  preview[p].status # "cleanup_required" =>
    /\ routes[p] # NoIp => routes[p] \in {preview[p].current, preview[p].pending}
    /\ \A r \in requests : r.preview = p /\ r.ip # NoIp =>
         /\ preview[p].status = "applying" /\ preview[p].pending = r.ip
         /\ running # {} => r.by # NoWorker
SawRoute(w, p) ==
  job[w].step \in {"decide", "probe", "apply", "send", "confirm", "recover"} =>
    routes[p] \in {NoIp, job[w].table[p]}
AccountInv ==
  /\ \A p \in Previews : AccountedFor(p)
  /\ \A w \in running : \A p \in job[w].at : SawRoute(w, p)

PreviewInv ==
  /\ TypeInv /\ ShapeInv
  /\ Solo => SoloInv /\ RouteInv /\ StopInv
  /\ boots = 0 => AccountInv

-----------------------------------------------------------------------------
(* What the helpers of a job do.                                             *)
SameJob(j, k) ==
  /\ k.kind = j.kind /\ k.step = j.step /\ k.reads = j.reads /\ k.todo = j.todo
  /\ k.branch = j.branch /\ k.blocked = j.blocked /\ k.rows = j.rows
  /\ k.at = j.at /\ k.table = j.table
OthersSame(w) == \A v \in Workers \ {w} : SameJob(job[v], job'[v])
OnlyRow(p) ==
  /\ preview' \in [Previews -> Rows]
  /\ \A q \in Previews \ {p} : preview'[q] = preview[q]
Put(w, j) == [job EXCEPT ![w] = j]
At(w, s, t) == [job[w] EXCEPT !.table = t, !.step = s]
Left(w) == [job[w] EXCEPT !.step = "next", !.at = {}, !.table = EmptyTable]

(* The job of w goes on with p, or is done with it.                          *)
Moves(w, p) ==
  /\ OnlyRow(p)
  /\ job' \in [Workers -> JobType]
  /\ OthersSame(w)
  /\ job'[w].kind = job[w].kind /\ job'[w].todo = job[w].todo
  /\ job'[w].branch = job[w].branch /\ job'[w].stale = job[w].stale
  /\ \A q \in Previews \ {p} : job'[w].rows[q] = job[w].rows[q]
GoesOn(w, p) ==
  /\ Moves(w, p)
  /\ job'[w].at = job[w].at /\ job'[w].step \in ItemSteps
  /\ \/ job'[w].rows[p] = preview'[p]
     \/ job'[w].rows[p] = job[w].rows[p] /\ preview'[p] = preview[p]
IsDone(w, p) ==
  /\ Moves(w, p)
  /\ job'[w].at = {} /\ job'[w].step \in {"next", "failed"}

LEMMA RowTypes ==
  ASSUME NEW r \in Rows, NEW ip \in Ips \cup {NoIp}
  PROVE  /\ Inactive(r) \in Rows /\ Applying(r, ip) \in Rows
         /\ Applied(r) \in Rows /\ RejectApply(r) \in Rows
         /\ \A status \in PreviewStatuses : Becomes(r, status) \in Rows
  BY DEF Rows, Inactive, Applying, Applied, RejectApply, Becomes, PreviewStatuses, Applyable, Routed

LEMMA EmptyTyped == EmptyTable \in Tables /\ NoBranch \in [status : BranchStatuses, ip : Ips \cup {NoIp}]
  BY DEF EmptyTable, Tables, NoBranch, BranchStatuses

LEMMA FreshTyped == FreshRow \in Rows
  BY DEF FreshRow, Rows, PreviewStatuses, Applyable, Routed

LEMMA NoJobTyped == NoJob \in JobType /\ Pass \in JobType
  BY EmptyTyped, FreshTyped DEF NoJob, Pass, JobType, JobSteps

LEMMA StaleEffect ==
  ASSUME NEW w \in Workers, NEW ps \in SUBSET Previews, NEW jobs \in [Workers -> JobType]
  PROVE  /\ Stale(w, ps, jobs) \in [Workers -> JobType]
         /\ Stale(w, ps, jobs)[w] = jobs[w]
         /\ \A v \in Workers \ {w} : SameJob(jobs[v], Stale(w, ps, jobs)[v])
<1> DEFINE k(v) == [jobs[v] EXCEPT !.stale = @ \cup ps]
<1>1. \A v \in Workers : jobs[v] \in JobType
  OBVIOUS
<1>2. ASSUME NEW v \in Workers PROVE k(v) \in JobType /\ SameJob(jobs[v], k(v))
  BY <1>1 DEF JobType, SameJob
<1> HIDE DEF k
<1>3. \A v \in Workers : k(v) \in JobType
  BY <1>2
<1>4. Stale(w, ps, jobs) = [v \in Workers |-> IF v = w THEN jobs[v] ELSE k(v)]
  BY DEF Stale, k
<1> QED BY <1>1, <1>2, <1>3, <1>4

LEMMA JobEffect ==
  ASSUME TypeInv, NEW w \in Workers, NEW j \in JobType
  PROVE  /\ Put(w, j) \in [Workers -> JobType]
         /\ Put(w, j)[w] = j
         /\ \A v \in Workers \ {w} : SameJob(job[v], Put(w, j)[v])
  BY DEF TypeInv, SameJob, Put

(* A job that is stepped, and the rows others hold copies of.                *)
LEMMA WroteEffect ==
  ASSUME TypeInv, NEW w \in Workers, NEW ps \in SUBSET Previews, NEW j \in JobType,
         job' = Stale(w, ps, Put(w, j))
  PROVE  /\ job' \in [Workers -> JobType] /\ job'[w] = j /\ OthersSame(w)
<1> DEFINE jobs == Put(w, j)
<1>1. jobs \in [Workers -> JobType] /\ jobs[w] = j /\ \A v \in Workers \ {w} : jobs[v] = job[v]
  BY DEF TypeInv, Put
<1> HIDE DEF jobs
<1>3. job' = Stale(w, ps, jobs)
  BY DEF jobs
<1>4. /\ job' \in [Workers -> JobType] /\ job'[w] = j
      /\ \A v \in Workers \ {w} : SameJob(jobs[v], job'[v])
  <2>1. /\ Stale(w, ps, jobs) \in [Workers -> JobType] /\ Stale(w, ps, jobs)[w] = jobs[w]
        /\ \A v \in Workers \ {w} : SameJob(jobs[v], Stale(w, ps, jobs)[v])
    BY <1>1, StaleEffect
  <2> QED BY <1>1, <1>3, <2>1
<1> QED BY <1>1, <1>4 DEF OthersSame

LEMMA WritesMoves ==
  ASSUME TypeInv, NEW w \in Workers, NEW p \in Previews, NEW row \in Rows,
         NEW s \in ItemSteps, Writes(w, p, row, s)
  PROVE  /\ GoesOn(w, p) /\ preview'[p] = row
         /\ job'[w].step = s /\ job'[w].table = job[w].table
<1> DEFINE j == [job[w] EXCEPT !.rows[p] = row, !.step = s]
<1>1. job[w] \in JobType
  BY DEF TypeInv
<1>2. /\ j \in JobType /\ j.kind = job[w].kind /\ j.todo = job[w].todo /\ j.branch = job[w].branch
      /\ j.stale = job[w].stale /\ j.at = job[w].at /\ j.table = job[w].table /\ j.step = s
      /\ j.rows[p] = row /\ \A q \in Previews \ {p} : j.rows[q] = job[w].rows[q]
  BY <1>1 DEF JobType, JobSteps
<1>3. [job EXCEPT ![w].rows[p] = row, ![w].step = s] = [job EXCEPT ![w] = j]
  BY Zenon DEF TypeInv
<1> HIDE DEF j
<1>4. job' = Stale(w, {p}, Put(w, j)) /\ preview' = [preview EXCEPT ![p] = row]
  BY <1>3, Zenon DEF Writes, Put
<1>5. job' \in [Workers -> JobType] /\ job'[w] = j /\ OthersSame(w)
  BY <1>2, <1>4, WroteEffect
<1>6. OnlyRow(p) /\ preview'[p] = row
  BY <1>4 DEF TypeInv, TypeOK, OnlyRow
<1> QED BY <1>2, <1>5, <1>6 DEF GoesOn, Moves

LEMMA LeftTyped ==
  ASSUME TypeInv, NEW w \in Workers
  PROVE  /\ Left(w) \in JobType /\ NextPreview(w) = Put(w, Left(w))
         /\ [Left(w) EXCEPT !.step = "failed"] \in JobType
         /\ [NextPreview(w) EXCEPT ![w].step = "failed"] = Put(w, [Left(w) EXCEPT !.step = "failed"])
<1>1. job[w] \in JobType /\ job \in [Workers -> JobType]
  BY DEF TypeInv
<1>2. Left(w) \in JobType /\ [Left(w) EXCEPT !.step = "failed"] \in JobType
  BY <1>1, EmptyTyped DEF Left, JobType, JobSteps
<1>3. NextPreview(w) = Put(w, Left(w))
  BY <1>1, Zenon DEF Left, NextPreview, Put
<1>4. [NextPreview(w) EXCEPT ![w].step = "failed"] = Put(w, [Left(w) EXCEPT !.step = "failed"])
  BY <1>1, <1>3 DEF Put
<1> QED BY <1>2, <1>3, <1>4

LEMMA WritesLastMoves ==
  ASSUME TypeInv, NEW w \in Workers, NEW p \in Previews, NEW row \in Rows, WritesLast(w, p, row)
  PROVE  IsDone(w, p) /\ preview'[p] = row /\ job'[w] = Left(w)
<1>1. job' \in [Workers -> JobType] /\ job'[w] = Left(w) /\ OthersSame(w)
  BY LeftTyped, WroteEffect DEF WritesLast
<1>2. OnlyRow(p) /\ preview'[p] = row
  BY DEF WritesLast, TypeInv, TypeOK, OnlyRow
<1> QED BY <1>1, <1>2 DEF IsDone, Moves, Left, TypeInv, JobType

LEMMA LeavesMoves ==
  ASSUME TypeInv, NEW w \in Workers, NEW p \in Previews, UNCHANGED preview,
         \/ job' = NextPreview(w)
         \/ job' = [NextPreview(w) EXCEPT ![w].step = "failed"]
  PROVE  IsDone(w, p) /\ preview'[p] = preview[p]
<1>1. PICK j \in JobType : job' = Put(w, j) /\ j \in {Left(w), [Left(w) EXCEPT !.step = "failed"]}
  BY LeftTyped
<1>2. job' \in [Workers -> JobType] /\ job'[w] = j /\ OthersSame(w)
  BY <1>1, JobEffect DEF OthersSame
<1>3. OnlyRow(p)
  BY DEF OnlyRow, TypeInv, TypeOK
<1>4. /\ j.kind = job[w].kind /\ j.todo = job[w].todo /\ j.branch = job[w].branch
      /\ j.stale = job[w].stale /\ j.at = {} /\ j.step \in {"next", "failed"} /\ j.rows = job[w].rows
  <2>1. job[w] \in JobType
    BY DEF TypeInv
  <2>2. CASE j = Left(w)
    BY <2>1, <2>2 DEF Left, JobType
  <2>3. CASE j = [Left(w) EXCEPT !.step = "failed"]
    BY <2>1, <2>3 DEF Left, JobType
  <2> QED BY <1>1, <2>2, <2>3
<1> QED BY <1>2, <1>3, <1>4 DEF IsDone, Moves

LEMMA ThrowsMoves ==
  ASSUME TypeInv, NEW w \in Workers, NEW p \in Previews, Throws(w)
  PROVE  IsDone(w, p) /\ preview'[p] = preview[p]
  BY LeavesMoves DEF Throws

LEMMA CleanupMoves ==
  ASSUME TypeInv, NEW w \in Workers, NEW p \in Previews, Cleanup(w, p)
  PROVE  /\ IsDone(w, p)
         /\ preview'[p] \in {preview[p], Becomes(preview[p], "cleanup_required")}
         /\ job[w].stale = {} => preview'[p].status = "cleanup_required"
<1>1. CASE CleanupApplies(w, p)
  <2>1. preview[p] \in Rows /\ Becomes(preview[p], "cleanup_required") \in Rows
    BY RowTypes DEF TypeInv, TypeOK, PreviewStatuses
  <2>2. Becomes(preview[p], "cleanup_required").status = "cleanup_required"
    BY <2>1 DEF Becomes, Rows
  <2> QED BY <1>1, <2>1, <2>2, WritesLastMoves DEF Cleanup
<1>2. CASE ~CleanupApplies(w, p)
  BY <1>2, LeavesMoves DEF Cleanup, CleanupApplies
<1> QED BY <1>1, <1>2

LEMMA GotoMoves ==
  ASSUME TypeInv, NEW w \in Workers, NEW p \in Previews, NEW s \in ItemSteps, NEW t \in Tables,
         UNCHANGED preview, job' = Put(w, At(w, s, t))
  PROVE  /\ GoesOn(w, p) /\ preview'[p] = preview[p]
         /\ job'[w].step = s /\ job'[w].table = t
<1> DEFINE j == At(w, s, t)
<1>1. job[w] \in JobType
  BY DEF TypeInv
<1>2. /\ j \in JobType /\ j.kind = job[w].kind /\ j.todo = job[w].todo /\ j.branch = job[w].branch
      /\ j.stale = job[w].stale /\ j.at = job[w].at /\ j.step = s /\ j.rows = job[w].rows /\ j.table = t
  BY <1>1 DEF JobType, JobSteps, At
<1> HIDE DEF j
<1>3. job' \in [Workers -> JobType] /\ job'[w] = j /\ OthersSame(w)
  BY <1>2, JobEffect DEF OthersSame, j
<1>4. OnlyRow(p)
  BY DEF OnlyRow, TypeInv, TypeOK
<1> QED BY <1>2, <1>3, <1>4 DEF GoesOn, Moves

(* The table is read again.                                                  *)
Reads(w, s) == job' = [job EXCEPT ![w].table = routes, ![w].step = s]

LEMMA ReadsMoves ==
  ASSUME TypeInv, NEW w \in Workers, NEW p \in Previews, NEW s \in ItemSteps,
         UNCHANGED preview, Reads(w, s)
  PROVE  /\ GoesOn(w, p) /\ preview'[p] = preview[p]
         /\ job'[w].step = s /\ job'[w].table = routes
<1>1. routes \in Tables
  BY DEF TypeInv, TypeOK
<1>2. job' = Put(w, At(w, s, routes))
  BY Zenon DEF Put, At, Reads
<1> QED BY <1>1, <1>2, GotoMoves

LEMMA StepMoves ==
  ASSUME TypeInv, NEW w \in Workers, NEW p \in Previews, NEW s \in ItemSteps,
         UNCHANGED preview, Goto(w, s)
  PROVE  /\ GoesOn(w, p) /\ preview'[p] = preview[p]
         /\ job'[w].step = s /\ job'[w].table = job[w].table
<1>1. job[w] \in JobType /\ job[w].table \in Tables
  BY DEF TypeInv, JobType
<1>2. [job[w] EXCEPT !.step = s] = At(w, s, job[w].table)
  BY <1>1 DEF JobType, At
<1>3. job' = [job EXCEPT ![w] = [job[w] EXCEPT !.step = s]]
  BY Zenon DEF Goto
<1>4. job' = Put(w, At(w, s, job[w].table))
  BY <1>2, <1>3, Zenon DEF Put
<1> QED BY <1>1, <1>4, GotoMoves

-----------------------------------------------------------------------------
(* A step of a job at a preview that awaits no answer keeps the invariant if  *)
(* it keeps what is said of that preview and of that job.                    *)
LocalRow(p) ==
  /\ preview[p].status \notin {"applying", "cleanup_required"} => preview[p].pending = NoIp
  /\ Solo => CreationIsOwned(p) /\ InactiveIsUnrouted(p)
  /\ boots = 0 => AccountedFor(p)
LocalJob(w, p) ==
  /\ Withdrawing(w) => job[w].step \notin {"probe", "apply", "verify"}
  /\ Solo => RowAtStep(w, p) /\ Knows(w, p)
  /\ boots = 0 => SawRoute(w, p)

LEMMA TypeStep ==
  ASSUME routes' \in Tables, requests' \subseteq Requests, preview' \in [Previews -> Rows],
         branch' \in [status : BranchStatuses, ip : Ips \cup {NoIp}],
         op' \in [step : OpSteps, by : Workers \cup {NoWorker}],
         job' \in [Workers -> JobType],
         running' \subseteq Workers, serving' \subseteq running', quiet' \subseteq running',
         boots' \in 0..MaxBoots, changes' \in 0..MaxChanges
  PROVE  TypeInv'
<1>1. \A w \in Workers : job'[w] \in JobType
  OBVIOUS
<1>2. \A w \in Workers :
       /\ job'[w].kind \in {"none", "pass", "removal", "withdrawal"}
       /\ job'[w].rows \in [Previews -> Rows]
       /\ job'[w].table \in Tables
       /\ job'[w].at \subseteq Previews /\ job'[w].stale \subseteq Previews
  BY <1>1 DEF JobType
<1> QED BY <1>2 DEF TypeInv, TypeOK

LEMMA MoveShape ==
  ASSUME TypeInv, ShapeInv, NEW w \in running, NEW p \in Previews, p \in job[w].at,
         job[w].step # "wait", UNCHANGED <<caddyVars, running>>,
         GoesOn(w, p) \/ IsDone(w, p),
         (Withdrawing(w) => job[w].step \notin {"probe", "apply", "verify"})',
         (preview[p].status \notin {"applying", "cleanup_required"} => preview[p].pending = NoIp)'
  PROVE  ShapeInv'
<1>0. w \in Workers /\ job[w].at = {p} /\ job[w].step \in ItemSteps /\ Shape(w)
  BY DEF ShapeInv, Shape, TypeInv, TypeOK
<1>1. Shape(w)'
  <2>1. CASE GoesOn(w, p)
    BY <1>0, <2>1 DEF Shape, GoesOn, Moves, Withdrawing, ItemSteps
  <2>2. CASE IsDone(w, p)
    BY <1>0, <2>2 DEF Shape, IsDone, Moves, Withdrawing, ItemSteps
  <2> QED BY <2>1, <2>2
<1>2. ASSUME NEW v \in Workers \ {w} PROVE Shape(v)'
  <2>1. SameJob(job[v], job'[v]) /\ Shape(v)
    BY <1>2 DEF ShapeInv, GoesOn, IsDone, Moves, OthersSame
  <2> QED BY <2>1 DEF Shape, SameJob, Withdrawing
<1>3. ASSUME NEW r \in requests' PROVE RequestIsOwn(r)'
  <2>1. r \in requests /\ RequestIsOwn(r)
    BY <1>3 DEF ShapeInv, caddyVars
  <2>2. CASE r.by = NoWorker
    BY <2>2 DEF RequestIsOwn
  <2>3. CASE r.by # NoWorker
    <3>1. r.by \in Workers \ {w}
      BY <2>1, <2>3 DEF RequestIsOwn, TypeInv, TypeOK
    <3>2. SameJob(job[r.by], job'[r.by])
      BY <3>1 DEF GoesOn, IsDone, Moves, OthersSame
    <3> QED BY <2>1, <2>3, <3>2 DEF RequestIsOwn, SameJob, Target, Withdrawing
  <2> QED BY <2>2, <2>3
<1>4. PendingIsIntent'
  BY DEF ShapeInv, PendingIsIntent, GoesOn, IsDone, Moves, OnlyRow
<1> QED BY <1>1, <1>2, <1>3, <1>4 DEF ShapeInv

LEMMA MoveSolo ==
  ASSUME TypeInv, ShapeInv, SoloInv, NEW w \in running, NEW p \in Previews, p \in job[w].at,
         UNCHANGED running,
         \/ GoesOn(w, p) /\ RowAtStep(w, p)'
         \/ IsDone(w, p)
  PROVE  SoloInv'
<1>0. w \in Workers /\ job[w].at = {p} /\ p \notin job[w].todo /\ job[w].step \in ItemSteps
  BY DEF ShapeInv, Shape, TypeInv, TypeOK
<1>1. \A v \in running : v = w
  BY DEF SoloInv
<1>2. Synced(w) /\ job[w].todo \subseteq Previews
  BY <1>0 DEF SoloInv, TypeInv, JobType
<1>3. Synced(w)'
  <2>1. CASE GoesOn(w, p)
    BY <1>0, <1>2, <2>1 DEF Synced, GoesOn, Moves, OnlyRow, ItemSteps
  <2>2. CASE IsDone(w, p)
    BY <1>0, <1>2, <2>2 DEF Synced, IsDone, Moves, OnlyRow
  <2> QED BY <2>1, <2>2
<1>4. \A q \in job'[w].at : RowAtStep(w, q)'
  BY <1>0 DEF GoesOn, IsDone
<1> QED BY <1>1, <1>3, <1>4 DEF SoloInv

LEMMA MoveKeeps ==
  ASSUME PreviewInv, NEW w \in running, NEW p \in Previews, p \in job[w].at, job[w].step # "wait",
         UNCHANGED <<caddyVars, branch, op, running, serving, quiet, boots, changes>>,
         LocalRow(p)',
         (GoesOn(w, p) /\ LocalJob(w, p)') \/ IsDone(w, p)
  PROVE  PreviewInv'
<1>0. w \in Workers /\ job[w].at = {p} /\ job[w].step \in ItemSteps /\ TypeInv /\ ShapeInv
  BY DEF PreviewInv, ShapeInv, Shape, TypeInv, TypeOK
<1>1. Moves(w, p)
  BY DEF GoesOn, IsDone
<1>2. TypeInv'
  <2>1. job' \in [Workers -> JobType] /\ preview' \in [Previews -> Rows]
    BY <1>1 DEF Moves, OnlyRow
  <2> QED BY <1>0, <2>1, TypeStep DEF TypeInv, TypeOK, caddyVars
<1>3. ShapeInv'
  <2>1. (Withdrawing(w) => job[w].step \notin {"probe", "apply", "verify"})'
    BY DEF LocalJob, IsDone
  <2> QED BY <1>0, <2>1, MoveShape DEF LocalRow
<1>4. Solo' <=> Solo
  BY DEF Solo
<1>5. ASSUME Solo PROVE SoloInv' /\ RouteInv' /\ StopInv'
  <2>0. SoloInv /\ RouteInv /\ StopInv /\ \A v \in running : v = w
    BY <1>5 DEF PreviewInv, SoloInv
  <2>1. SoloInv'
    BY <1>0, <1>4, <1>5, <2>0, MoveSolo DEF LocalJob
  <2>2. \A q \in Previews : CreationIsOwned(q)' /\ InactiveIsUnrouted(q)'
    <3>1. ASSUME NEW q \in Previews \ {p} PROVE CreationIsOwned(q)' /\ InactiveIsUnrouted(q)'
      <4>1. preview'[q] = preview[q] /\ Creations(q)' = Creations(q) /\ routes' = routes
        BY <1>1 DEF Moves, OnlyRow, Creations, caddyVars
      <4> QED BY <2>0, <4>1 DEF RouteInv, CreationIsOwned, InactiveIsUnrouted
    <3> QED BY <1>4, <1>5, <3>1 DEF LocalRow
  <2>3. \A q \in job'[w].at : Knows(w, q)'
    BY <1>0, <1>4, <1>5 DEF GoesOn, IsDone, LocalJob
  <2>4. StopInv'
    <3>1. op.step \notin {"gate", "stop"}
      BY <1>0, <2>0 DEF StopInv, Blocked, ItemSteps, ShapeInv, Shape
    <3> QED BY <3>1 DEF StopInv
  <2> QED BY <2>0, <2>1, <2>2, <2>3, <2>4 DEF RouteInv
<1>6. ASSUME boots = 0 PROVE AccountInv'
  <2>0. AccountInv /\ \A v \in running : v = w
    BY <1>6 DEF PreviewInv, SoloInv, Solo
  <2>1. \A q \in Previews : AccountedFor(q)'
    <3>1. ASSUME NEW q \in Previews \ {p} PROVE AccountedFor(q)'
      <4>1. preview'[q] = preview[q] /\ requests' = requests /\ routes' = routes
        BY <1>1 DEF Moves, OnlyRow, caddyVars
      <4> QED BY <2>0, <4>1 DEF AccountInv, AccountedFor
    <3> QED BY <1>6, <3>1 DEF LocalRow
  <2>2. \A q \in job'[w].at : SawRoute(w, q)'
    BY <1>0, <1>6 DEF GoesOn, IsDone, LocalJob
  <2> QED BY <2>0, <2>1, <2>2 DEF AccountInv
<1> QED BY <1>2, <1>3, <1>4, <1>5, <1>6 DEF PreviewInv

(* What may be used at such a step.                                          *)
AtItem(w, p) ==
  /\ w \in Workers /\ job[w].at = {p} /\ job[w] \in JobType /\ preview[p] \in Rows
  /\ TypeInv /\ LocalRow(p) /\ LocalJob(w, p)
  /\ boots = 0 => Solo
  /\ Solo => job[w].rows[p] = preview[p] /\ job[w].stale = {}
  /\ boots = 0 /\ job[w].step # "wait" => \A r \in requests : r.preview = p => r.ip = NoIp

LEMMA AtItemHolds ==
  ASSUME PreviewInv, NEW w \in running, NEW p \in Previews, p \in job[w].at
  PROVE  AtItem(w, p)
<1>1. w \in Workers /\ job[w] \in JobType /\ preview[p] \in Rows /\ TypeInv
  BY DEF PreviewInv, TypeInv, TypeOK
<1>2. job[w].at = {p} /\ (Withdrawing(w) => job[w].step \notin {"probe", "apply", "verify"})
  BY <1>1 DEF PreviewInv, ShapeInv, Shape
<1>3. preview[p].status \notin {"applying", "cleanup_required"} => preview[p].pending = NoIp
  BY DEF PreviewInv, ShapeInv, PendingIsIntent
<1>4. boots = 0 => Solo
  BY DEF Solo
<1>5. Solo => /\ RowAtStep(w, p) /\ Knows(w, p)
              /\ CreationIsOwned(p) /\ InactiveIsUnrouted(p)
              /\ job[w].rows[p] = preview[p] /\ job[w].stale = {}
  BY <1>2 DEF PreviewInv, SoloInv, RouteInv, Synced
<1>6. boots = 0 => AccountedFor(p) /\ SawRoute(w, p)
  BY DEF PreviewInv, AccountInv
<1>7. ASSUME boots = 0, job[w].step # "wait", NEW r \in requests, r.preview = p, r.ip # NoIp
      PROVE  FALSE
  <2>1. r.by # NoWorker
    BY <1>4, <1>5, <1>6, <1>7 DEF AccountedFor, RowAtStep
  <2>2. r.by \in running /\ job[r.by].step = "wait"
    BY <1>7, <2>1 DEF PreviewInv, ShapeInv, RequestIsOwn
  <2>3. r.by = w
    BY <1>4, <1>7, <2>2 DEF PreviewInv, SoloInv
  <2> QED BY <1>7, <2>2, <2>3
<1> QED BY <1>1, <1>2, <1>3, <1>4, <1>5, <1>6, <1>7 DEF AtItem, LocalRow, LocalJob

LEMMA RowSame ==
  ASSUME NEW p \in Previews, LocalRow(p), preview'[p] = preview[p],
         UNCHANGED <<caddyVars, running, boots>>
  PROVE  LocalRow(p)'
<1>1. Creations(p)' = Creations(p)
  BY DEF Creations, caddyVars
<1> QED BY <1>1 DEF LocalRow, Solo, CreationIsOwned, InactiveIsUnrouted, AccountedFor, caddyVars

LEMMA RowCleanup ==
  ASSUME NEW p \in Previews, LocalRow(p), preview'[p].status = "cleanup_required",
         UNCHANGED <<caddyVars, running, boots>>
  PROVE  LocalRow(p)'
<1>1. Creations(p)' = Creations(p)
  BY DEF Creations, caddyVars
<1> QED BY <1>1 DEF LocalRow, Solo, CreationIsOwned, InactiveIsUnrouted, AccountedFor, caddyVars

ItemFrame == UNCHANGED <<caddyVars, branch, op, running, serving, quiet, boots, changes>>

LEMMA CleanupKeeps ==
  ASSUME PreviewInv, NEW w \in running, NEW p \in Previews, p \in job[w].at, job[w].step # "wait",
         ItemFrame, Cleanup(w, p)
  PROVE  PreviewInv'
<1>1. AtItem(w, p)
  BY AtItemHolds
<1>2. IsDone(w, p) /\ preview'[p] \in {preview[p], Becomes(preview[p], "cleanup_required")}
  BY <1>1, CleanupMoves DEF AtItem
<1>3. LocalRow(p)'
  <2>1. CASE preview'[p] = preview[p]
    BY <1>1, <2>1, RowSame DEF AtItem, ItemFrame
  <2>2. CASE preview'[p] = Becomes(preview[p], "cleanup_required")
    <3>1. preview'[p].status = "cleanup_required"
      BY <1>1, <2>2 DEF AtItem, Becomes, Rows
    <3> QED BY <1>1, <3>1, RowCleanup DEF AtItem, ItemFrame
  <2> QED BY <1>2, <2>1, <2>2
<1> QED BY <1>2, <1>3, MoveKeeps DEF ItemFrame

(* The job leaves the row as it is and is done with it.                      *)
LEMMA LeavingKeeps ==
  ASSUME PreviewInv, NEW w \in running, NEW p \in Previews, p \in job[w].at, job[w].step # "wait",
         ItemFrame, IsDone(w, p), preview'[p] = preview[p]
  PROVE  PreviewInv'
<1>1. AtItem(w, p)
  BY AtItemHolds
<1>2. LocalRow(p)'
  BY <1>1, RowSame DEF AtItem, ItemFrame
<1> QED BY <1>2, MoveKeeps DEF ItemFrame

LEMMA ThrowsKeeps ==
  ASSUME PreviewInv, NEW w \in running, NEW p \in Previews, p \in job[w].at, job[w].step # "wait",
         ItemFrame, Throws(w)
  PROVE  PreviewInv'
  BY AtItemHolds, ThrowsMoves, LeavingKeeps DEF AtItem

LEMMA SkipKeeps ==
  ASSUME PreviewInv, NEW w \in running, NEW p \in Previews, p \in job[w].at, job[w].step # "wait",
         ItemFrame, job' = NextPreview(w), UNCHANGED preview
  PROVE  PreviewInv'
  BY AtItemHolds, LeavesMoves, LeavingKeeps DEF AtItem

(* The row becomes inactive where the job saw no route, and no creation was   *)
(* on its way.                                                               *)
LEMMA InactiveRow ==
  ASSUME NEW w, NEW p \in Previews, AtItem(w, p), ItemFrame,
         preview'[p].status = "inactive", preview'[p].pending = NoIp,
         Solo => job[w].table[p] = NoIp,
         \/ job[w].step \in {"confirm", "recover"}
         \/ job[w].step = "decide" /\ (Solo => preview[p].status # "applying")
  PROVE  LocalRow(p)' /\ (Solo => Creations(p)' = {} /\ routes'[p] = NoIp)
<1>1. Creations(p)' = Creations(p) /\ routes' = routes /\ requests' = requests /\ boots' = boots /\ running' = running
  BY DEF Creations, caddyVars, ItemFrame
<1>2. ASSUME Solo PROVE Creations(p) = {} /\ routes[p] = NoIp
  BY <1>2 DEF AtItem, LocalRow, LocalJob, CreationIsOwned, Knows, RowAtStep
<1>3. ASSUME boots = 0 PROVE AccountedFor(p)'
  <2>1. Solo /\ routes[p] = NoIp
    BY <1>2, <1>3 DEF AtItem
  <2>2. \A r \in requests : r.preview = p => r.ip = NoIp
    BY <1>3 DEF AtItem
  <2> QED BY <1>1, <2>1, <2>2 DEF AccountedFor
<1> QED BY <1>1, <1>2, <1>3 DEF LocalRow, Solo, CreationIsOwned, InactiveIsUnrouted

(* A row in service, or on its way out, that changes between the two.         *)
LEMMA RestatusRow ==
  ASSUME NEW w, NEW p \in Previews, AtItem(w, p), ItemFrame,
         preview[p].status \notin {"applying", "cleanup_required"},
         NEW status \in Routed \cup {"removing"}, preview'[p] = Becomes(preview[p], status)
  PROVE  LocalRow(p)'
<1>1. /\ preview'[p].status = status /\ preview'[p].current = preview[p].current
      /\ preview'[p].pending = preview[p].pending
  BY DEF AtItem, Becomes, Rows
<1>2. Creations(p)' = Creations(p) /\ routes' = routes /\ requests' = requests /\ boots' = boots /\ running' = running
  BY DEF Creations, caddyVars, ItemFrame
<1>3. status \notin {"inactive", "applying", "cleanup_required"}
  BY DEF Routed
<1> QED BY <1>1, <1>2, <1>3 DEF AtItem, LocalRow, Solo, CreationIsOwned, InactiveIsUnrouted, AccountedFor

(* The pending configuration is the one the job saw.                         *)
LEMMA AppliedRow ==
  ASSUME NEW w, NEW p \in Previews, AtItem(w, p), ItemFrame,
         preview[p].status = "applying", preview'[p] = Applied(preview[p]),
         job[w].step \in {"decide", "recover", "confirm"},
         Solo => Creations(p) = {} /\ job[w].table[p] = preview[p].pending
  PROVE  LocalRow(p)' /\ preview'[p].status = "verifying"
<1>1. /\ preview'[p].status = "verifying" /\ preview'[p].current = preview[p].pending
      /\ preview'[p].pending = NoIp
  BY DEF AtItem, Applied, Rows
<1>2. Creations(p)' = Creations(p) /\ routes' = routes /\ requests' = requests /\ boots' = boots /\ running' = running
  BY DEF Creations, caddyVars, ItemFrame
<1>3. ASSUME boots = 0 PROVE AccountedFor(p)'
  <2>1. \A r \in requests : r.preview = p => r.ip = NoIp
    BY <1>3 DEF AtItem
  <2>2. routes[p] \in {NoIp, preview[p].pending}
    BY <1>3 DEF AtItem, LocalJob, SawRoute
  <2> QED BY <1>1, <1>2, <2>1, <2>2 DEF AccountedFor
<1> QED BY <1>1, <1>2, <1>3 DEF LocalRow, Solo, CreationIsOwned, InactiveIsUnrouted

(* The current configuration is the one the job saw, if there is one.        *)
LEMMA RejectedRow ==
  ASSUME NEW w, NEW p \in Previews, AtItem(w, p), ItemFrame,
         preview[p].status = "applying", preview'[p] = RejectApply(preview[p]),
         job[w].step \in {"decide", "recover"},
         Solo => /\ Creations(p) = {} /\ job[w].table[p] = preview[p].current
                 /\ job[w].step = "decide" => preview[p].current # NoIp
  PROVE  LocalRow(p)' /\ preview'[p].status \in {"inactive", "degraded"}
<1>0. preview[p].current = NoIp \/ preview[p].current # NoIp
  OBVIOUS
<1>1. CASE preview[p].current = NoIp
  <2>1. preview'[p].status = "inactive" /\ preview'[p].pending = NoIp
    BY <1>1 DEF AtItem, RejectApply, Inactive, Rows
  <2>2. Solo => job[w].step = "recover" /\ job[w].table[p] = NoIp
    BY <1>1
  <2>3. CASE Solo
    BY <2>1, <2>2, <2>3, InactiveRow
  <2>4. CASE ~Solo
    BY <2>1, <2>4 DEF LocalRow, Solo, AtItem, ItemFrame
  <2> QED BY <2>1, <2>3, <2>4
<1>2. CASE preview[p].current # NoIp
  <2>1. /\ preview'[p].status = "degraded" /\ preview'[p].current = preview[p].current
        /\ preview'[p].pending = NoIp
    BY <1>2 DEF AtItem, RejectApply, Rows
  <2>2. Creations(p)' = Creations(p) /\ routes' = routes /\ requests' = requests /\ boots' = boots /\ running' = running
    BY DEF Creations, caddyVars, ItemFrame
  <2>3. ASSUME boots = 0 PROVE AccountedFor(p)'
    <3>1. \A r \in requests : r.preview = p => r.ip = NoIp
      BY <2>3 DEF AtItem
    <3>2. routes[p] \in {NoIp, preview[p].current}
      BY <2>3 DEF AtItem, LocalJob, SawRoute
    <3> QED BY <2>1, <2>2, <3>1, <3>2 DEF AccountedFor
  <2> QED BY <2>1, <2>2, <2>3 DEF LocalRow, Solo, CreationIsOwned, InactiveIsUnrouted
<1> QED BY <1>0, <1>1, <1>2

-----------------------------------------------------------------------------
(* The steps at one preview, one lemma each.                                 *)

LEMMA InspectKeeps ==
  ASSUME PreviewInv, NEW w \in running, NEW p \in Previews, Inspect(w, p)
  PROVE  PreviewInv'
<1>1. p \in job[w].at /\ job[w].step = "inspect" /\ ItemFrame
  BY DEF Inspect, AtStep, Busy, ItemFrame
<1>2. AtItem(w, p)
  BY <1>1, AtItemHolds
<1>3. CASE Reads(w, "decide") /\ UNCHANGED preview
  <2>1. /\ GoesOn(w, p) /\ preview'[p] = preview[p]
        /\ job'[w].step = "decide" /\ job'[w].table = routes
    BY <1>2, <1>3, ReadsMoves DEF AtItem, ItemSteps
  <2>2. LocalRow(p)'
    BY <1>1, <1>2, <2>1, RowSame DEF AtItem, ItemFrame
  <2>3. Creations(p)' = Creations(p) /\ routes' = routes /\ boots' = boots
    BY <1>1 DEF Creations, caddyVars, ItemFrame
  <2>4. LocalJob(w, p)'
    BY <1>1, <1>2, <2>1, <2>3 DEF AtItem, LocalJob, LocalRow, Solo, RowAtStep, Knows, SawRoute,
       CreationIsOwned, Sent
  <2> QED BY <1>1, <2>1, <2>2, <2>4, MoveKeeps DEF ItemFrame
<1>4. CASE Cleanup(w, p)
  BY <1>1, <1>4, CleanupKeeps
<1> QED
  <2>1. (Reads(w, "decide") /\ UNCHANGED preview) \/ Cleanup(w, p)
    BY DEF Inspect, ReadTable, Reads
  <2> QED BY <1>3, <1>4, <2>1

LEMMA RejectedKeeps ==
  ASSUME PreviewInv, NEW w \in running, NEW p \in Previews, Rejected(w, p)
  PROVE  PreviewInv'
<1>1. p \in job[w].at /\ job[w].step = "rejected" /\ ItemFrame
  BY DEF Rejected, AtStep, Busy, ItemFrame
<1>2. AtItem(w, p)
  BY <1>1, AtItemHolds
<1>3. CASE Reads(w, "recover") /\ UNCHANGED preview
  <2>1. /\ GoesOn(w, p) /\ preview'[p] = preview[p]
        /\ job'[w].step = "recover" /\ job'[w].table = routes
    BY <1>2, <1>3, ReadsMoves DEF AtItem, ItemSteps
  <2>2. LocalRow(p)'
    BY <1>1, <1>2, <2>1, RowSame DEF AtItem, ItemFrame
  <2>3. Creations(p)' = Creations(p) /\ routes' = routes /\ boots' = boots
    BY <1>1 DEF Creations, caddyVars, ItemFrame
  <2>4. LocalJob(w, p)'
    BY <1>1, <1>2, <2>1, <2>3 DEF AtItem, LocalJob, LocalRow, Solo, RowAtStep, Knows, SawRoute,
       CreationIsOwned, Sent, Withdrawing, GoesOn, Moves
  <2> QED BY <1>1, <2>1, <2>2, <2>4, MoveKeeps DEF ItemFrame
<1>4. CASE Cleanup(w, p)
  BY <1>1, <1>4, CleanupKeeps
<1> QED
  <2>1. (Reads(w, "recover") /\ UNCHANGED preview) \/ Cleanup(w, p)
    BY DEF Rejected, ReadTable, Reads
  <2> QED BY <1>3, <1>4, <2>1

LEMMA ReadBackKeeps ==
  ASSUME PreviewInv, NEW w \in running, NEW p \in Previews, ReadBack(w, p)
  PROVE  PreviewInv'
<1>1. p \in job[w].at /\ job[w].step = "readback" /\ ItemFrame
  BY DEF ReadBack, AtStep, Busy, ItemFrame
<1>2. AtItem(w, p)
  BY <1>1, AtItemHolds
<1>3. CASE Reads(w, "confirm") /\ UNCHANGED preview /\ routes = Expected(job[w].table, p, Target(w, p))
  <2>1. /\ GoesOn(w, p) /\ preview'[p] = preview[p]
        /\ job'[w].step = "confirm" /\ job'[w].table = routes
    BY <1>2, <1>3, ReadsMoves DEF AtItem, ItemSteps
  <2>2. LocalRow(p)'
    BY <1>1, <1>2, <2>1, RowSame DEF AtItem, ItemFrame
  <2>3. Creations(p)' = Creations(p) /\ routes' = routes /\ boots' = boots
    BY <1>1 DEF Creations, caddyVars, ItemFrame
  <2>4. routes[p] = Target(w, p)
    BY <1>2, <1>3 DEF Expected, AtItem, JobType, Tables
  <2>5. Target(w, p)' = Target(w, p)
    BY <2>1 DEF Target, GoesOn, Moves, Withdrawing
  <2>6. LocalJob(w, p)'
    BY <1>1, <1>2, <2>1, <2>3, <2>4, <2>5 DEF AtItem, LocalJob, LocalRow, Solo, RowAtStep, Knows,
       SawRoute, CreationIsOwned, Sent, Withdrawing, GoesOn, Moves
  <2> QED BY <1>1, <2>1, <2>2, <2>6, MoveKeeps DEF ItemFrame
<1>4. CASE Cleanup(w, p)
  BY <1>1, <1>4, CleanupKeeps
<1> QED
  <2>1. \/ Reads(w, "confirm") /\ UNCHANGED preview /\ routes = Expected(job[w].table, p, Target(w, p))
        \/ Cleanup(w, p)
    BY DEF ReadBack, Reads
  <2> QED BY <1>3, <1>4, <2>1

LEMMA ProbeKeeps ==
  ASSUME PreviewInv, NEW w \in running, NEW p \in Previews, Probe(w, p)
  PROVE  PreviewInv'
<1>1. p \in job[w].at /\ job[w].step = "probe" /\ ItemFrame
  BY DEF Probe, AtStep, Busy, ItemFrame
<1>2. AtItem(w, p)
  BY <1>1, AtItemHolds
<1>3. CASE Goto(w, "apply") /\ UNCHANGED preview
  <2>1. /\ GoesOn(w, p) /\ preview'[p] = preview[p]
        /\ job'[w].step = "apply" /\ job'[w].table = job[w].table
    BY <1>2, <1>3, StepMoves DEF AtItem, ItemSteps
  <2>2. LocalRow(p)'
    BY <1>1, <1>2, <2>1, RowSame DEF AtItem, ItemFrame
  <2>3. Creations(p)' = Creations(p) /\ routes' = routes /\ boots' = boots
    BY <1>1 DEF Creations, caddyVars, ItemFrame
  <2>4. LocalJob(w, p)'
    BY <1>1, <1>2, <2>1, <2>3 DEF AtItem, LocalJob, Solo, RowAtStep, Knows, SawRoute,
       Sent, Withdrawing, GoesOn, Moves
  <2> QED BY <1>1, <2>1, <2>2, <2>4, MoveKeeps DEF ItemFrame
<1>4. CASE preview[p].status \in Routed /\ WritesLast(w, p, Becomes(preview[p], "degraded"))
  <2>1. Becomes(preview[p], "degraded") \in Rows
    BY <1>2, RowTypes DEF AtItem, PreviewStatuses, Applyable, Routed
  <2>2. IsDone(w, p) /\ preview'[p] = Becomes(preview[p], "degraded")
    BY <1>2, <1>4, <2>1, WritesLastMoves DEF AtItem
  <2>3. LocalRow(p)'
    BY <1>1, <1>2, <1>4, <2>2, RestatusRow DEF Routed
  <2> QED BY <1>1, <2>2, <2>3, MoveKeeps DEF ItemFrame
<1> QED
  <2>1. \/ Goto(w, "apply") /\ UNCHANGED preview
        \/ job' = NextPreview(w) /\ UNCHANGED preview
        \/ preview[p].status \in Routed /\ WritesLast(w, p, Becomes(preview[p], "degraded"))
        \/ Cleanup(w, p)
    BY DEF Probe
  <2> QED BY <1>1, <1>3, <1>4, <2>1, SkipKeeps, CleanupKeeps

LEMMA ApplyKeeps ==
  ASSUME PreviewInv, NEW w \in running, NEW p \in Previews, Apply(w, p)
  PROVE  PreviewInv'
<1>1. p \in job[w].at /\ job[w].step = "apply" /\ ItemFrame
  BY DEF Apply, AtStep, Busy, ItemFrame
<1>2. AtItem(w, p) /\ ~Withdrawing(w)
  BY <1>1, AtItemHolds DEF AtItem, LocalJob
<1>3. CASE preview[p].status \in Applyable /\ Writes(w, p, Applying(preview[p], job[w].branch.ip), "send")
  <2> DEFINE row == Applying(preview[p], job[w].branch.ip)
  <2>1. /\ row \in Rows /\ row.status = "applying" /\ row.pending = job[w].branch.ip
        /\ row.current = preview[p].current
    BY <1>2, RowTypes DEF AtItem, JobType, Applying, Rows
  <2>2. /\ GoesOn(w, p) /\ preview'[p] = row
        /\ job'[w].step = "send" /\ job'[w].table = job[w].table
    BY <1>2, <1>3, <2>1, WritesMoves DEF AtItem, ItemSteps
  <2> HIDE DEF row
  <2>3. /\ Creations(p)' = Creations(p) /\ routes' = routes /\ boots' = boots
        /\ requests' = requests /\ running' = running
    BY <1>1 DEF Creations, caddyVars, ItemFrame
  <2>4. Solo => Creations(p) = {}
    BY <1>1, <1>2 DEF AtItem, LocalJob, Knows
  <2>5. ASSUME boots = 0 PROVE AccountedFor(p)'
    <3>1. \A r \in requests : r.preview = p => r.ip = NoIp
      BY <1>1, <1>2, <2>5 DEF AtItem
    <3>2. preview[p].pending = NoIp /\ preview[p].status # "cleanup_required"
      BY <1>2, <1>3 DEF AtItem, LocalRow, Applyable, Routed
    <3>3. routes[p] # NoIp => routes[p] = preview[p].current
      BY <1>2, <2>5, <3>2 DEF AtItem, LocalRow, AccountedFor
    <3> QED BY <2>1, <2>2, <2>3, <3>1, <3>3 DEF AccountedFor
  <2>6. LocalRow(p)'
    BY <2>1, <2>2, <2>3, <2>4, <2>5 DEF LocalRow, Solo, CreationIsOwned, InactiveIsUnrouted
  <2>7. LocalJob(w, p)'
    BY <1>1, <1>2, <2>1, <2>2, <2>3, <2>4 DEF AtItem, LocalJob, Solo, RowAtStep, Knows, SawRoute,
       Sent, Withdrawing, GoesOn, Moves
  <2> QED BY <1>1, <2>2, <2>6, <2>7, MoveKeeps DEF ItemFrame
<1> QED
  <2>1. \/ job' = NextPreview(w) /\ UNCHANGED preview
        \/ Cleanup(w, p)
        \/ preview[p].status \in Applyable /\ Writes(w, p, Applying(preview[p], job[w].branch.ip), "send")
    BY DEF Apply
  <2> QED BY <1>1, <1>3, <2>1, SkipKeeps, CleanupKeeps

LEMMA ConfirmKeeps ==
  ASSUME PreviewInv, NEW w \in running, NEW p \in Previews, Confirm(w, p)
  PROVE  PreviewInv'
<1>1. p \in job[w].at /\ job[w].step = "confirm" /\ ItemFrame
  BY DEF Confirm, AtStep, Busy, ItemFrame
<1>2. AtItem(w, p)
  BY <1>1, AtItemHolds
<1>3. CASE ~Withdrawing(w) /\ preview[p].status = "applying" /\ Writes(w, p, Applied(preview[p]), "verify")
  <2>1. /\ GoesOn(w, p) /\ preview'[p] = Applied(preview[p])
        /\ job'[w].step = "verify" /\ job'[w].table = job[w].table
    BY <1>2, <1>3, RowTypes, WritesMoves DEF AtItem, ItemSteps
  <2>2. Solo => Creations(p) = {} /\ job[w].table[p] = preview[p].pending
    BY <1>1, <1>2, <1>3 DEF AtItem, LocalJob, Knows, RowAtStep, Sent, Target
  <2>3. LocalRow(p)' /\ preview'[p].status = "verifying"
    BY <1>1, <1>2, <1>3, <2>1, <2>2, AppliedRow
  <2>4. Creations(p)' = Creations(p) /\ boots' = boots
    BY <1>1 DEF Creations, caddyVars, ItemFrame
  <2>5. LocalJob(w, p)'
    BY <1>3, <2>1, <2>2, <2>3, <2>4 DEF LocalJob, Solo, RowAtStep, Knows, SawRoute,
       Sent, Withdrawing, GoesOn, Moves
  <2> QED BY <1>1, <2>1, <2>3, <2>5, MoveKeeps DEF ItemFrame
<1>4. CASE Withdrawing(w) /\ WritesLast(w, p, Inactive(preview[p]))
  <2>1. IsDone(w, p) /\ preview'[p] = Inactive(preview[p])
    BY <1>2, <1>4, RowTypes, WritesLastMoves DEF AtItem
  <2>2. preview'[p].status = "inactive" /\ preview'[p].pending = NoIp
    BY <1>2, <2>1 DEF AtItem, Inactive, Rows
  <2>3. Solo => job[w].table[p] = NoIp
    BY <1>1, <1>2, <1>4 DEF AtItem, LocalJob, Knows, Target
  <2>4. LocalRow(p)'
    BY <1>1, <1>2, <2>2, <2>3, InactiveRow
  <2> QED BY <1>1, <2>1, <2>4, MoveKeeps DEF ItemFrame
<1> QED BY <1>1, <1>3, <1>4, CleanupKeeps DEF Confirm

LEMMA VerifyKeeps ==
  ASSUME PreviewInv, NEW w \in running, NEW p \in Previews, Verify(w, p)
  PROVE  PreviewInv'
<1>1. p \in job[w].at /\ job[w].step = "verify" /\ ItemFrame
  BY DEF Verify, AtStep, Busy, ItemFrame
<1>2. AtItem(w, p)
  BY <1>1, AtItemHolds
<1>3. ASSUME NEW status \in {"active", "degraded"}, preview[p].status \in Routed,
             WritesLast(w, p, Becomes(preview[p], status))
      PROVE  PreviewInv'
  <2>1. Becomes(preview[p], status) \in Rows
    BY <1>2, RowTypes DEF AtItem, PreviewStatuses, Applyable, Routed
  <2>2. IsDone(w, p) /\ preview'[p] = Becomes(preview[p], status)
    BY <1>2, <1>3, <2>1, WritesLastMoves DEF AtItem
  <2>3. LocalRow(p)'
    BY <1>1, <1>2, <1>3, <2>2, RestatusRow DEF Routed
  <2> QED BY <1>1, <2>2, <2>3, MoveKeeps DEF ItemFrame
<1> QED
  <2>1. \/ \E status \in {"active", "degraded"} :
             preview[p].status \in Routed /\ WritesLast(w, p, Becomes(preview[p], status))
        \/ job' = NextPreview(w) /\ UNCHANGED preview
    BY DEF Verify, Routed
  <2> QED BY <1>1, <1>3, <2>1, SkipKeeps

(* recoverRemoving is called with a row that is being removed, or after the   *)
(* rejection of its removal.                                                 *)
LEMMA RemovalKeeps ==
  ASSUME PreviewInv, NEW w \in running, NEW p \in Previews, p \in job[w].at, ItemFrame,
         \/ job[w].step = "recover"
         \/ job[w].step = "decide" /\ job[w].rows[p].status = "removing",
         RecoverRemoval(w, p)
  PROVE  PreviewInv'
<1>1. AtItem(w, p)
  BY AtItemHolds
<1>2. CASE Observed(w, p) = NoIp /\ WritesLast(w, p, Inactive(preview[p]))
  <2>1. IsDone(w, p) /\ preview'[p] = Inactive(preview[p])
    BY <1>1, <1>2, RowTypes, WritesLastMoves DEF AtItem
  <2>2. preview'[p].status = "inactive" /\ preview'[p].pending = NoIp
    BY <1>1, <2>1 DEF AtItem, Inactive, Rows
  <2>3. job[w].table[p] = NoIp
    BY <1>2 DEF Observed
  <2>4. job[w].step = "decide" => (Solo => preview[p].status # "applying")
    BY <1>1 DEF AtItem
  <2>5. LocalRow(p)'
    BY <1>1, <2>2, <2>3, <2>4, InactiveRow
  <2> QED BY <2>1, <2>5, MoveKeeps DEF ItemFrame
<1>3. CASE preview[p].status = "removing" /\ WritesLast(w, p, Becomes(preview[p], "degraded"))
  <2>1. Becomes(preview[p], "degraded") \in Rows
    BY <1>1, RowTypes DEF AtItem, PreviewStatuses, Applyable, Routed
  <2>2. IsDone(w, p) /\ preview'[p] = Becomes(preview[p], "degraded")
    BY <1>1, <1>3, <2>1, WritesLastMoves DEF AtItem
  <2>3. LocalRow(p)'
    BY <1>1, <1>3, <2>2, RestatusRow DEF Routed
  <2> QED BY <2>2, <2>3, MoveKeeps DEF ItemFrame
<1> QED
  <2>1. \/ Cleanup(w, p) \/ Throws(w)
        \/ Observed(w, p) = NoIp /\ WritesLast(w, p, Inactive(preview[p]))
        \/ preview[p].status = "removing" /\ WritesLast(w, p, Becomes(preview[p], "degraded"))
    BY DEF RecoverRemoval
  <2> QED BY <1>2, <1>3, <2>1, CleanupKeeps, ThrowsKeeps

(* An apply is found done, or found without effect.                          *)
LEMMA RecoveredApply ==
  ASSUME NEW w, NEW p \in Previews, AtItem(w, p), ItemFrame,
         preview[p].status = "applying",
         \/ job[w].step = "recover"
         \/ job[w].step = "decide" /\ RecoverApply(job[w].rows[p], Observed(w, p)) # "absent",
         \/ /\ preview'[p] = Applied(preview[p])
            /\ RecoverApply(job[w].rows[p], Observed(w, p)) = "pending_applied"
         \/ /\ preview'[p] = RejectApply(preview[p])
            /\ \/ RecoverApply(job[w].rows[p], Observed(w, p)) = "current_retained"
               \/ /\ RecoverApply(job[w].rows[p], Observed(w, p)) = "absent"
                  /\ job[w].rows[p].current = NoIp
  PROVE  /\ LocalRow(p)'
         /\ preview'[p].status \in {"verifying", "inactive", "degraded"}
<1> DEFINE kind == RecoverApply(job[w].rows[p], Observed(w, p))
<1>1. Solo => Creations(p) = {}
  <2>1. job[w].step = "decide" => job[w].table[p] # NoIp
    BY DEF RecoverApply, Observed
  <2> QED BY <2>1 DEF AtItem, LocalJob, Knows
<1>2. CASE preview'[p] = Applied(preview[p]) /\ kind = "pending_applied"
  <2>1. Solo => job[w].table[p] = preview[p].pending
    BY <1>2 DEF AtItem, RecoverApply, Observed
  <2> QED BY <1>1, <1>2, <2>1, AppliedRow
<1>3. CASE preview'[p] = RejectApply(preview[p])
  <2>1. Solo => /\ job[w].table[p] = preview[p].current
                /\ job[w].step = "decide" => preview[p].current # NoIp
    <3>1. \/ kind = "current_retained"
          \/ kind = "absent" /\ job[w].rows[p].current = NoIp
          \/ kind = "pending_applied" /\ preview'[p] = Applied(preview[p])
      OBVIOUS
    <3>2. Applied(preview[p]) # RejectApply(preview[p])
      BY DEF AtItem, Applied, RejectApply, Inactive, Rows
    <3> QED BY <1>3, <3>1, <3>2 DEF AtItem, RecoverApply, Observed
  <2>2. LocalRow(p)' /\ preview'[p].status \in {"inactive", "degraded"}
    BY <1>1, <1>3, <2>1, RejectedRow
  <2> QED BY <2>2
<1> QED BY <1>2, <1>3

LEMMA RecoverKeeps ==
  ASSUME PreviewInv, NEW w \in running, NEW p \in Previews, Recover(w, p)
  PROVE  PreviewInv'
<1>1. p \in job[w].at /\ job[w].step = "recover" /\ ItemFrame
  BY DEF Recover, AtStep, Busy, ItemFrame
<1>2. AtItem(w, p)
  BY <1>1, AtItemHolds
<1> DEFINE kind == RecoverApply(job[w].rows[p], Observed(w, p))
<1>3. ASSUME preview[p].status = "applying", NEW row \in Rows, WritesLast(w, p, row),
             \/ row = Applied(preview[p]) /\ kind = "pending_applied"
             \/ /\ row = RejectApply(preview[p])
                /\ (kind = "current_retained" \/ (kind = "absent" /\ job[w].rows[p].current = NoIp))
      PROVE  PreviewInv'
  <2>1. IsDone(w, p) /\ preview'[p] = row
    BY <1>2, <1>3, WritesLastMoves DEF AtItem
  <2>2. LocalRow(p)'
    BY <1>1, <1>2, <1>3, <2>1, RecoveredApply
  <2> QED BY <1>1, <2>1, <2>2, MoveKeeps DEF ItemFrame
<1>4. CASE RecoverApplication(w, p)
  <2>1. Applied(preview[p]) \in Rows /\ RejectApply(preview[p]) \in Rows
    BY <1>2, RowTypes DEF AtItem
  <2>2. \/ Cleanup(w, p) \/ Throws(w)
        \/ /\ preview[p].status = "applying" /\ kind = "pending_applied"
           /\ WritesLast(w, p, Applied(preview[p]))
        \/ /\ preview[p].status = "applying"
           /\ (kind = "current_retained" \/ (kind = "absent" /\ job[w].rows[p].current = NoIp))
           /\ WritesLast(w, p, RejectApply(preview[p]))
    <3>1. kind \in {"absent", "pending_applied", "current_retained", "unknown"}
      BY DEF RecoverApply
    <3> QED BY <1>4, <3>1 DEF RecoverApplication
  <2> QED BY <1>1, <1>3, <2>1, <2>2, CleanupKeeps, ThrowsKeeps
<1> QED BY <1>1, <1>4, RemovalKeeps DEF Recover

LEMMA DecideApplyingKeeps ==
  ASSUME PreviewInv, NEW w \in running, NEW p \in Previews, p \in job[w].at,
         job[w].step = "decide", ItemFrame, DecideApplying(w, p)
  PROVE  PreviewInv'
<1>2. AtItem(w, p)
  BY AtItemHolds
<1> DEFINE kind == RecoverApply(job[w].rows[p], Observed(w, p))
           next == IF kind = "pending_applied" THEN Applied(preview[p]) ELSE RejectApply(preview[p])
<1>3. next \in Rows
  BY <1>2, RowTypes DEF AtItem
<1>4. \/ Cleanup(w, p) \/ Throws(w)
      \/ /\ kind \in {"pending_applied", "current_retained"}
         /\ preview[p].status = "applying"
         /\ (Writes(w, p, next, "decide") \/ WritesLast(w, p, next))
  BY DEF DecideApplying, RecoverApply
<1>5. ASSUME kind \in {"pending_applied", "current_retained"}, preview[p].status = "applying",
             preview'[p] = next
      PROVE  LocalRow(p)' /\ preview'[p].status \in {"verifying", "inactive", "degraded"}
  BY <1>2, <1>5, RecoveredApply
<1>6. CASE /\ kind \in {"pending_applied", "current_retained"} /\ preview[p].status = "applying"
           /\ WritesLast(w, p, next)
  <2>1. IsDone(w, p) /\ preview'[p] = next
    BY <1>2, <1>3, <1>6, WritesLastMoves DEF AtItem
  <2> QED BY <1>5, <1>6, <2>1, MoveKeeps DEF ItemFrame
<1>7. CASE /\ kind \in {"pending_applied", "current_retained"} /\ preview[p].status = "applying"
           /\ Writes(w, p, next, "decide")
  <2>1. /\ GoesOn(w, p) /\ preview'[p] = next
        /\ job'[w].step = "decide" /\ job'[w].table = job[w].table
    BY <1>2, <1>3, <1>7, WritesMoves DEF AtItem, ItemSteps
  <2>2. job[w].table[p] # NoIp
    BY <1>7 DEF RecoverApply, Observed
  <2>3. Creations(p)' = Creations(p) /\ routes' = routes /\ boots' = boots
    BY DEF Creations, caddyVars, ItemFrame
  <2>4. preview'[p].status \in {"verifying", "inactive", "degraded"} /\ LocalRow(p)'
    BY <1>5, <1>7, <2>1
  <2>5. LocalJob(w, p)'
    BY <1>2, <2>1, <2>2, <2>3, <2>4 DEF AtItem, LocalJob, Solo, RowAtStep, Knows, SawRoute,
       Sent, Withdrawing, GoesOn, Moves
  <2> QED BY <2>1, <2>4, <2>5, MoveKeeps DEF ItemFrame
<1> QED BY <1>4, <1>6, <1>7, CleanupKeeps, ThrowsKeeps

LEMMA DecideWithdrawalKeeps ==
  ASSUME PreviewInv, NEW w \in running, NEW p \in Previews, p \in job[w].at,
         job[w].step = "decide", ItemFrame, DecideWithdrawal(w, p)
  PROVE  PreviewInv'
<1>1. AtItem(w, p) /\ Withdrawing(w) /\ job[w].rows[p].status # "applying"
  BY AtItemHolds DEF DecideWithdrawal
<1>2. CASE Observed(w, p) = NoIp /\ WritesLast(w, p, Inactive(preview[p]))
  <2>1. IsDone(w, p) /\ preview'[p] = Inactive(preview[p])
    BY <1>1, <1>2, RowTypes, WritesLastMoves DEF AtItem
  <2>2. preview'[p].status = "inactive" /\ preview'[p].pending = NoIp
    BY <1>1, <2>1 DEF AtItem, Inactive, Rows
  <2>3. job[w].table[p] = NoIp /\ (Solo => preview[p].status # "applying")
    BY <1>1, <1>2 DEF Observed, AtItem
  <2>4. LocalRow(p)'
    BY <1>1, <2>2, <2>3, InactiveRow
  <2> QED BY <2>1, <2>4, MoveKeeps DEF ItemFrame
<1>3. CASE /\ Observed(w, p) # NoIp /\ preview[p].status \in Routed
           /\ Writes(w, p, Becomes(preview[p], "removing"), "send")
  <2>1. /\ Becomes(preview[p], "removing") \in Rows
        /\ Becomes(preview[p], "removing").status = "removing"
    BY <1>1, RowTypes DEF AtItem, PreviewStatuses, Becomes, Rows
  <2>2. /\ GoesOn(w, p) /\ preview'[p] = Becomes(preview[p], "removing")
        /\ job'[w].step = "send" /\ job'[w].table = job[w].table
    BY <1>1, <1>3, <2>1, WritesMoves DEF AtItem, ItemSteps
  <2>3. LocalRow(p)'
    BY <1>1, <1>3, <2>2, RestatusRow DEF Routed
  <2>4. Creations(p)' = Creations(p) /\ routes' = routes /\ boots' = boots
    BY DEF Creations, caddyVars, ItemFrame
  <2>5. LocalJob(w, p)'
    BY <1>1, <1>3, <2>1, <2>2, <2>4 DEF AtItem, LocalJob, Solo, RowAtStep, Knows, SawRoute,
       Sent, Withdrawing, GoesOn, Moves, Observed
  <2> QED BY <2>2, <2>3, <2>5, MoveKeeps DEF ItemFrame
<1> QED
  <2>1. \/ job[w].rows[p].status = "removing" /\ RecoverRemoval(w, p)
        \/ job' = NextPreview(w) /\ UNCHANGED preview
        \/ Throws(w) \/ Cleanup(w, p)
        \/ Observed(w, p) = NoIp /\ WritesLast(w, p, Inactive(preview[p]))
        \/ /\ Observed(w, p) # NoIp /\ preview[p].status \in Routed
           /\ Writes(w, p, Becomes(preview[p], "removing"), "send")
    BY DEF DecideWithdrawal
  <2> QED BY <1>2, <1>3, <2>1, RemovalKeeps, SkipKeeps, ThrowsKeeps, CleanupKeeps

LEMMA DecideApplyKeeps ==
  ASSUME PreviewInv, NEW w \in running, NEW p \in Previews, p \in job[w].at,
         job[w].step = "decide", ItemFrame, DecideApply(w, p)
  PROVE  PreviewInv'
<1>1. AtItem(w, p) /\ ~Withdrawing(w) /\ job[w].rows[p].status # "applying"
  BY AtItemHolds DEF DecideApply
<1>2. Creations(p)' = Creations(p) /\ routes' = routes /\ boots' = boots
  BY DEF Creations, caddyVars, ItemFrame
<1>3. CASE Observed(w, p) = NoIp /\ Writes(w, p, Inactive(preview[p]), "probe")
  <2>1. /\ GoesOn(w, p) /\ preview'[p] = Inactive(preview[p])
        /\ job'[w].step = "probe" /\ job'[w].table = job[w].table
    BY <1>1, <1>3, RowTypes, WritesMoves DEF AtItem, ItemSteps
  <2>2. preview'[p].status = "inactive" /\ preview'[p].pending = NoIp
    BY <1>1, <2>1 DEF AtItem, Inactive, Rows
  <2>3. job[w].table[p] = NoIp /\ (Solo => preview[p].status # "applying")
    BY <1>1, <1>3 DEF Observed, AtItem
  <2>4. LocalRow(p)' /\ (Solo => Creations(p)' = {} /\ routes'[p] = NoIp)
    BY <1>1, <2>2, <2>3, InactiveRow
  <2>5. LocalJob(w, p)'
    BY <1>1, <1>2, <2>1, <2>2, <2>4 DEF AtItem, LocalJob, Solo, RowAtStep, Knows, SawRoute,
       Sent, Withdrawing, GoesOn, Moves
  <2> QED BY <2>1, <2>4, <2>5, MoveKeeps DEF ItemFrame
<1>4. ASSUME NEW s \in {"probe", "verify"}, Goto(w, s), UNCHANGED preview,
             Observed(w, p) = NoIp => job[w].rows[p].status = "inactive"
      PROVE  PreviewInv'
  <2>1. /\ GoesOn(w, p) /\ preview'[p] = preview[p]
        /\ job'[w].step = s /\ job'[w].table = job[w].table
    BY <1>1, <1>4, StepMoves DEF AtItem, ItemSteps
  <2>2. LocalRow(p)'
    BY <1>1, <2>1, RowSame DEF AtItem, ItemFrame
  <2>3. Solo => Creations(p) = {} /\ preview[p].status \notin {"applying", "cleanup_required"}
    BY <1>1, <1>4 DEF AtItem, LocalRow, LocalJob, CreationIsOwned, Knows, RowAtStep, Observed
  <2>4. LocalJob(w, p)'
    BY <1>1, <1>2, <1>4, <2>1, <2>3 DEF AtItem, LocalJob, Solo, RowAtStep, Knows, SawRoute,
       Sent, Withdrawing, GoesOn, Moves
  <2> QED BY <2>1, <2>2, <2>4, MoveKeeps DEF ItemFrame
<1> QED
  <2>1. \/ Throws(w) \/ Cleanup(w, p)
        \/ Observed(w, p) = NoIp /\ Writes(w, p, Inactive(preview[p]), "probe")
        \/ \E s \in {"probe", "verify"} :
             /\ Goto(w, s) /\ UNCHANGED preview
             /\ Observed(w, p) = NoIp => job[w].rows[p].status = "inactive"
    BY DEF DecideApply
  <2> QED BY <1>3, <1>4, <2>1, ThrowsKeeps, CleanupKeeps

LEMMA DecideKeeps ==
  ASSUME PreviewInv, NEW w \in running, NEW p \in Previews, Decide(w, p)
  PROVE  PreviewInv'
<1>1. p \in job[w].at /\ job[w].step = "decide" /\ ItemFrame
  BY DEF Decide, AtStep, Busy, ItemFrame
<1> QED BY <1>1, DecideApplyingKeeps, DecideWithdrawalKeeps, DecideApplyKeeps DEF Decide

-----------------------------------------------------------------------------
(* A job that goes from one preview to the next, or begins, or ends; rows     *)
(* change in their withdrawal mark, or ask for an operator.                  *)
RowsKeep ==
  /\ preview' \in [Previews -> Rows]
  /\ \A p \in Previews :
       \/ /\ preview'[p].status = preview[p].status
          /\ preview'[p].current = preview[p].current /\ preview'[p].pending = preview[p].pending
       \/ preview'[p].status = "cleanup_required"

LEMMA RowsLocal ==
  ASSUME RowsKeep, UNCHANGED <<caddyVars, running, boots>>, NEW p \in Previews, LocalRow(p)
  PROVE  LocalRow(p)'
<1>1. Creations(p)' = Creations(p) /\ routes' = routes /\ requests' = requests /\ boots' = boots /\ running' = running
  BY DEF Creations, caddyVars
<1>2. CASE preview'[p].status = "cleanup_required"
  BY <1>2, RowCleanup
<1>3. CASE /\ preview'[p].status = preview[p].status
           /\ preview'[p].current = preview[p].current /\ preview'[p].pending = preview[p].pending
  BY <1>1, <1>3 DEF LocalRow, Solo, CreationIsOwned, InactiveIsUnrouted, AccountedFor
<1> QED BY <1>2, <1>3 DEF RowsKeep

LEMMA LocalRows == PreviewInv => \A p \in Previews : LocalRow(p)
  BY DEF PreviewInv, LocalRow, ShapeInv, PendingIsIntent, RouteInv, AccountInv

LEMMA JobKeeps ==
  ASSUME PreviewInv, NEW w \in running, job[w].step # "wait",
         UNCHANGED <<caddyVars, running, serving, quiet, boots, changes>>,
         RowsKeep,
         branch' \in [status : BranchStatuses, ip : Ips \cup {NoIp}],
         op' \in [step : OpSteps, by : Workers \cup {NoWorker}],
         job' \in [Workers -> JobType], OthersSame(w), Shape(w)',
         Solo => /\ Synced(w)' /\ StopInv'
                 /\ \A p \in job'[w].at : RowAtStep(w, p)' /\ Knows(w, p)',
         boots = 0 => \A p \in job'[w].at : SawRoute(w, p)'
  PROVE  PreviewInv'
<1>0. w \in Workers /\ TypeInv /\ ShapeInv
  BY DEF PreviewInv, TypeInv, TypeOK
<1>1. TypeInv'
  BY <1>0, TypeStep DEF TypeInv, TypeOK, caddyVars, RowsKeep
<1>2. \A p \in Previews : LocalRow(p)'
  BY LocalRows, RowsLocal
<1>3. ShapeInv'
  <2>1. ASSUME NEW v \in Workers \ {w} PROVE Shape(v)'
    <3>1. SameJob(job[v], job'[v]) /\ Shape(v)
      BY <1>0, <2>1 DEF ShapeInv, OthersSame
    <3> QED BY <3>1 DEF Shape, SameJob, Withdrawing
  <2>2. ASSUME NEW r \in requests' PROVE RequestIsOwn(r)'
    <3>1. r \in requests /\ RequestIsOwn(r)
      BY <1>0, <2>2 DEF ShapeInv, caddyVars
    <3>2. CASE r.by = NoWorker
      BY <3>2 DEF RequestIsOwn
    <3>3. CASE r.by # NoWorker
      <4>1. r.by \in Workers \ {w}
        BY <1>0, <3>1, <3>3 DEF RequestIsOwn, TypeInv, TypeOK
      <4>2. SameJob(job[r.by], job'[r.by])
        BY <4>1 DEF OthersSame
      <4> QED BY <3>1, <3>3, <4>2 DEF RequestIsOwn, SameJob, Target, Withdrawing
    <3> QED BY <3>2, <3>3
  <2>3. PendingIsIntent'
    BY <1>2 DEF LocalRow, PendingIsIntent
  <2> QED BY <2>1, <2>2, <2>3 DEF ShapeInv
<1>4. Solo' <=> Solo
  BY DEF Solo
<1>5. ASSUME Solo PROVE SoloInv' /\ RouteInv' /\ StopInv'
  <2>1. \A v \in running : v = w
    BY <1>5 DEF PreviewInv, SoloInv
  <2> QED BY <1>2, <1>4, <1>5, <2>1 DEF SoloInv, RouteInv, LocalRow
<1>6. ASSUME boots = 0 PROVE AccountInv'
  <2>1. \A v \in running : v = w
    BY <1>6 DEF PreviewInv, SoloInv, Solo
  <2> QED BY <1>2, <1>6, <2>1 DEF AccountInv, LocalRow
<1> QED BY <1>1, <1>3, <1>4, <1>5, <1>6 DEF PreviewInv

(* One process puts its job to j, and no row changes.                        *)
LEMMA PutKeeps ==
  ASSUME PreviewInv, NEW w \in running, job[w].step # "wait",
         UNCHANGED <<caddyVars, rowVars, running, serving, quiet, boots, changes>>,
         job' \in [Workers -> JobType], OthersSame(w), Shape(w)',
         Solo => Synced(w)' /\ (op.step \in {"gate", "stop"} /\ Blocked(w) => Blocked(w)'),
         \A p \in job'[w].at :
           job'[w].step = "inspect" /\ (Solo => preview[p].status # "cleanup_required")
  PROVE  PreviewInv'
<1>1. RowsKeep
  BY DEF PreviewInv, TypeInv, TypeOK, RowsKeep, rowVars
<1>2. ASSUME Solo PROVE StopInv'
  <2>1. \A v \in running : v = w
    BY <1>2 DEF PreviewInv, SoloInv
  <2> QED BY <1>2, <2>1 DEF PreviewInv, StopInv, GateOpen, rowVars
<1>3. \A p \in job'[w].at : (Solo => RowAtStep(w, p)') /\ Knows(w, p)' /\ SawRoute(w, p)'
  BY DEF RowAtStep, Knows, SawRoute, Sent, rowVars
<1>4. /\ branch' \in [status : BranchStatuses, ip : Ips \cup {NoIp}]
      /\ op' \in [step : OpSteps, by : Workers \cup {NoWorker}]
  BY DEF PreviewInv, TypeInv, TypeOK, rowVars
<1> QED BY <1>1, <1>2, <1>3, <1>4, JobKeeps

LEMMA FreeJob ==
  ASSUME PreviewInv, NEW w \in Workers, Free(w)
  PROVE  /\ w \in running /\ job[w].step = "none" /\ job[w].at = {} /\ job[w].todo = {}
         /\ Shape(w)
  BY DEF PreviewInv, ShapeInv, Shape, Free, ItemSteps

LEMMA StartPassKeeps ==
  ASSUME PreviewInv, NEW w \in Workers, StartPass(w)
  PROVE  PreviewInv'
<1>1. w \in running /\ job[w].step = "none" /\ TypeInv
  BY FreeJob DEF StartPass, PreviewInv
<1>2. job' = Put(w, Pass)
  BY Zenon DEF StartPass, Put
<1>3. job' \in [Workers -> JobType] /\ job'[w] = Pass /\ OthersSame(w)
  BY <1>1, <1>2, NoJobTyped, JobEffect DEF OthersSame
<1>4. /\ Pass.kind = "pass" /\ Pass.step = "read" /\ Pass.reads = {"branch", "operation", "rows"}
      /\ Pass.todo = {} /\ Pass.at = {} /\ Pass.stale = {}
  BY DEF Pass, NoJob
<1>5. Shape(w)' /\ Synced(w)' /\ Blocked(w)'
  BY <1>1, <1>3, <1>4 DEF Shape, Synced, Blocked, ItemSteps, Withdrawing, StartPass
<1> QED BY <1>1, <1>3, <1>4, <1>5, PutKeeps DEF StartPass

LEMMA ReadKeeps ==
  ASSUME PreviewInv, NEW w \in Workers, Read(w)
  PROVE  PreviewInv'
<1>1. /\ w \in running /\ job[w].step = "read" /\ TypeInv /\ job[w] \in JobType
      /\ Shape(w) /\ job[w].at = {} /\ job[w].todo = {}
  BY DEF Read, Busy, PreviewInv, TypeInv, ShapeInv, Shape, ItemSteps
<1>2. PICK q \in job[w].reads :
        job' = [job EXCEPT
                  ![w].reads = job[w].reads \ {q},
                  ![w].branch = IF q = "branch" THEN branch ELSE job[w].branch,
                  ![w].blocked = IF q = "operation" THEN OperationBlocked ELSE job[w].blocked,
                  ![w].rows = IF q = "rows" THEN preview ELSE job[w].rows,
                  ![w].stale = IF q = "rows" THEN {} ELSE job[w].stale]
  BY Zenon DEF Read
<1> DEFINE reads == job[w].reads \ {q}
           seen == IF q = "branch" THEN branch ELSE job[w].branch
           blocked == IF q = "operation" THEN OperationBlocked ELSE job[w].blocked
           rows == IF q = "rows" THEN preview ELSE job[w].rows
           stale == IF q = "rows" THEN {} ELSE job[w].stale
           j == [job[w] EXCEPT !.reads = reads, !.branch = seen, !.blocked = blocked,
                               !.rows = rows, !.stale = stale]
<1>3. job' = Put(w, j)
  BY <1>2, Zenon DEF Put
<1>a. /\ reads \in SUBSET {"branch", "operation", "rows"} /\ blocked \in BOOLEAN
      /\ seen \in [status : BranchStatuses, ip : Ips \cup {NoIp}]
      /\ rows \in [Previews -> Rows] /\ stale \in SUBSET Previews
  <2>1. OperationBlocked \in BOOLEAN /\ preview \in [Previews -> Rows]
        /\ branch \in [status : BranchStatuses, ip : Ips \cup {NoIp}]
    BY DEF OperationBlocked, PreviewInv, TypeInv, TypeOK
  <2> QED BY <1>1, <2>1 DEF JobType
<1>4. /\ j \in JobType /\ j.kind = job[w].kind /\ j.step = job[w].step /\ j.todo = job[w].todo
      /\ j.at = job[w].at /\ j.reads = reads /\ j.blocked = blocked
      /\ j.rows = rows /\ j.stale = stale
  <2> HIDE DEF reads, seen, blocked, rows, stale
  <2> QED BY <1>1, <1>a DEF JobType
<1> HIDE DEF j
<1>5. job' \in [Workers -> JobType] /\ job'[w] = j /\ OthersSame(w)
  BY <1>1, <1>3, <1>4, JobEffect DEF OthersSame
<1>6. Shape(w)'
  BY <1>1, <1>4, <1>5 DEF Shape, ItemSteps, Withdrawing, Read
<1>7. Solo => Synced(w)'
  <2>1. Solo => Synced(w)
    BY <1>1 DEF PreviewInv, SoloInv
  <2> QED BY <1>1, <1>4, <1>5, <2>1 DEF Synced, Read, rowVars
<1>8. op.step \in {"gate", "stop"} /\ Blocked(w) => Blocked(w)'
  BY <1>1, <1>4, <1>5 DEF Blocked, OperationBlocked
<1> QED BY <1>1, <1>4, <1>5, <1>6, <1>7, <1>8, PutKeeps DEF Read

(* Every row is marked for withdrawal, and the job takes them on.            *)
LEMMA WithdrawalKeeps ==
  ASSUME PreviewInv, NEW w \in running, job[w].step # "wait",
         NEW kind \in {"removal", "withdrawal"}, RequestWithdrawal(w, kind),
         UNCHANGED <<caddyVars, branch, running, serving, quiet, boots, changes>>,
         op' \in [step : OpSteps, by : Workers \cup {NoWorker}],
         Solo => op'.step \notin {"gate", "stop"}
  PROVE  PreviewInv'
<1>0. w \in Workers /\ TypeInv /\ preview \in [Previews -> Rows]
  BY DEF PreviewInv, TypeInv, TypeOK
<1> DEFINE j == [NoJob EXCEPT !.kind = kind, !.step = "next", !.todo = Previews, !.rows = Withdrawn]
           ps == {p \in Previews : ~preview[p].withdrawal}
<1>1. Withdrawn \in [Previews -> Rows]
  <2>1. \A p \in Previews : [preview[p] EXCEPT !.withdrawal = TRUE] \in Rows
    BY <1>0 DEF Rows
  <2> QED BY <2>1 DEF Withdrawn
<1>2. RowsKeep /\ preview' = Withdrawn
  <2>1. preview' = Withdrawn
    BY DEF RequestWithdrawal
  <2>2. \A p \in Previews :
          /\ Withdrawn[p].status = preview[p].status
          /\ Withdrawn[p].current = preview[p].current /\ Withdrawn[p].pending = preview[p].pending
    BY <1>0 DEF Withdrawn, Rows
  <2> QED BY <1>1, <2>1, <2>2 DEF RowsKeep
<1>3. /\ j \in JobType /\ j.kind = kind /\ j.step = "next" /\ j.todo = Previews
      /\ j.rows = Withdrawn /\ j.at = {} /\ j.stale = {}
  BY <1>1, NoJobTyped DEF NoJob, JobType, JobSteps
<1>4. job' = Stale(w, ps, Put(w, j))
  BY Zenon DEF RequestWithdrawal, Put
<1>5. ps \in SUBSET Previews
  OBVIOUS
<1> HIDE DEF j, ps
<1>6. job' \in [Workers -> JobType] /\ job'[w] = j /\ OthersSame(w)
  BY <1>0, <1>3, <1>4, <1>5, WroteEffect
<1>7. Shape(w)' /\ Synced(w)'
  BY <1>0, <1>2, <1>3, <1>6 DEF Shape, Synced, ItemSteps, Withdrawing
<1>8. Solo => StopInv'
  BY DEF StopInv
<1>9. branch' \in [status : BranchStatuses, ip : Ips \cup {NoIp}]
  BY <1>0 DEF TypeInv, TypeOK
<1> QED BY <1>2, <1>3, <1>6, <1>7, <1>8, <1>9, JobKeeps

(* A job ends.                                                               *)
LEMMA FinishKeeps ==
  ASSUME PreviewInv, NEW w \in running, job[w].step # "wait",
         UNCHANGED <<caddyVars, running, serving, quiet, boots, changes>>, RowsKeep,
         NEW ps \in SUBSET Previews, job' = Finish(w) \/ job' = Stale(w, ps, Finish(w)),
         branch' \in [status : BranchStatuses, ip : Ips \cup {NoIp}],
         op' \in [step : OpSteps, by : Workers \cup {NoWorker}],
         Solo => (op'.step = "stop" => GateOpen')
  PROVE  PreviewInv'
<1>0. w \in Workers /\ TypeInv /\ Finish(w) = Put(w, NoJob)
  BY DEF PreviewInv, TypeInv, TypeOK, Finish, Put
<1>1. job' \in [Workers -> JobType] /\ job'[w] = NoJob /\ OthersSame(w)
  <2>1. CASE job' = Finish(w)
    BY <1>0, <2>1, NoJobTyped, JobEffect DEF OthersSame
  <2>2. CASE job' = Stale(w, ps, Finish(w))
    BY <1>0, <2>2, NoJobTyped, WroteEffect
  <2> QED BY <2>1, <2>2
<1>2. NoJob.kind = "none" /\ NoJob.step = "none" /\ NoJob.todo = {} /\ NoJob.at = {} /\ NoJob.stale = {}
  BY DEF NoJob
<1>3. Shape(w)' /\ Synced(w)' /\ Blocked(w)'
  BY <1>1, <1>2 DEF Shape, Synced, Blocked, ItemSteps, Withdrawing
<1>4. Solo => StopInv'
  <2>1. Solo => \A v \in running : v = w
    BY DEF PreviewInv, SoloInv
  <2> QED BY <1>3, <2>1 DEF StopInv
<1> QED BY <1>1, <1>2, <1>3, <1>4, JobKeeps

LEMMA PlanPassKeeps ==
  ASSUME PreviewInv, NEW w \in Workers, PlanPass(w)
  PROVE  PreviewInv'
<1>1. /\ w \in running /\ job[w].step = "read" /\ job[w].reads = {} /\ TypeInv /\ ShapeInv
      /\ job[w] \in JobType /\ Shape(w) /\ job[w].at = {} /\ job[w].kind # "none"
  BY DEF PlanPass, Busy, PreviewInv, TypeInv, ShapeInv, Shape, ItemSteps
<1>2. /\ branch \in [status : BranchStatuses, ip : Ips \cup {NoIp}]
      /\ op \in [step : OpSteps, by : Workers \cup {NoWorker}]
      /\ (UNCHANGED preview => RowsKeep)
  BY <1>1 DEF TypeInv, TypeOK, RowsKeep
<1>3. CASE job' = Finish(w) /\ UNCHANGED preview
  <2>1. Solo => (op'.step = "stop" => GateOpen')
    BY <1>3 DEF PlanPass, PreviewInv, StopInv, GateOpen
  <2> QED BY <1>1, <1>2, <1>3, <2>1, FinishKeeps DEF PlanPass
<1>4. CASE ~job[w].blocked /\ RequestWithdrawal(w, "removal")
  <2>1. Solo => op.step \notin {"gate", "stop"}
    BY <1>1, <1>4 DEF PreviewInv, StopInv, Blocked
  <2> QED BY <1>1, <1>2, <1>4, <2>1, WithdrawalKeeps DEF PlanPass
<1>5. CASE /\ ~job[w].blocked /\ UNCHANGED preview
           /\ job' = [job EXCEPT ![w].kind = IF Eligible(job[w].branch) THEN "pass" ELSE "removal",
                                 ![w].step = "next", ![w].todo = Previews]
  <2> DEFINE k == IF Eligible(job[w].branch) THEN "pass" ELSE "removal"
             j == [job[w] EXCEPT !.kind = k, !.step = "next", !.todo = Previews]
  <2>1. job' = Put(w, j)
    BY <1>5, Zenon DEF Put
  <2>2. k \in {"pass", "removal"}
    OBVIOUS
  <2>3. /\ j \in JobType /\ j.kind = k /\ j.step = "next" /\ j.todo = Previews
        /\ j.at = {} /\ j.stale = job[w].stale /\ j.rows = job[w].rows
    <3> HIDE DEF k
    <3> QED BY <1>1, <2>2 DEF JobType, JobSteps
  <2> HIDE DEF k, j
  <2>4. job' \in [Workers -> JobType] /\ job'[w] = j /\ OthersSame(w)
    BY <1>1, <2>1, <2>3, JobEffect DEF OthersSame, TypeInv, TypeOK
  <2>5. Shape(w)'
    BY <1>1, <2>2, <2>3, <2>4 DEF Shape, ItemSteps, Withdrawing, PlanPass
  <2>6. Solo => Synced(w)'
    <3>1. Solo => Synced(w)
      BY <1>1 DEF PreviewInv, SoloInv
    <3> QED BY <1>1, <1>5, <2>3, <2>4, <3>1 DEF Synced
  <2>7. ~Blocked(w)
    BY <1>1, <1>5 DEF Blocked
  <2> QED BY <1>1, <1>5, <2>3, <2>4, <2>5, <2>6, <2>7, PutKeeps DEF PlanPass, rowVars
<1> QED
  <2>1. \/ job' = Finish(w) /\ UNCHANGED preview
        \/ ~job[w].blocked /\ RequestWithdrawal(w, "removal")
        \/ /\ ~job[w].blocked /\ UNCHANGED preview
           /\ job' = [job EXCEPT ![w].kind = IF Eligible(job[w].branch) THEN "pass" ELSE "removal",
                                 ![w].step = "next", ![w].todo = Previews]
    BY Zenon DEF PlanPass
  <2> QED BY <1>3, <1>4, <1>5, <2>1

LEMMA ProvenanceFailsKeeps ==
  ASSUME PreviewInv, NEW w \in Workers, ProvenanceFails(w)
  PROVE  PreviewInv'
<1>1. w \in running /\ job[w].step = "next" /\ job[w].kind = "pass" /\ TypeInv
  BY DEF ProvenanceFails, Busy, PreviewInv
<1> DEFINE failing == {p \in Previews : CleanupApplies(w, p)}
<1>2. preview' = [p \in Previews |-> IF p \in failing THEN Becomes(preview[p], "cleanup_required")
                                     ELSE preview[p]]
  BY DEF ProvenanceFails
<1>3. \A p \in Previews : preview[p] \in Rows
  BY <1>1 DEF TypeInv, TypeOK
<1>4. ASSUME NEW p \in Previews
      PROVE  /\ Becomes(preview[p], "cleanup_required") \in Rows
             /\ Becomes(preview[p], "cleanup_required").status = "cleanup_required"
  <2>1. preview[p] \in Rows /\ "cleanup_required" \in PreviewStatuses
    BY <1>3 DEF PreviewStatuses
  <2> QED BY <2>1, RowTypes DEF Becomes, Rows
<1>5. job' = Stale(w, failing, Finish(w)) /\ failing \in SUBSET Previews
  BY DEF ProvenanceFails
<1> HIDE DEF failing
<1>6. RowsKeep
  BY <1>2, <1>3, <1>4 DEF RowsKeep
<1>7. /\ branch' \in [status : BranchStatuses, ip : Ips \cup {NoIp}]
      /\ op' \in [step : OpSteps, by : Workers \cup {NoWorker}]
  BY <1>1 DEF TypeInv, TypeOK, ProvenanceFails
<1>8. Solo => (op'.step = "stop" => GateOpen')
  <2>1. ~Blocked(w)
    BY <1>1 DEF Blocked
  <2>2. Solo => op.step # "stop"
    BY <1>1, <2>1 DEF PreviewInv, StopInv
  <2> QED BY <2>2 DEF ProvenanceFails
<1> QED BY <1>1, <1>5, <1>6, <1>7, <1>8, FinishKeeps DEF ProvenanceFails

LEMMA JobEndsKeeps ==
  ASSUME PreviewInv, NEW w \in Workers, JobEnds(w)
  PROVE  PreviewInv'
<1>1. w \in running /\ job[w].step \in {"next", "failed"} /\ TypeInv /\ job[w].kind # "none"
  BY DEF JobEnds, Busy, PreviewInv, ShapeInv, Shape, TypeInv, TypeOK
<1>2. RowsKeep
  BY <1>1 DEF JobEnds, RowsKeep, TypeInv, TypeOK
<1>3. /\ branch \in [status : BranchStatuses, ip : Ips \cup {NoIp}]
      /\ op \in [step : OpSteps, by : Workers \cup {NoWorker}]
  BY <1>1 DEF TypeInv, TypeOK
<1>4. op' \in {op, NoOp, [op EXCEPT !.step = "gate"]} /\ branch' \in {branch, [branch EXCEPT !.status = "online"]}
  BY Zenon DEF JobEnds
<1>5. /\ branch' \in [status : BranchStatuses, ip : Ips \cup {NoIp}]
      /\ op' \in [step : OpSteps, by : Workers \cup {NoWorker}]
  BY <1>3, <1>4 DEF BranchStatuses, OpSteps, NoOp
<1>6. Solo => (op'.step = "stop" => GateOpen')
  <2>1. ~Blocked(w)
    BY <1>1 DEF Blocked
  <2>2. Solo => op.step # "stop"
    BY <1>1, <2>1 DEF PreviewInv, StopInv
  <2>3. Solo => op'.step # "stop"
    BY <1>3, <1>4, <2>2 DEF NoOp
  <2> QED BY <2>3
<1> QED BY <1>1, <1>2, <1>5, <1>6, FinishKeeps DEF JobEnds

LEMMA EnsureKeeps ==
  ASSUME PreviewInv, NEW w \in Workers, NEW p \in Previews, Ensure(w, p)
  PROVE  PreviewInv'
<1>1. /\ w \in running /\ job[w].step = "next" /\ job[w].kind = "pass" /\ p \in job[w].todo
      /\ TypeInv /\ job[w] \in JobType /\ job[w].at = {} /\ preview[p] \in Rows
  BY DEF Ensure, Busy, PreviewInv, TypeInv, TypeOK, ShapeInv, Shape, ItemSteps
<1>2. /\ branch \in [status : BranchStatuses, ip : Ips \cup {NoIp}]
      /\ op \in [step : OpSteps, by : Workers \cup {NoWorker}]
      /\ preview \in [Previews -> Rows]
  BY <1>1 DEF TypeInv, TypeOK
<1>3. ~Blocked(w)
  BY <1>1 DEF Blocked
<1>4. CASE job' = Finish(w)
  <2>1. RowsKeep
    BY <1>2 DEF Ensure, RowsKeep, rowVars
  <2>2. Solo => (op'.step = "stop" => GateOpen')
    BY <1>1, <1>3 DEF Ensure, rowVars, PreviewInv, StopInv
  <2> QED BY <1>1, <1>2, <1>4, <2>1, <2>2, FinishKeeps DEF Ensure, rowVars
<1>5. CASE Admits(w, p)
  <2> DEFINE broken == preview[p].status = "cleanup_required"
             at == IF broken THEN {} ELSE {p}
             step == IF broken THEN "next" ELSE "inspect"
             todo == job[w].todo \ {p}
             stale == job[w].stale \ {p}
             rows == [job[w].rows EXCEPT ![p] = preview[p]]
             j == [job[w] EXCEPT !.todo = todo, !.rows = rows, !.stale = stale,
                                 !.at = at, !.step = step]
  <2>1. job' = [job EXCEPT ![w].todo = job[w].todo \ {p}, ![w].rows[p] = preview[p],
                           ![w].stale = job[w].stale \ {p},
                           ![w].at = IF preview[p].status = "cleanup_required" THEN {} ELSE {p},
                           ![w].step = IF preview[p].status = "cleanup_required" THEN "next" ELSE "inspect"]
    BY <1>5, Zenon DEF Ensure
  <2>2. job' = Put(w, j)
    BY <2>1, Zenon DEF Put
  <2>3. /\ at \in SUBSET Previews /\ step \in {"next", "inspect"} /\ todo \in SUBSET Previews
        /\ stale \in SUBSET Previews /\ rows \in [Previews -> Rows]
    BY <1>1 DEF JobType
  <2>4. /\ j \in JobType /\ j.kind = job[w].kind /\ j.todo = todo /\ j.rows = rows
        /\ j.stale = stale /\ j.at = at /\ j.step = step
    <3> HIDE DEF at, step, todo, stale, rows
    <3> QED BY <1>1, <2>3 DEF JobType, JobSteps, ItemSteps
  <2> HIDE DEF j
  <2>5. job' \in [Workers -> JobType] /\ job'[w] = j /\ OthersSame(w)
    BY <1>1, <2>2, <2>4, JobEffect DEF OthersSame
  <2>6. Shape(w)'
    <3>1. todo \subseteq job[w].todo /\ p \notin todo /\ running' = running
      BY DEF Ensure
    <3> HIDE DEF todo
    <3> QED BY <1>1, <2>4, <2>5, <3>1 DEF Shape, ItemSteps, Withdrawing
  <2>7. Solo => Synced(w)'
    <3>1. Solo => Synced(w)
      BY <1>1 DEF PreviewInv, SoloInv
    <3>2. \A q \in todo \cup at : q # p => rows[q] = job[w].rows[q]
      BY <1>1 DEF JobType
    <3>3. rows[p] = preview[p]
      BY <1>1 DEF JobType
    <3>4. job[w].todo \subseteq Previews
      BY <1>1 DEF JobType
    <3> HIDE DEF rows
    <3> QED BY <1>1, <2>3, <2>4, <2>5, <3>1, <3>2, <3>3, <3>4 DEF Synced, Ensure, rowVars
  <2>8. \A q \in job'[w].at : job'[w].step = "inspect" /\ preview[q].status # "cleanup_required"
    BY <2>4, <2>5
  <2> QED BY <1>1, <1>3, <2>4, <2>5, <2>6, <2>7, <2>8, PutKeeps DEF Ensure
<1>6. job' = Finish(w) \/ Admits(w, p)
  BY DEF Ensure
<1> QED BY <1>4, <1>5, <1>6

Taken(w, todo, at, step) == [job[w] EXCEPT !.todo = todo, !.at = at, !.step = step]

LEMMA NextWithdrawalKeeps ==
  ASSUME PreviewInv, NEW w \in Workers, NEW p \in Previews, NextWithdrawal(w, p)
  PROVE  PreviewInv'
<1>1. /\ w \in running /\ job[w].step = "next" /\ Withdrawing(w) /\ p \in job[w].todo
      /\ TypeInv /\ job[w] \in JobType /\ job[w].at = {} /\ job[w].kind # "none"
  BY DEF NextWithdrawal, Busy, PreviewInv, TypeInv, TypeOK, ShapeInv, Shape, ItemSteps
<1>2. ~Blocked(w)
  BY <1>1 DEF Blocked
<1> DEFINE todo == job[w].todo \ {p}
<1>3. todo \in SUBSET Previews /\ p \notin todo /\ todo \subseteq job[w].todo
  BY <1>1 DEF JobType
<1>4. PICK at \in SUBSET Previews, step \in {"next", "inspect"} :
        /\ job' = Put(w, Taken(w, todo, at, step))
        /\ \/ at = {} /\ step = "next"
           \/ at = {p} /\ step = "inspect" /\ job[w].rows[p].status # "cleanup_required"
  <2>1. CASE job[w].rows[p].status = "cleanup_required"
    <3>1. job' = [job EXCEPT ![w].todo = job[w].todo \ {p}]
      BY <2>1, Zenon DEF NextWithdrawal
    <3>2. [job[w] EXCEPT !.todo = todo] = Taken(w, todo, {}, "next")
      BY <1>1 DEF JobType, Taken
    <3>3. job' = Put(w, Taken(w, todo, {}, "next"))
      BY <3>1, <3>2, Zenon DEF Put
    <3> QED BY <3>3, Zenon
  <2>2. CASE job[w].rows[p].status # "cleanup_required"
    <3>1. job' = [job EXCEPT ![w].todo = job[w].todo \ {p}, ![w].at = {p}, ![w].step = "inspect"]
      BY <2>2, Zenon DEF NextWithdrawal
    <3>2. job' = Put(w, Taken(w, todo, {p}, "inspect"))
      BY <3>1, Zenon DEF Put, Taken
    <3>3. {p} \in SUBSET Previews
      OBVIOUS
    <3> QED BY <2>2, <3>2, <3>3, Zenon
  <2> QED BY <2>1, <2>2
<1> DEFINE j == Taken(w, todo, at, step)
<1> HIDE DEF todo
<1>5. /\ j \in JobType /\ j.kind = job[w].kind /\ j.todo = todo /\ j.rows = job[w].rows
      /\ j.stale = job[w].stale /\ j.at = at /\ j.step = step
  BY <1>1, <1>3, <1>4 DEF JobType, JobSteps, ItemSteps, Taken
<1> HIDE DEF j
<1>6. job' \in [Workers -> JobType] /\ job'[w] = j /\ OthersSame(w)
  <2>1. job' = Put(w, j)
    BY <1>4 DEF j
  <2> QED BY <1>1, <1>5, <2>1, JobEffect DEF OthersSame
<1>7. Shape(w)'
  BY <1>1, <1>3, <1>4, <1>5, <1>6 DEF Shape, ItemSteps, Withdrawing, NextWithdrawal
<1>8. Solo => Synced(w)'
  <2>1. Solo => Synced(w)
    BY <1>1 DEF PreviewInv, SoloInv
  <2> QED BY <1>1, <1>3, <1>4, <1>5, <1>6, <2>1 DEF Synced, NextWithdrawal, rowVars
<1>9. \A q \in job'[w].at :
        job'[w].step = "inspect" /\ (Solo => preview[q].status # "cleanup_required")
  <2>1. Solo => job[w].rows[p] = preview[p]
    BY <1>1 DEF PreviewInv, SoloInv, Synced
  <2> QED BY <1>4, <1>5, <1>6, <2>1
<1> QED BY <1>1, <1>2, <1>5, <1>6, <1>7, <1>8, <1>9, PutKeeps DEF NextWithdrawal

-----------------------------------------------------------------------------
(* Steps that change no row and no job.                                      *)
LEMMA QuietKeeps ==
  ASSUME PreviewInv, UNCHANGED <<caddyVars, preview, job, running, boots>>,
         branch' \in [status : BranchStatuses, ip : Ips \cup {NoIp}],
         op' \in [step : OpSteps, by : Workers \cup {NoWorker}],
         serving' \subseteq running, quiet' \subseteq running, changes' \in 0..MaxChanges,
         Solo => op' = op \/ op'.step \notin {"gate", "stop"} \/ StopInv'
  PROVE  PreviewInv'
<1>1. TypeInv'
  BY TypeStep DEF PreviewInv, TypeInv, TypeOK, caddyVars
<1>2. ShapeInv'
  BY DEF PreviewInv, ShapeInv, Shape, Withdrawing, RequestIsOwn, Target, PendingIsIntent, caddyVars
<1>3. Solo' <=> Solo
  BY DEF Solo
<1>4. Solo => SoloInv'
  BY DEF PreviewInv, SoloInv, Synced, RowAtStep, Withdrawing, caddyVars
<1>5. Solo => RouteInv'
  BY DEF PreviewInv, RouteInv, CreationIsOwned, InactiveIsUnrouted, Creations, Knows, Target,
     Withdrawing, caddyVars
<1>6. Solo => StopInv'
  <2>1. Solo /\ op' = op => StopInv'
    BY DEF PreviewInv, StopInv, Blocked, GateOpen
  <2>2. op'.step \notin {"gate", "stop"} => StopInv'
    BY DEF StopInv
  <2> QED BY <2>1, <2>2
<1>7. boots = 0 => AccountInv'
  BY DEF PreviewInv, AccountInv, AccountedFor, SawRoute, caddyVars
<1> QED BY <1>1, <1>2, <1>3, <1>4, <1>5, <1>6, <1>7 DEF PreviewInv

QuietStep(w) ==
  \/ AcceptStop(w) \/ AcceptStart(w) \/ Gate(w) \/ StopRuntime(w) \/ StartRuntime(w)
  \/ CompleteStart(w) \/ StopCoordinator(w) \/ Serve(w)

LEMMA QuietStepKeeps ==
  ASSUME PreviewInv, NEW w \in Workers, QuietStep(w)
  PROVE  PreviewInv'
<1>1. /\ branch \in [status : BranchStatuses, ip : Ips \cup {NoIp}]
      /\ op \in [step : OpSteps, by : Workers \cup {NoWorker}]
      /\ serving \subseteq running /\ quiet \subseteq running /\ changes \in 0..MaxChanges
      /\ MaxChanges \in Nat
  BY BoundAssumption DEF PreviewInv, TypeInv, TypeOK
<1>2. /\ NoOp \in [step : OpSteps, by : Workers \cup {NoWorker}] /\ NoOp.step = "none"
      /\ NoBranch \in [status : BranchStatuses, ip : Ips \cup {NoIp}]
  BY DEF NoOp, OpSteps, NoBranch, BranchStatuses
<1>3. ASSUME NEW status \in BranchStatuses
      PROVE  [branch EXCEPT !.status = status] \in [status : BranchStatuses, ip : Ips \cup {NoIp}]
  BY <1>1
<1>4. ASSUME NEW step \in OpSteps
      PROVE  /\ [op EXCEPT !.step = step] \in [step : OpSteps, by : Workers \cup {NoWorker}]
             /\ [step |-> step, by |-> w] \in [step : OpSteps, by : Workers \cup {NoWorker}]
             /\ [op EXCEPT !.step = step].step = step
  BY <1>1
<1>5. /\ {"online", "stopping", "starting", "cleanup_required"} \subseteq BranchStatuses
      /\ {"withdraw", "start", "stop", "resume"} \subseteq OpSteps
  BY DEF BranchStatuses, OpSteps
<1>6. Change => changes' \in 0..MaxChanges
  BY <1>1 DEF Change
<1>7. CASE AcceptStop(w)
  BY <1>1, <1>3, <1>4, <1>5, <1>6, <1>7, QuietKeeps DEF AcceptStop, processVars
<1>8. CASE AcceptStart(w)
  BY <1>1, <1>3, <1>4, <1>5, <1>6, <1>8, QuietKeeps DEF AcceptStart, processVars
<1>9. CASE Gate(w)
  <2>1. CASE GateOpen /\ op' = [op EXCEPT !.step = "stop"] /\ UNCHANGED branch
    <3>1. Solo => StopInv'
      <4>1. op.step = "gate"
        BY <1>9 DEF Gate
      <4> QED BY <1>9, <2>1, <4>1 DEF Gate, PreviewInv, StopInv, Blocked, GateOpen, processVars
    <3>2. op' \in [step : OpSteps, by : Workers \cup {NoWorker}]
      BY <1>4, <1>5, <2>1
    <3> QED BY <1>1, <1>9, <2>1, <3>1, <3>2, QuietKeeps DEF Gate, processVars
  <2>2. CASE op' = NoOp /\ branch' = [branch EXCEPT !.status = "online"]
    BY <1>1, <1>2, <1>3, <1>5, <1>9, <2>2, QuietKeeps DEF Gate, processVars
  <2> QED BY <1>9, <2>1, <2>2 DEF Gate
<1>10. CASE StopRuntime(w)
  BY <1>1, <1>2, <1>3, <1>5, <1>10, QuietKeeps DEF StopRuntime, processVars
<1>11. CASE StartRuntime(w)
  <2>1. ASSUME NEW ip \in Ips, branch' = [status |-> "online", ip |-> ip],
               op' = [op EXCEPT !.step = "resume"]
        PROVE  PreviewInv'
    <3>1. branch' \in [status : BranchStatuses, ip : Ips \cup {NoIp}]
      BY <1>5, <2>1
    <3> QED BY <1>1, <1>4, <1>5, <1>11, <2>1, <3>1, QuietKeeps DEF StartRuntime, processVars
  <2>2. CASE branch' \in {NoBranch, [branch EXCEPT !.status = "cleanup_required"]} /\ op' = NoOp
    BY <1>1, <1>2, <1>3, <1>5, <1>11, <2>2, QuietKeeps DEF StartRuntime, processVars
  <2> QED BY <1>11, <2>1, <2>2 DEF StartRuntime
<1>12. CASE CompleteStart(w)
  BY <1>1, <1>2, <1>12, QuietKeeps DEF CompleteStart, processVars
<1>13. CASE StopCoordinator(w)
  BY <1>1, <1>6, <1>13, QuietKeeps DEF StopCoordinator, rowVars
<1>14. CASE Serve(w)
  BY <1>1, <1>14, QuietKeeps DEF Serve, Free, rowVars
<1> QED BY <1>7, <1>8, <1>9, <1>10, <1>11, <1>12, <1>13, <1>14 DEF QuietStep

LEMMA ObserveBranchKeeps ==
  ASSUME PreviewInv, ObserveBranch
  PROVE  PreviewInv'
<1>1. /\ op \in [step : OpSteps, by : Workers \cup {NoWorker}]
      /\ serving \subseteq running /\ quiet \subseteq running /\ changes \in 0..MaxChanges
      /\ MaxChanges \in Nat
  BY BoundAssumption DEF PreviewInv, TypeInv, TypeOK
<1>2. branch' \in [status : BranchStatuses, ip : Ips \cup {NoIp}]
  BY DEF ObserveBranch, NoBranch, BranchStatuses
<1>3. changes' \in 0..MaxChanges
  BY <1>1 DEF ObserveBranch, Change
<1> QED BY <1>1, <1>2, <1>3, QuietKeeps DEF ObserveBranch, processVars

LEMMA StutterKeeps ==
  ASSUME PreviewInv, UNCHANGED vars
  PROVE  PreviewInv'
<1>1. UNCHANGED <<caddyVars, preview, branch, op, job, running, serving, quiet, boots, changes>>
  BY DEF vars, rowVars, processVars
<1> QED BY <1>1, QuietKeeps DEF PreviewInv, TypeInv, TypeOK

-----------------------------------------------------------------------------
(* A withdrawal begins, or the rows are handed back to the passes.           *)
LEMMA WithdrawKeeps ==
  ASSUME PreviewInv, NEW w \in Workers, Withdraw(w)
  PROVE  PreviewInv'
<1>1. w \in running /\ job[w].step = "none" /\ job[w].kind = "none"
  BY FreeJob DEF Withdraw, Free
<1>2. /\ branch \in [status : BranchStatuses, ip : Ips \cup {NoIp}]
      /\ op \in [step : OpSteps, by : Workers \cup {NoWorker}]
      /\ serving \subseteq running /\ quiet \subseteq running /\ changes \in 0..MaxChanges
  BY DEF PreviewInv, TypeInv, TypeOK
<1>3. CASE op' = [op EXCEPT !.step = "gate"] /\ UNCHANGED <<preview, job>>
  <2>1. op' \in [step : OpSteps, by : Workers \cup {NoWorker}] /\ op'.step = "gate"
    BY <1>2, <1>3 DEF OpSteps
  <2>2. Solo => StopInv'
    <3>1. Solo => \A v \in running : v = w
      BY <1>1 DEF PreviewInv, SoloInv
    <3> QED BY <1>1, <1>3, <2>1, <3>1 DEF StopInv, Blocked, Withdraw
  <2> QED BY <1>2, <1>3, <2>1, <2>2, QuietKeeps DEF Withdraw
<1>4. CASE op' = [op EXCEPT !.step = "withdrawing"] /\ RequestWithdrawal(w, "withdrawal")
  <2>1. op' \in [step : OpSteps, by : Workers \cup {NoWorker}] /\ op'.step = "withdrawing"
    BY <1>2, <1>4 DEF OpSteps
  <2> QED BY <1>1, <1>4, <2>1, WithdrawalKeeps DEF Withdraw
<1> QED BY <1>3, <1>4 DEF Withdraw

LEMMA ResumeKeeps ==
  ASSUME PreviewInv, NEW w \in Workers, Resume(w)
  PROVE  PreviewInv'
<1>1. /\ w \in running /\ job[w].step = "none" /\ job[w].kind = "none"
      /\ job[w].at = {} /\ job[w].todo = {} /\ Shape(w)
  BY FreeJob DEF Resume, Free
<1>2. /\ branch \in [status : BranchStatuses, ip : Ips \cup {NoIp}]
      /\ op \in [step : OpSteps, by : Workers \cup {NoWorker}]
      /\ serving \subseteq running /\ quiet \subseteq running /\ changes \in 0..MaxChanges
      /\ preview \in [Previews -> Rows] /\ job \in [Workers -> JobType] /\ TypeInv
  BY DEF PreviewInv, TypeInv, TypeOK
<1>3. op' \in [step : OpSteps, by : Workers \cup {NoWorker}] /\ op'.step = "complete"
  BY <1>2 DEF OpSteps, Resume
<1>4. CASE UNCHANGED <<preview, job>>
  BY <1>2, <1>3, <1>4, QuietKeeps DEF Resume
<1> DEFINE given == [p \in Previews |-> [preview[p] EXCEPT !.withdrawal = FALSE]]
           ps == {p \in Previews : preview[p].withdrawal}
<1>5. CASE preview' = given /\ job' = Stale(w, ps, job)
  <2>1. RowsKeep
    <3>1. \A p \in Previews :
            /\ [preview[p] EXCEPT !.withdrawal = FALSE] \in Rows
            /\ [preview[p] EXCEPT !.withdrawal = FALSE].status = preview[p].status
            /\ [preview[p] EXCEPT !.withdrawal = FALSE].current = preview[p].current
            /\ [preview[p] EXCEPT !.withdrawal = FALSE].pending = preview[p].pending
      BY <1>2 DEF Rows
    <3> QED BY <1>5, <3>1 DEF RowsKeep
  <2>2. ps \in SUBSET Previews
    OBVIOUS
  <2> HIDE DEF given, ps
  <2>3. job' \in [Workers -> JobType] /\ job'[w] = job[w] /\ OthersSame(w)
    BY <1>2, <1>5, <2>2, StaleEffect DEF OthersSame
  <2>4. Shape(w)'
    BY <1>1, <2>3 DEF Shape, ItemSteps, Withdrawing
  <2>5. Solo => Synced(w)'
    BY <1>1, <2>3 DEF PreviewInv, SoloInv, Synced
  <2>6. StopInv'
    BY <1>3 DEF StopInv
  <2> QED BY <1>1, <1>2, <1>3, <2>1, <2>3, <2>4, <2>5, <2>6, JobKeeps DEF Resume
<1> QED BY <1>4, <1>5 DEF Resume

-----------------------------------------------------------------------------
(* Steps of requests: a job steps without touching its preview otherwise.    *)
LEMMA SteppedJob ==
  ASSUME TypeInv, NEW w \in Workers, NEW s \in JobSteps, Goto(w, s)
  PROVE  /\ job' \in [Workers -> JobType] /\ OthersSame(w)
         /\ job'[w].kind = job[w].kind /\ job'[w].step = s /\ job'[w].todo = job[w].todo
         /\ job'[w].stale = job[w].stale /\ job'[w].branch = job[w].branch
         /\ job'[w].rows = job[w].rows /\ job'[w].at = job[w].at /\ job'[w].table = job[w].table
<1> DEFINE j == [job[w] EXCEPT !.step = s]
<1>1. job[w] \in JobType
  BY DEF TypeInv
<1>2. /\ j \in JobType /\ j.kind = job[w].kind /\ j.todo = job[w].todo /\ j.branch = job[w].branch
      /\ j.stale = job[w].stale /\ j.at = job[w].at /\ j.step = s /\ j.rows = job[w].rows
      /\ j.table = job[w].table
  BY <1>1 DEF JobType
<1>3. job' = Put(w, j)
  BY Zenon DEF Goto, Put
<1> HIDE DEF j
<1> QED BY <1>2, <1>3, JobEffect DEF OthersSame

LEMMA SendKeeps ==
  ASSUME PreviewInv, NEW w \in running, NEW p \in Previews, Send(w, p)
  PROVE  PreviewInv'
<1>1. /\ p \in job[w].at /\ job[w].step = "send" /\ Goto(w, "wait")
      /\ requests' = requests \cup {[preview |-> p, ip |-> Target(w, p), base |-> job[w].table, by |-> w]}
      /\ UNCHANGED <<routes, preview, branch, op, running, serving, quiet, boots, changes>>
  BY DEF Send, AtStep, Busy, rowVars
<1>2. AtItem(w, p)
  BY <1>1, AtItemHolds
<1>3. w \in Workers /\ job[w] \in JobType /\ job[w].at = {p} /\ TypeInv
  BY <1>2 DEF AtItem
<1>4. /\ job' \in [Workers -> JobType] /\ OthersSame(w)
      /\ job'[w].kind = job[w].kind /\ job'[w].step = "wait" /\ job'[w].todo = job[w].todo
      /\ job'[w].stale = job[w].stale /\ job'[w].branch = job[w].branch
      /\ job'[w].rows = job[w].rows /\ job'[w].at = job[w].at /\ job'[w].table = job[w].table
  BY <1>1, <1>3, SteppedJob DEF JobSteps, ItemSteps
<1>5. PICK sent \in Requests :
        /\ sent.preview = p /\ sent.ip = Target(w, p)
        /\ sent.base = job[w].table /\ sent.by = w /\ w # NoWorker
        /\ requests' = requests \cup {sent}
  <2>1. [preview |-> p, ip |-> Target(w, p), base |-> job[w].table, by |-> w] \in Requests
    BY <1>3 DEF Requests, Target, JobType
  <2> QED BY <1>1, <1>3, <2>1, NullAssumption
<1>6. TypeInv'
  BY <1>1, <1>3, <1>4, <1>5, TypeStep DEF TypeInv, TypeOK
<1>7. ShapeInv'
  <2>1. Shape(w)'
    <3>1. Shape(w)
      BY <1>3 DEF PreviewInv, ShapeInv
    <3> QED BY <1>1, <1>3, <1>4, <3>1 DEF Shape, ItemSteps, Withdrawing
  <2>2. ASSUME NEW v \in Workers \ {w} PROVE Shape(v)'
    <3>1. SameJob(job[v], job'[v]) /\ Shape(v)
      BY <1>4 DEF PreviewInv, ShapeInv, OthersSame
    <3> QED BY <1>1, <3>1 DEF Shape, SameJob, Withdrawing
  <2>3. ASSUME NEW r \in requests PROVE RequestIsOwn(r)'
    <3>1. RequestIsOwn(r)
      BY DEF PreviewInv, ShapeInv
    <3>2. CASE r.by = NoWorker
      BY <3>2 DEF RequestIsOwn
    <3>3. CASE r.by # NoWorker
      <4>1. r.by \in Workers \ {w}
        BY <1>1, <1>3, <3>1, <3>3 DEF RequestIsOwn, TypeInv, TypeOK
      <4>2. SameJob(job[r.by], job'[r.by])
        BY <1>4, <4>1 DEF OthersSame
      <4> QED BY <1>1, <3>1, <3>3, <4>2 DEF RequestIsOwn, SameJob, Target, Withdrawing
    <3> QED BY <3>2, <3>3
  <2>4. RequestIsOwn(sent)'
    BY <1>1, <1>3, <1>4, <1>5 DEF RequestIsOwn, Target, Withdrawing
  <2>5. PendingIsIntent'
    BY <1>1 DEF PreviewInv, ShapeInv, PendingIsIntent
  <2> QED BY <1>5, <2>1, <2>2, <2>3, <2>4, <2>5 DEF ShapeInv
<1>8. Solo' <=> Solo
  BY <1>1 DEF Solo
<1>9. ASSUME Solo PROVE SoloInv' /\ RouteInv' /\ StopInv'
  <2>0. SoloInv /\ RouteInv /\ StopInv /\ \A v \in running : v = w
    BY <1>9 DEF PreviewInv, SoloInv
  <2>1. RowAtStep(w, p) /\ Knows(w, p) /\ Synced(w)
    BY <1>1, <2>0 DEF SoloInv, RouteInv
  <2>2. SoloInv'
    <3>1. Synced(w)' /\ RowAtStep(w, p)'
      BY <1>1, <1>4, <2>1 DEF Synced, RowAtStep, Sent, Withdrawing
    <3> QED BY <1>1, <1>3, <1>4, <2>0, <3>1 DEF SoloInv
  <2>3. ASSUME NEW q \in Previews PROVE CreationIsOwned(q)' /\ InactiveIsUnrouted(q)'
    <3>1. CASE q # p
      <4>1. Creations(q)' = Creations(q)
        BY <1>1, <1>5, <3>1 DEF Creations
      <4> QED BY <1>1, <2>0, <4>1 DEF RouteInv, CreationIsOwned, InactiveIsUnrouted
    <3>2. CASE q = p
      <4>1. Creations(p) = {}
        BY <1>1, <2>1 DEF Knows
      <4>2. \A r \in Creations(p)' : r = sent
        BY <1>5, <4>1 DEF Creations
      <4>3. sent \in Creations(p)' => routes[p] = NoIp /\ preview[p].status = "applying"
        BY <1>1, <1>5, <2>1 DEF Creations, Knows, RowAtStep, Sent, Target
      <4> QED BY <1>1, <2>0, <3>2, <4>2, <4>3 DEF RouteInv, CreationIsOwned, InactiveIsUnrouted
    <3> QED BY <3>1, <3>2
  <2>4. Knows(w, p)'
    <3>1. Creations(p) = {}
      BY <1>1, <2>1 DEF Knows
    <3>2. \A r \in Creations(p)' : r = sent
      BY <1>5, <3>1 DEF Creations
    <3> QED BY <1>4, <1>5, <3>2 DEF Knows
  <2>5. StopInv'
    <3>1. ~Blocked(w)
      BY <1>1, <1>3 DEF Blocked, PreviewInv, ShapeInv, Shape
    <3> QED BY <1>1, <2>0, <3>1 DEF StopInv
  <2> QED BY <1>1, <1>3, <1>4, <2>0, <2>2, <2>3, <2>4, <2>5 DEF RouteInv
<1>10. ASSUME boots = 0 PROVE AccountInv'
  <2>0. AccountInv /\ (\A v \in running : v = w) /\ RowAtStep(w, p)
    BY <1>1, <1>10 DEF PreviewInv, SoloInv, Solo
  <2>1. ASSUME NEW q \in Previews PROVE AccountedFor(q)'
    <3>1. CASE q # p
      BY <1>1, <1>5, <2>0, <3>1 DEF AccountInv, AccountedFor
    <3>2. CASE q = p
      <4>1. \A r \in requests : r.preview = p => r.ip = NoIp
        BY <1>1, <1>2, <1>10 DEF AtItem
      <4>2. sent.ip # NoIp => preview[p].status = "applying" /\ preview[p].pending = sent.ip
        BY <1>1, <1>5, <2>0 DEF RowAtStep, Sent, Target
      <4> QED BY <1>1, <1>5, <2>0, <3>2, <4>1, <4>2 DEF AccountInv, AccountedFor
    <3> QED BY <3>1, <3>2
  <2> QED BY <1>1, <1>3, <1>4, <2>0, <2>1 DEF AccountInv, SawRoute
<1> QED BY <1>1, <1>6, <1>7, <1>8, <1>9, <1>10 DEF PreviewInv

(* What nobody waits for any more is still on its way.                       *)
Anonymous(w, r) == IF r.by = w THEN [r EXCEPT !.by = NoWorker] ELSE r

LEMMA AbandonedEffect ==
  ASSUME TypeInv, NEW w \in Workers
  PROVE  /\ Abandoned(w) \subseteq Requests
         /\ \A s \in Abandoned(w) : \E r \in requests :
              /\ s = Anonymous(w, r)
              /\ s.preview = r.preview /\ s.ip = r.ip /\ s.base = r.base
              /\ s.by # NoWorker => s = r /\ r.by # w
              /\ r.by # w => s = r
<1>1. requests \subseteq Requests
  BY DEF TypeInv, TypeOK
<1>2. ASSUME NEW s \in Abandoned(w)
      PROVE  /\ s \in Requests
             /\ \E r \in requests :
                  /\ s = Anonymous(w, r)
                  /\ s.preview = r.preview /\ s.ip = r.ip /\ s.base = r.base
                  /\ s.by # NoWorker => s = r /\ r.by # w
                  /\ r.by # w => s = r
  <2>1. PICK r \in requests : s = Anonymous(w, r)
    BY DEF Abandoned, Anonymous
  <2>2. r \in Requests
    BY <1>1
  <2>3. CASE r.by = w
    <3>1. s = [r EXCEPT !.by = NoWorker]
      BY <2>1, <2>3 DEF Anonymous
    <3>2. s \in Requests /\ s.preview = r.preview /\ s.ip = r.ip /\ s.base = r.base /\ s.by = NoWorker
      BY <2>2, <3>1 DEF Requests
    <3> QED BY <2>1, <2>3, <3>2
  <2>4. CASE r.by # w
    BY <2>1, <2>2, <2>4 DEF Anonymous
  <2> QED BY <2>3, <2>4
<1> QED BY <1>2

(* Creations that are abandoned.                                             *)
LEMMA AbandonedCreations ==
  ASSUME TypeInv, NEW w \in Workers, NEW p \in Previews, requests' = Abandoned(w),
         CreationIsOwned(p), routes' = routes,
         \/ preview'[p].status = preview[p].status
         \/ preview'[p].status = "cleanup_required"
  PROVE  CreationIsOwned(p)'
<1>1. ASSUME NEW s \in Creations(p)' PROVE \E r \in Creations(p) : s = Anonymous(w, r)
  <2>1. s \in Abandoned(w) /\ s.preview = p /\ s.ip # NoIp /\ s.base[p] = NoIp
    BY DEF Creations
  <2>2. PICK r \in requests : /\ s = Anonymous(w, r)
                              /\ s.preview = r.preview /\ s.ip = r.ip /\ s.base = r.base
    BY <2>1, AbandonedEffect
  <2> QED BY <2>1, <2>2 DEF Creations
<1>2. \A r, s \in Creations(p)' : r = s
  BY <1>1 DEF CreationIsOwned
<1>3. Creations(p)' # {} => Creations(p) # {}
  BY <1>1
<1> QED BY <1>2, <1>3 DEF CreationIsOwned

LEMMA TimeOutKeeps ==
  ASSUME PreviewInv, NEW w \in running, NEW p \in Previews, TimeOut(w, p)
  PROVE  PreviewInv'
<1>1. /\ p \in job[w].at /\ job[w].step = "wait" /\ Cleanup(w, p) /\ requests' = Abandoned(w)
      /\ UNCHANGED <<routes, branch, op, running, serving, quiet, boots, changes>>
  BY DEF TimeOut, AtStep, Busy, UnknownOutcome
<1>2. w \in Workers /\ job[w].at = {p} /\ TypeInv /\ preview[p] \in Rows
  BY <1>1, AtItemHolds DEF AtItem
<1>3. /\ IsDone(w, p)
      /\ preview'[p] \in {preview[p], Becomes(preview[p], "cleanup_required")}
      /\ job[w].stale = {} => preview'[p].status = "cleanup_required"
  BY <1>1, <1>2, CleanupMoves
<1>4. Moves(w, p) /\ Abandoned(w) \subseteq Requests
  BY <1>2, <1>3, AbandonedEffect DEF IsDone
<1>5. preview'[p] = preview[p] \/ preview'[p].status = "cleanup_required"
  BY <1>2, <1>3 DEF Becomes, Rows
<1>6. TypeInv'
  BY <1>1, <1>2, <1>4, TypeStep DEF TypeInv, TypeOK, Moves, OnlyRow
<1>7. ShapeInv'
  <2>1. Shape(w)'
    <3>1. Shape(w)
      BY <1>2 DEF PreviewInv, ShapeInv
    <3> QED BY <1>1, <1>2, <1>3, <3>1 DEF Shape, ItemSteps, Withdrawing, IsDone, Moves
  <2>2. ASSUME NEW v \in Workers \ {w} PROVE Shape(v)'
    <3>1. SameJob(job[v], job'[v]) /\ Shape(v)
      BY <1>4 DEF PreviewInv, ShapeInv, OthersSame, Moves
    <3> QED BY <1>1, <3>1 DEF Shape, SameJob, Withdrawing
  <2>3. ASSUME NEW s \in requests' PROVE RequestIsOwn(s)'
    <3>1. CASE s.by = NoWorker
      BY <3>1 DEF RequestIsOwn
    <3>2. CASE s.by # NoWorker
      <4>1. s \in requests /\ s.by # w
        BY <1>1, <1>2, <3>2, AbandonedEffect
      <4>2. RequestIsOwn(s) /\ s.by \in Workers \ {w}
        BY <1>2, <3>2, <4>1 DEF PreviewInv, ShapeInv, RequestIsOwn, TypeInv, TypeOK
      <4>3. SameJob(job[s.by], job'[s.by])
        BY <1>4, <4>2 DEF Moves, OthersSame
      <4> QED BY <1>1, <3>2, <4>2, <4>3 DEF RequestIsOwn, SameJob, Target, Withdrawing
    <3> QED BY <3>1, <3>2
  <2>4. PendingIsIntent'
    BY <1>4, <1>5 DEF PreviewInv, ShapeInv, PendingIsIntent, Moves, OnlyRow
  <2> QED BY <2>1, <2>2, <2>3, <2>4 DEF ShapeInv
<1>8. Solo' <=> Solo
  BY <1>1 DEF Solo
<1>9. ASSUME Solo PROVE SoloInv' /\ RouteInv' /\ StopInv'
  <2>0. SoloInv /\ RouteInv /\ StopInv /\ ShapeInv /\ \A v \in running : v = w
    BY <1>9 DEF PreviewInv, SoloInv
  <2>1. SoloInv'
    BY <1>1, <1>2, <1>3, <2>0, MoveSolo
  <2>2. ASSUME NEW q \in Previews PROVE CreationIsOwned(q)' /\ InactiveIsUnrouted(q)'
    <3>1. preview'[q] = preview[q] \/ preview'[q].status = "cleanup_required"
      BY <1>4, <1>5 DEF Moves, OnlyRow
    <3>2. CreationIsOwned(q) /\ InactiveIsUnrouted(q)
      BY <2>0 DEF RouteInv
    <3>3. CreationIsOwned(q)'
      BY <1>1, <1>2, <3>1, <3>2, AbandonedCreations
    <3> QED BY <1>1, <3>1, <3>2, <3>3 DEF InactiveIsUnrouted
  <2>3. StopInv'
    <3>1. ~Blocked(w)
      BY <1>1, <1>2, <2>0 DEF Blocked, ShapeInv, Shape
    <3> QED BY <1>1, <2>0, <3>1 DEF StopInv
  <2> QED BY <1>1, <1>3, <2>0, <2>1, <2>2, <2>3 DEF RouteInv, IsDone
<1>10. ASSUME boots = 0 PROVE AccountInv'
  <2>0. AccountInv /\ (\A v \in running : v = w) /\ Synced(w)
    BY <1>10 DEF PreviewInv, SoloInv, Solo
  <2>1. ASSUME NEW q \in Previews PROVE AccountedFor(q)'
    <3>1. CASE q = p
      BY <1>3, <2>0, <3>1 DEF Synced, AccountedFor
    <3>2. CASE q # p
      <4>1. preview'[q] = preview[q] /\ AccountedFor(q)
        BY <1>4, <2>0, <3>2 DEF Moves, OnlyRow, AccountInv
      <4>2. ASSUME NEW s \in requests', s.preview = q, s.ip # NoIp PROVE s \in requests
        <5>1. PICK r \in requests : /\ s.preview = r.preview /\ s.ip = r.ip
                                    /\ r.by # w => s = r
          BY <1>1, <1>2, AbandonedEffect
        <5>2. w # NoWorker
          BY <1>2, NullAssumption
        <5>3. r.by # w
          BY <1>2, <3>2, <4>2, <5>1, <5>2 DEF PreviewInv, ShapeInv, RequestIsOwn
        <5> QED BY <5>1, <5>3
      <4> QED BY <1>1, <4>1, <4>2 DEF AccountedFor
    <3> QED BY <3>1, <3>2
  <2> QED BY <1>1, <1>3, <2>0, <2>1 DEF AccountInv, IsDone
<1> QED BY <1>1, <1>6, <1>7, <1>8, <1>9, <1>10 DEF PreviewInv

(* The process ends: its job is gone, its requests are not.                  *)
LEMMA CrashKeeps ==
  ASSUME PreviewInv, NEW w \in Workers, Crash(w)
  PROVE  PreviewInv'
<1>1. /\ w \in running /\ running' = running \ {w} /\ serving' = serving \ {w}
      /\ quiet' = quiet \ {w} /\ requests' = Abandoned(w) /\ TypeInv
      /\ UNCHANGED <<routes, preview, branch, op, boots, changes>>
  BY DEF Crash, rowVars, PreviewInv
<1>2. job' = Put(w, NoJob)
  BY Zenon DEF Crash, Finish, Put
<1>3. job' \in [Workers -> JobType] /\ job'[w] = NoJob /\ OthersSame(w)
  BY <1>1, <1>2, NoJobTyped, JobEffect DEF OthersSame
<1>4. Abandoned(w) \subseteq Requests
  BY <1>1, AbandonedEffect
<1>5. TypeInv'
  BY <1>1, <1>3, <1>4, TypeStep DEF TypeInv, TypeOK
<1>6. ShapeInv'
  <2>1. Shape(w)'
    BY <1>3 DEF Shape, NoJob, ItemSteps, Withdrawing
  <2>2. ASSUME NEW v \in Workers \ {w} PROVE Shape(v)'
    <3>1. SameJob(job[v], job'[v]) /\ Shape(v)
      BY <1>3 DEF PreviewInv, ShapeInv, OthersSame
    <3> QED BY <1>1, <3>1 DEF Shape, SameJob, Withdrawing
  <2>3. ASSUME NEW s \in requests' PROVE RequestIsOwn(s)'
    <3>1. CASE s.by = NoWorker
      BY <3>1 DEF RequestIsOwn
    <3>2. CASE s.by # NoWorker
      <4>1. s \in requests /\ s.by # w
        BY <1>1, <3>2, AbandonedEffect
      <4>2. RequestIsOwn(s) /\ s.by \in Workers \ {w}
        BY <1>1, <3>2, <4>1 DEF PreviewInv, ShapeInv, RequestIsOwn, TypeInv, TypeOK
      <4>3. SameJob(job[s.by], job'[s.by])
        BY <1>3, <4>2 DEF OthersSame
      <4> QED BY <1>1, <3>2, <4>1, <4>2, <4>3 DEF RequestIsOwn, SameJob, Target, Withdrawing
    <3> QED BY <3>1, <3>2
  <2>4. PendingIsIntent'
    BY <1>1 DEF PreviewInv, ShapeInv, PendingIsIntent
  <2> QED BY <2>1, <2>2, <2>3, <2>4 DEF ShapeInv
<1>7. Solo' <=> Solo
  BY <1>1 DEF Solo
<1>8. (Solo \/ boots = 0) => running' = {}
  BY <1>1 DEF Solo, PreviewInv, SoloInv
<1>9. ASSUME Solo PROVE SoloInv' /\ RouteInv' /\ StopInv'
  <2>1. ASSUME NEW q \in Previews PROVE CreationIsOwned(q)' /\ InactiveIsUnrouted(q)'
    <3>1. CreationIsOwned(q) /\ InactiveIsUnrouted(q)
      BY <1>9 DEF PreviewInv, RouteInv
    <3>2. CreationIsOwned(q)'
      BY <1>1, <3>1, AbandonedCreations
    <3> QED BY <1>1, <3>1, <3>2 DEF InactiveIsUnrouted
  <2>2. StopInv'
    BY <1>1, <1>8, <1>9 DEF PreviewInv, StopInv, GateOpen
  <2> QED BY <1>8, <1>9, <2>1, <2>2 DEF SoloInv, RouteInv
<1>10. ASSUME boots = 0 PROVE AccountInv'
  <2>1. ASSUME NEW q \in Previews PROVE AccountedFor(q)'
    <3>1. AccountedFor(q)
      BY <1>10 DEF PreviewInv, AccountInv
    <3>2. \A s \in requests' : \E r \in requests : s.preview = r.preview /\ s.ip = r.ip
      BY <1>1, AbandonedEffect
    <3> QED BY <1>1, <1>8, <1>10, <3>1, <3>2 DEF AccountedFor
  <2> QED BY <1>8, <1>10, <2>1 DEF AccountInv
<1> QED BY <1>1, <1>5, <1>6, <1>7, <1>9, <1>10 DEF PreviewInv

LEMMA BootKeeps ==
  ASSUME PreviewInv, NEW w \in Workers, Boot(w)
  PROVE  PreviewInv'
<1>1. /\ w \notin running /\ boots < MaxBoots /\ boots' = boots + 1 /\ running' = running \cup {w}
      /\ (running = {} \/ Overlap) /\ op' = NoOp /\ TypeInv
      /\ UNCHANGED <<caddyVars, preview, serving, quiet, changes>>
  BY DEF Boot, PreviewInv
<1>2. job' = Put(w, Pass)
  BY Zenon DEF Boot, Put
<1>3. job' \in [Workers -> JobType] /\ job'[w] = Pass /\ OthersSame(w)
  BY <1>1, <1>2, NoJobTyped, JobEffect DEF OthersSame
<1>4. /\ Pass.kind = "pass" /\ Pass.step = "read" /\ Pass.reads = {"branch", "operation", "rows"}
      /\ Pass.todo = {} /\ Pass.at = {} /\ Pass.stale = {}
  BY DEF Pass, NoJob
<1>5. branch' \in [status : BranchStatuses, ip : Ips \cup {NoIp}]
  <2>1. branch' \in {branch, [branch EXCEPT !.status = "online"], [branch EXCEPT !.status = "cleanup_required"]}
    BY Zenon DEF Boot
  <2> QED BY <1>1, <2>1 DEF TypeInv, TypeOK, BranchStatuses
<1>6. boots \in Nat /\ boots' \in 0..MaxBoots /\ boots' # 0
  BY <1>1, BoundAssumption DEF TypeInv, TypeOK
<1>7. TypeInv'
  <2>1. NoOp \in [step : OpSteps, by : Workers \cup {NoWorker}]
    BY DEF NoOp, OpSteps
  <2> QED BY <1>1, <1>3, <1>5, <1>6, <2>1, TypeStep DEF TypeInv, TypeOK, caddyVars
<1>8. ShapeInv'
  <2>1. Shape(w)'
    BY <1>1, <1>3, <1>4 DEF Shape, ItemSteps, Withdrawing
  <2>2. ASSUME NEW v \in Workers \ {w} PROVE Shape(v)'
    <3>1. SameJob(job[v], job'[v]) /\ Shape(v)
      BY <1>3 DEF PreviewInv, ShapeInv, OthersSame
    <3> QED BY <1>1, <3>1 DEF Shape, SameJob, Withdrawing
  <2>3. ASSUME NEW r \in requests' PROVE RequestIsOwn(r)'
    <3>1. r \in requests /\ RequestIsOwn(r)
      BY <1>1, <2>3 DEF caddyVars, PreviewInv, ShapeInv
    <3>2. CASE r.by = NoWorker
      BY <3>2 DEF RequestIsOwn
    <3>3. CASE r.by # NoWorker
      <4>1. r.by \in Workers \ {w}
        BY <1>1, <3>1, <3>3 DEF RequestIsOwn, TypeInv, TypeOK
      <4>2. SameJob(job[r.by], job'[r.by])
        BY <1>3, <4>1 DEF OthersSame
      <4> QED BY <1>1, <3>1, <3>3, <4>2 DEF RequestIsOwn, SameJob, Target, Withdrawing
    <3> QED BY <3>2, <3>3
  <2>4. PendingIsIntent'
    BY <1>1 DEF PreviewInv, ShapeInv, PendingIsIntent
  <2> QED BY <2>1, <2>2, <2>3, <2>4 DEF ShapeInv
<1>9. ASSUME Solo' PROVE SoloInv' /\ RouteInv' /\ StopInv'
  <2>1. Solo /\ running' = {w}
    BY <1>1, <1>6, <1>9 DEF Solo
  <2>2. Synced(w)'
    BY <1>3, <1>4 DEF Synced
  <2>3. ASSUME NEW q \in Previews PROVE CreationIsOwned(q)' /\ InactiveIsUnrouted(q)'
    <3>1. Creations(q)' = Creations(q)
      BY <1>1 DEF Creations, caddyVars
    <3> QED BY <1>1, <2>1, <3>1 DEF PreviewInv, RouteInv, CreationIsOwned, InactiveIsUnrouted, caddyVars
  <2>4. StopInv'
    BY <1>1 DEF StopInv, NoOp
  <2> QED BY <1>3, <1>4, <2>1, <2>2, <2>3, <2>4 DEF SoloInv, RouteInv
<1> QED BY <1>6, <1>7, <1>8, <1>9 DEF PreviewInv

(* The server answers a request, or drops one that nobody waits for; the      *)
(* table becomes what a request that matched it asked for.                   *)
Served(r) ==
  \/ UNCHANGED routes
  \/ Matches(r) /\ routes' = Expected(routes, r.preview, r.ip)

LEMMA AnswerKeeps ==
  ASSUME PreviewInv, NEW r \in requests, NEW s \in {"readback", "rejected"},
         Served(r), requests' = requests \ {r}, Answered(r, s),
         UNCHANGED <<preview, branch, op, running, serving, quiet, boots, changes>>
  PROVE  PreviewInv'
<1>1. TypeInv /\ r \in Requests /\ RequestIsOwn(r) /\ r.preview \in Previews /\ r.ip \in Ips \cup {NoIp}
  BY DEF PreviewInv, TypeInv, TypeOK, ShapeInv, Requests
<1>2. /\ routes \in Tables /\ routes' \in Tables
      /\ \A q \in Previews : q # r.preview => routes'[q] = routes[q]
      /\ \/ routes' = routes
         \/ routes = r.base /\ routes'[r.preview] = r.ip
  <2>1. routes \in Tables
    BY <1>1 DEF TypeInv, TypeOK
  <2> QED BY <1>1, <2>1 DEF Served, Matches, Expected, Tables
<1>3. /\ job' \in [Workers -> JobType]
      /\ r.by = NoWorker => job' = job
      /\ \A v \in Workers : v # r.by => SameJob(job[v], job'[v]) /\ job'[v].stale = job[v].stale
      /\ r.by # NoWorker =>
           /\ r.by \in running /\ r.by \in Workers /\ job[r.by].step = "wait" /\ job'[r.by].step = s
           /\ job'[r.by].kind = job[r.by].kind /\ job'[r.by].todo = job[r.by].todo
           /\ job'[r.by].stale = job[r.by].stale /\ job'[r.by].branch = job[r.by].branch
           /\ job'[r.by].rows = job[r.by].rows /\ job'[r.by].at = job[r.by].at
           /\ job'[r.by].table = job[r.by].table
  <2>1. CASE r.by = NoWorker
    BY <1>1, <2>1 DEF Answered, SameJob, TypeInv
  <2>2. CASE r.by # NoWorker
    <3>1. r.by \in running /\ r.by \in Workers /\ job[r.by].step = "wait"
      BY <1>1, <2>2 DEF RequestIsOwn, TypeInv, TypeOK
    <3>2. Goto(r.by, s) /\ s \in JobSteps
      BY <2>2 DEF Answered, Goto, JobSteps, ItemSteps
    <3>3. \A v \in Workers \ {r.by} : job'[v] = job[v]
      BY <1>1, <2>2 DEF Answered, TypeInv
    <3> QED BY <1>1, <2>2, <3>1, <3>2, <3>3, SteppedJob DEF OthersSame
  <2> QED BY <2>1, <2>2
(* Nobody else has sent anything that its sender waits for.                  *)
<1>4. ASSUME NEW m \in requests', m.by # NoWorker
      PROVE  m.by # r.by
  <2>1. SUFFICES ASSUME m.by = r.by PROVE FALSE
    OBVIOUS
  <2>2. m \in requests /\ m # r /\ m \in Requests /\ RequestIsOwn(m)
    BY <1>1 DEF PreviewInv, ShapeInv, TypeInv, TypeOK
  <2>3. job[r.by].at = {r.preview} /\ m.preview = r.preview
    <3>1. Shape(r.by) /\ job[r.by].step = "wait"
      BY <1>1, <1>4, <2>1 DEF PreviewInv, ShapeInv, RequestIsOwn, TypeInv, TypeOK
    <3>2. r.preview \in job[r.by].at /\ m.preview \in job[r.by].at
      BY <1>1, <1>4, <2>1, <2>2 DEF RequestIsOwn
    <3> QED BY <3>1, <3>2 DEF Shape, ItemSteps
  <2>4. m.ip = r.ip /\ m.base = r.base
    BY <1>1, <1>4, <2>1, <2>2, <2>3 DEF RequestIsOwn
  <2> QED BY <1>1, <2>1, <2>2, <2>3, <2>4 DEF Requests
<1>5. TypeInv'
  BY <1>1, <1>2, <1>3, TypeStep DEF TypeInv, TypeOK
<1>6. ShapeInv'
  <2>1. ASSUME NEW v \in Workers PROVE Shape(v)'
    <3>1. Shape(v)
      BY DEF PreviewInv, ShapeInv
    <3>2. CASE v # r.by
      BY <1>3, <3>1, <3>2 DEF Shape, SameJob, Withdrawing
    <3>3. CASE v = r.by
      <4>1. r.by # NoWorker
        BY <3>3, NullAssumption
      <4> QED BY <1>3, <3>1, <3>3, <4>1 DEF Shape, Withdrawing, ItemSteps
    <3> QED BY <3>2, <3>3
  <2>2. ASSUME NEW m \in requests' PROVE RequestIsOwn(m)'
    <3>1. m \in requests /\ RequestIsOwn(m)
      BY DEF PreviewInv, ShapeInv
    <3>2. CASE m.by = NoWorker
      BY <3>2 DEF RequestIsOwn
    <3>3. CASE m.by # NoWorker
      <4>1. m.by \in Workers /\ m.by # r.by
        BY <1>1, <1>4, <3>1, <3>3 DEF RequestIsOwn, TypeInv, TypeOK
      <4>2. SameJob(job[m.by], job'[m.by])
        BY <1>3, <4>1
      <4> QED BY <3>1, <3>3, <4>2 DEF RequestIsOwn, SameJob, Target, Withdrawing
    <3> QED BY <3>2, <3>3
  <2>3. PendingIsIntent'
    BY DEF PreviewInv, ShapeInv, PendingIsIntent
  <2> QED BY <2>1, <2>2, <2>3 DEF ShapeInv
<1>7. Solo' <=> Solo
  BY DEF Solo
(* A job that goes on as it was, or the job that waited.                     *)
<1>8. ASSUME NEW v \in running
      PROVE  /\ v \in Workers /\ job'[v].at = job[v].at
             /\ \/ v # r.by /\ SameJob(job[v], job'[v]) /\ job'[v].stale = job[v].stale
                \/ v = r.by /\ r.by # NoWorker
  <2>1. v \in Workers
    BY <1>1 DEF TypeInv, TypeOK
  <2>2. CASE v # r.by
    BY <1>3, <2>1, <2>2 DEF SameJob
  <2>3. CASE v = r.by
    BY <1>3, <2>1, <2>3, NullAssumption
  <2> QED BY <2>2, <2>3
<1>9. ASSUME Solo PROVE SoloInv' /\ RouteInv' /\ StopInv'
  <2>0. SoloInv /\ RouteInv /\ StopInv /\ \A v, w \in running : v = w
    BY <1>9 DEF PreviewInv, SoloInv
  <2>1. ASSUME NEW v \in running
        PROVE  Synced(v)' /\ \A q \in job'[v].at : RowAtStep(v, q)'
    <3>1. Synced(v) /\ \A q \in job[v].at : RowAtStep(v, q)
      BY <2>0 DEF SoloInv
    <3>2. CASE v # r.by /\ SameJob(job[v], job'[v]) /\ job'[v].stale = job[v].stale
      BY <3>1, <3>2 DEF Synced, RowAtStep, SameJob, Withdrawing
    <3>3. CASE v = r.by /\ r.by # NoWorker
      BY <1>3, <3>1, <3>3 DEF Synced, RowAtStep, Sent, Withdrawing
    <3> QED BY <1>8, <3>2, <3>3
  <2>2. ASSUME NEW q \in Previews
        PROVE  /\ Creations(q)' \subseteq Creations(q)
               /\ CreationIsOwned(q)' /\ InactiveIsUnrouted(q)'
    <3>1. Creations(q)' = Creations(q) \ {r}
      BY DEF Creations
    <3>2. CreationIsOwned(q) /\ InactiveIsUnrouted(q)
      BY <2>0 DEF RouteInv
    <3>3. CASE routes'[q] = routes[q]
      BY <3>1, <3>2, <3>3 DEF CreationIsOwned, InactiveIsUnrouted
    <3>4. CASE q = r.preview /\ routes = r.base /\ routes'[q] = r.ip
      <4>1. routes[q] = NoIp /\ r.ip # NoIp => r \in Creations(q)
        BY <3>4 DEF Creations
      <4>2. Creations(q)' # {} => r.ip = NoIp
        BY <3>1, <3>2, <4>1 DEF CreationIsOwned
      <4>3. preview[q].status = "inactive" => r.ip = NoIp
        BY <3>2, <4>1 DEF CreationIsOwned, InactiveIsUnrouted
      <4> QED BY <3>1, <3>2, <3>4, <4>2, <4>3 DEF CreationIsOwned, InactiveIsUnrouted
    <3> QED BY <1>2, <3>1, <3>3, <3>4
  <2>3. ASSUME NEW v \in running, NEW q \in job'[v].at PROVE Knows(v, q)'
    <3>1. q \in Previews /\ q \in job[v].at /\ Knows(v, q) /\ RowAtStep(v, q)
      BY <1>1, <1>8, <2>0 DEF RouteInv, SoloInv, TypeInv, JobType
    <3>2. Creations(q)' \subseteq Creations(q)
      BY <2>2, <3>1
    <3>3. CASE v = r.by /\ r.by # NoWorker
      <4>1. \A m \in Creations(q)' : m \in requests' /\ m.by = r.by
        BY <1>3, <3>1, <3>2, <3>3 DEF Knows, Creations
      <4>2. Creations(q)' = {}
        BY <1>4, <3>3, <4>1
      <4> QED BY <1>3, <3>3, <4>2 DEF Knows
    <3>4. CASE v # r.by /\ SameJob(job[v], job'[v])
      <4>1. /\ \/ job[v].step \in {"probe", "apply", "send", "confirm", "recover"}
               \/ job[v].step = "decide" /\ preview[q].status # "applying"
            /\ job[v].table[q] = NoIp
            => routes'[q] = NoIp
        <5>1. SUFFICES ASSUME \/ job[v].step \in {"probe", "apply", "send", "confirm", "recover"}
                              \/ job[v].step = "decide" /\ preview[q].status # "applying",
                              job[v].table[q] = NoIp
                       PROVE  routes'[q] = NoIp
          OBVIOUS
        <5>2. routes[q] = NoIp
          BY <3>1, <5>1 DEF Knows
        <5>3. Creations(q) = {}
          BY <2>0, <3>1, <5>1 DEF Knows, RouteInv, CreationIsOwned, RowAtStep
        <5>4. q = r.preview /\ routes = r.base => r.ip = NoIp
          BY <5>2, <5>3 DEF Creations
        <5> QED BY <1>2, <3>1, <5>2, <5>4
      <4>2. \A m \in Creations(q)' : m \in Creations(q)
        BY <3>2
      <4> QED BY <3>1, <3>2, <3>4, <4>1, <4>2 DEF Knows, SameJob, Target, Withdrawing
    <3> QED BY <1>8, <3>3, <3>4
  <2>4. StopInv'
    <3>1. ASSUME op.step \in {"gate", "stop"}, NEW v \in running PROVE Blocked(v)'
      <4>1. Blocked(v)
        BY <2>0, <3>1 DEF StopInv
      <4>2. v # r.by
        <5>1. v \in Workers /\ Shape(v)
          BY <1>8 DEF PreviewInv, ShapeInv
        <5> QED BY <1>3, <1>8, <4>1, <5>1 DEF Blocked, Shape
      <4> QED BY <1>8, <4>1, <4>2 DEF Blocked, SameJob
    <3> QED BY <2>0, <3>1 DEF StopInv, GateOpen
  <2> QED BY <2>0, <2>1, <2>2, <2>3, <2>4 DEF SoloInv, RouteInv
<1>10. ASSUME boots = 0 PROVE AccountInv'
  <2>0. AccountInv /\ SoloInv /\ Solo /\ \A v, w \in running : v = w
    BY <1>10 DEF PreviewInv, SoloInv, Solo
  <2>1. ASSUME NEW q \in Previews PROVE AccountedFor(q)'
    <3>1. AccountedFor(q)
      BY <2>0 DEF AccountInv
    <3>2. CASE routes'[q] = routes[q]
      BY <3>1, <3>2 DEF AccountedFor
    <3>3. CASE q = r.preview /\ routes'[q] = r.ip
      BY <3>1, <3>3 DEF AccountedFor
    <3> QED BY <1>2, <3>2, <3>3
  <2>2. ASSUME NEW v \in running, NEW q \in job'[v].at PROVE SawRoute(v, q)'
    <3>1. q \in Previews /\ q \in job[v].at /\ SawRoute(v, q) /\ RowAtStep(v, q)
      BY <1>1, <1>8, <2>0 DEF AccountInv, SoloInv, TypeInv, JobType
    <3>2. CASE v = r.by /\ r.by # NoWorker
      BY <1>3, <3>2 DEF SawRoute
    <3>3. CASE v # r.by /\ SameJob(job[v], job'[v])
      <4>1. r.by = NoWorker
        BY <1>3, <2>0, <3>3
      <4>2. q = r.preview => r.ip = NoIp
        BY <2>0, <3>1, <4>1 DEF AccountInv, AccountedFor, RowAtStep
      <4>3. routes'[q] = routes[q] \/ routes'[q] = NoIp
        BY <1>2, <3>1, <4>2
      <4> QED BY <3>1, <3>3, <4>3 DEF SawRoute, SameJob
    <3> QED BY <1>8, <3>2, <3>3
  <2> QED BY <2>1, <2>2 DEF AccountInv
<1> QED BY <1>5, <1>6, <1>7, <1>9, <1>10 DEF PreviewInv

LEMMA ServerKeeps ==
  ASSUME PreviewInv, Server
  PROVE  PreviewInv'
<1>1. PICK r \in requests : Perform(r) \/ Refuse(r)
  BY DEF Server
<1>2. CASE Perform(r)
  BY <1>1, <1>2, AnswerKeeps DEF Perform, Performs, Served, rowVars
<1>3. CASE Refuse(r)
  BY <1>1, <1>3, AnswerKeeps DEF Refuse, Refuses, Served, rowVars
<1> QED BY <1>1, <1>2, <1>3

-----------------------------------------------------------------------------
LEMMA InitHolds == Init => PreviewInv
<1> SUFFICES ASSUME Init PROVE PreviewInv
  OBVIOUS
<1>1. /\ routes = EmptyTable /\ requests = {} /\ preview = [p \in Previews |-> FreshRow]
      /\ branch \in {NoBranch} \cup [status : {"online"}, ip : Ips] /\ op = NoOp
      /\ job = [w \in Workers |-> NoJob] /\ serving = running /\ quiet = {}
      /\ boots = 0 /\ changes = 0
  BY DEF Init, CaddyInit, EmptyTable
<1>2. PICK v \in Workers : running = {v}
  BY DEF Init
<1>3. TypeInv
  <2>1. EmptyTable \in Tables /\ preview \in [Previews -> Rows] /\ job \in [Workers -> JobType]
    BY <1>1, EmptyTyped, FreshTyped, NoJobTyped
  <2>2. branch \in [status : BranchStatuses, ip : Ips \cup {NoIp}]
    BY <1>1 DEF NoBranch, BranchStatuses
  <2>3. op \in [step : OpSteps, by : Workers \cup {NoWorker}]
    BY <1>1 DEF NoOp, OpSteps
  <2>4. boots \in 0..MaxBoots /\ changes \in 0..MaxChanges
    BY <1>1, BoundAssumption
  <2>5. ASSUME NEW w \in Workers
        PROVE  /\ job[w].kind \in {"none", "pass", "removal", "withdrawal"}
               /\ job[w].rows \in [Previews -> Rows]
               /\ job[w].table \in Tables
               /\ job[w].at \subseteq Previews /\ job[w].stale \subseteq Previews
    BY <2>1 DEF JobType
  <2> QED BY <1>1, <1>2, <2>1, <2>2, <2>3, <2>4, <2>5 DEF TypeInv, TypeOK
<1>4. /\ NoJob.kind = "none" /\ NoJob.step = "none" /\ NoJob.todo = {} /\ NoJob.at = {}
      /\ NoJob.stale = {}
  BY DEF NoJob
<1>5. \A w \in Workers : job[w] = NoJob
  BY <1>1
<1>6. \A p \in Previews : /\ preview[p].status = "inactive" /\ preview[p].pending = NoIp
                          /\ routes[p] = NoIp
  BY <1>1 DEF FreshRow, EmptyTable
<1>7. ShapeInv
  BY <1>1, <1>4, <1>5, <1>6 DEF ShapeInv, Shape, ItemSteps, Withdrawing, PendingIsIntent
<1>8. SoloInv
  BY <1>2, <1>4, <1>5 DEF SoloInv, Synced
<1>9. RouteInv
  BY <1>1, <1>2, <1>4, <1>5, <1>6 DEF RouteInv, CreationIsOwned, Creations, InactiveIsUnrouted
<1>10. StopInv
  BY <1>1 DEF StopInv, NoOp
<1>11. AccountInv
  BY <1>1, <1>2, <1>4, <1>5, <1>6 DEF AccountInv, AccountedFor
<1> QED BY <1>3, <1>7, <1>8, <1>9, <1>10, <1>11 DEF PreviewInv

LEMMA PreviewStepKeeps ==
  ASSUME PreviewInv, NEW w \in Workers, NEW p \in Previews, PreviewStep(w, p)
  PROVE  PreviewInv'
<1>1. CASE Ensure(w, p) \/ NextWithdrawal(w, p)
  BY <1>1, EnsureKeeps, NextWithdrawalKeeps
<1>2. CASE ~(Ensure(w, p) \/ NextWithdrawal(w, p))
  <2>1. w \in running
    BY <1>2 DEF PreviewStep, Inspect, Decide, Probe, Apply, Send, TimeOut, ReadBack, Confirm, Verify,
       Rejected, Recover, AtStep, Busy
  <2> QED BY <1>2, <2>1, InspectKeeps, DecideKeeps, ProbeKeeps, ApplyKeeps, SendKeeps, TimeOutKeeps,
       ReadBackKeeps, ConfirmKeeps, VerifyKeeps, RejectedKeeps, RecoverKeeps DEF PreviewStep
<1> QED BY <1>1, <1>2

LEMMA NextKeeps == PreviewInv /\ [Next]_vars => PreviewInv'
<1> SUFFICES ASSUME PreviewInv, [Next]_vars PROVE PreviewInv'
  OBVIOUS
<1>1. ASSUME NEW w \in Workers, JobStep(w) PROVE PreviewInv'
  BY <1>1, ReadKeeps, PlanPassKeeps, ProvenanceFailsKeeps, JobEndsKeeps, PreviewStepKeeps DEF JobStep
<1>2. ASSUME NEW w \in Workers, OpStep(w) PROVE PreviewInv'
  BY <1>2, QuietStepKeeps, WithdrawKeeps, ResumeKeeps DEF OpStep, QuietStep
<1>3. ASSUME NEW w \in Workers,
             \/ StartPass(w) \/ AcceptStop(w) \/ AcceptStart(w) \/ StopCoordinator(w)
             \/ Crash(w) \/ Boot(w) \/ Serve(w)
      PROVE  PreviewInv'
  BY <1>3, StartPassKeeps, QuietStepKeeps, CrashKeeps, BootKeeps DEF QuietStep
<1> QED BY <1>1, <1>2, <1>3, ServerKeeps, ObserveBranchKeeps, StutterKeeps DEF Next

(* Types and shapes hold whatever runs; with one process at a time the rows a *)
(* job works on are its own, the one creation on its way is owned up to by    *)
(* its row, and nothing moves behind the gate; within one life every route is *)
(* accounted for.                                                            *)
THEOREM PreviewInvariant == Spec => []PreviewInv
<1> QED BY InitHolds, NextKeeps, PTL DEF Spec

(* Every variable keeps its type.                                            *)
THEOREM PreviewTypeCorrect == Spec => []TypeOK
<1>1. PreviewInv => TypeOK
  BY DEF PreviewInv, TypeInv
<1> QED BY <1>1, PreviewInvariant, PTL

(* A route Caddy serves is the current or the pending configuration of its    *)
(* row, unless the row asks for an operator, as long as the first process     *)
(* lives: failure.ts and recovery.ts lose no route.                          *)
THEOREM PreviewRouteIsAccounted == Spec => []RouteIsAccounted
<1>1. PreviewInv => RouteIsAccounted
  BY DEF PreviewInv, AccountInv, AccountedFor, RouteIsAccounted
<1> QED BY <1>1, PreviewInvariant, PTL

(* An inactive preview, and every preview of a branch whose stop recorded its *)
(* provider intent (gate.ts), has no route and no request on its way that     *)
(* could create one, through any number of restarts, if no replacement       *)
(* starts while a superseded Worker still runs.                              *)
THEOREM PreviewWithdrawnIsUnrouted ==
  ASSUME ~Overlap
  PROVE  Spec => []WithdrawnIsUnrouted
<1>1. PreviewInv => WithdrawnIsUnrouted
  <2> SUFFICES ASSUME PreviewInv, NEW p \in Previews,
                      preview[p].status = "inactive" \/ op.step = "stop"
               PROVE  routes[p] = NoIp /\ ~CanStillRoute(p)
    BY DEF WithdrawnIsUnrouted
  <2>1. CreationIsOwned(p) /\ InactiveIsUnrouted(p) /\ StopInv
    BY DEF PreviewInv, RouteInv, Solo
  <2>2. preview[p].status = "inactive"
    BY <2>1 DEF StopInv, GateOpen
  <2>3. routes[p] = NoIp /\ Creations(p) = {}
    BY <2>1, <2>2 DEF CreationIsOwned, InactiveIsUnrouted
  <2> QED BY <2>3 DEF CanStillRoute, Creations, Matches
<1> QED BY <1>1, PreviewInvariant, PTL

-----------------------------------------------------------------------------
(* Withdrawal wins.  What a step writes to the row of its preview.           *)
KeepsIntent(p) ==
  \/ UNCHANGED preview
  \/ \E row : /\ preview' = [preview EXCEPT ![p] = row]
              /\ row.status = "applying" => ~preview[p].withdrawal
WithdrawalWins ==
  \A p \in Previews :
    preview[p].withdrawal /\ preview'[p].status = "applying" => preview[p].status = "applying"

LEMMA WrittenStatuses ==
  ASSUME NEW r \in Rows
  PROVE  /\ Inactive(r).status # "applying" /\ Applied(r).status # "applying"
         /\ RejectApply(r).status # "applying"
         /\ \A status : Becomes(r, status).status = status
  BY DEF Inactive, Applied, RejectApply, Becomes, Rows

LEMMA ItemsKeepIntent ==
  ASSUME TypeInv, NEW w \in Workers, NEW p \in Previews, PreviewStep(w, p)
  PROVE  KeepsIntent(p)
<1>0. preview[p] \in Rows
  BY DEF TypeInv, TypeOK
<1>1. ASSUME NEW row, row.status # "applying", NEW s,
             Writes(w, p, row, s) \/ WritesLast(w, p, row)
      PROVE  KeepsIntent(p)
  BY <1>1 DEF Writes, WritesLast, KeepsIntent
<1>2. CASE Cleanup(w, p)
  BY <1>0, <1>1, <1>2, WrittenStatuses DEF Cleanup, KeepsIntent
<1>3. CASE UNCHANGED preview
  BY <1>3 DEF KeepsIntent
<1>4. CASE Throws(w)
  BY <1>4 DEF Throws, KeepsIntent
<1>5. CASE RecoverRemoval(w, p)
  BY <1>0, <1>1, <1>2, <1>4, <1>5, WrittenStatuses DEF RecoverRemoval
<1>6. CASE RecoverApplication(w, p)
  BY <1>0, <1>1, <1>2, <1>4, <1>6, WrittenStatuses DEF RecoverApplication
<1>7. CASE DecideApplying(w, p)
  BY <1>0, <1>1, <1>2, <1>4, <1>7, WrittenStatuses DEF DecideApplying
<1>8. CASE DecideWithdrawal(w, p)
  BY <1>0, <1>1, <1>2, <1>3, <1>4, <1>5, <1>8, WrittenStatuses DEF DecideWithdrawal
<1>9. CASE DecideApply(w, p)
  BY <1>0, <1>1, <1>2, <1>3, <1>4, <1>9, WrittenStatuses DEF DecideApply
<1>10. CASE Apply(w, p)
  <2>1. Admits(w, p) => ~preview[p].withdrawal
    BY DEF Admits
  <2>2. Admits(w, p) /\ Writes(w, p, Applying(preview[p], job[w].branch.ip), "send") => KeepsIntent(p)
    BY <2>1 DEF Writes, KeepsIntent
  <2> QED BY <1>2, <1>3, <1>10, <2>2 DEF Apply
<1>11. CASE Probe(w, p)
  BY <1>0, <1>1, <1>2, <1>3, <1>11, WrittenStatuses DEF Probe
<1>12. CASE Confirm(w, p)
  BY <1>0, <1>1, <1>2, <1>12, WrittenStatuses DEF Confirm
<1>13. CASE Verify(w, p)
  BY <1>0, <1>1, <1>3, <1>13, WrittenStatuses DEF Verify
<1>14. CASE Decide(w, p) \/ Recover(w, p)
  BY <1>5, <1>6, <1>7, <1>8, <1>9, <1>14 DEF Decide, Recover
<1>15. CASE Inspect(w, p) \/ Rejected(w, p) \/ TimeOut(w, p) \/ ReadBack(w, p)
  BY <1>2, <1>3, <1>15 DEF Inspect, Rejected, TimeOut, ReadBack, ReadTable, UnknownOutcome
<1>16. CASE Ensure(w, p) \/ NextWithdrawal(w, p) \/ Send(w, p)
  BY <1>3, <1>16 DEF Ensure, NextWithdrawal, Send, rowVars
<1> QED BY <1>10, <1>11, <1>12, <1>13, <1>14, <1>15, <1>16 DEF PreviewStep

LEMMA StepKeepsIntent == TypeInv /\ [Next]_vars => WithdrawalWins
<1> SUFFICES ASSUME TypeInv, [Next]_vars PROVE WithdrawalWins
  OBVIOUS
<1>0. \A p \in Previews : preview[p] \in Rows
  BY DEF TypeInv, TypeOK
<1>1. CASE UNCHANGED preview
  BY <1>1 DEF WithdrawalWins
<1>2. ASSUME NEW w \in Workers, NEW p \in Previews, PreviewStep(w, p) PROVE WithdrawalWins
  <2>1. KeepsIntent(p) /\ preview \in [Previews -> Rows]
    BY <1>2, ItemsKeepIntent DEF TypeInv, TypeOK
  <2> QED BY <1>1, <2>1 DEF KeepsIntent, WithdrawalWins
<1>3. ASSUME NEW w \in Workers, NEW kind, RequestWithdrawal(w, kind) PROVE WithdrawalWins
  <2>1. \A p \in Previews : preview'[p] = [preview[p] EXCEPT !.withdrawal = TRUE]
    BY <1>3 DEF RequestWithdrawal, Withdrawn
  <2>2. \A p \in Previews : preview'[p].status = preview[p].status
    BY <1>0, <2>1 DEF Rows
  <2> QED BY <2>2 DEF WithdrawalWins
<1>4. ASSUME NEW w \in Workers, PlanPass(w) \/ Withdraw(w) PROVE WithdrawalWins
  BY <1>1, <1>3, <1>4 DEF PlanPass, Withdraw
<1>5. ASSUME NEW w \in Workers, ProvenanceFails(w) PROVE WithdrawalWins
  <2>1. \A p \in Previews : preview'[p] \in {preview[p], Becomes(preview[p], "cleanup_required")}
    BY <1>5 DEF ProvenanceFails
  <2> QED BY <1>0, <2>1, WrittenStatuses DEF WithdrawalWins
<1>6. ASSUME NEW w \in Workers, Resume(w) PROVE WithdrawalWins
  <2>1. CASE preview' = [p \in Previews |-> [preview[p] EXCEPT !.withdrawal = FALSE]]
    <3>1. \A p \in Previews : preview'[p].status = preview[p].status
      BY <1>0, <2>1 DEF Rows
    <3> QED BY <3>1 DEF WithdrawalWins
  <2> QED BY <1>1, <1>6, <2>1 DEF Resume
<1>7. ASSUME NEW w \in Workers,
             \/ StartPass(w) \/ Read(w) \/ JobEnds(w) \/ QuietStep(w) \/ Crash(w) \/ Boot(w)
      PROVE  WithdrawalWins
  <2>1. UNCHANGED preview
    BY <1>7 DEF StartPass, Read, JobEnds, QuietStep, Crash, Boot, AcceptStop, AcceptStart, Gate,
       StopRuntime, StartRuntime, CompleteStart, StopCoordinator, Serve, rowVars
  <2> QED BY <1>1, <2>1
<1>8. ASSUME Server \/ ObserveBranch \/ UNCHANGED vars PROVE WithdrawalWins
  <2>1. UNCHANGED preview
    BY <1>8 DEF Server, Perform, Refuse, ObserveBranch, vars, rowVars
  <2> QED BY <1>1, <2>1
<1>9. ASSUME NEW w \in Workers, JobStep(w) \/ OpStep(w) PROVE WithdrawalWins
  BY <1>2, <1>4, <1>5, <1>6, <1>7, <1>9 DEF JobStep, OpStep, QuietStep
<1> QED BY <1>7, <1>8, <1>9 DEF Next, QuietStep

(* Withdrawal wins: no step gives a preview that is marked for withdrawal a   *)
(* new mutation intent, in whatever process and however stale its copies are. *)
THEOREM PreviewNoApplyWhileWithdrawn == Spec => NoApplyWhileWithdrawn
<1>1. PreviewInv => TypeInv
  BY DEF PreviewInv
<1>2. TypeInv /\ [Next]_vars
      => [\A p \in Previews :
            preview[p].withdrawal /\ preview'[p].status = "applying" => preview[p].status = "applying"]_vars
  BY StepKeepsIntent DEF WithdrawalWins
<1> QED BY <1>1, <1>2, PreviewInvariant, PTL DEF Spec, NoApplyWhileWithdrawn
=============================================================================
