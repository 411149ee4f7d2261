----------------------------- MODULE CaddyRoutes -----------------------------
(***************************************************************************)
(* The route table of the ingress server and the requests on their way to   *)
(* it, as caddy/routes.ts and caddy/transport.ts use them.  Every mutation  *)
(* carries the ETag of the table it was decided on; an ETag is a digest of  *)
(* the content, so a table that returned to an earlier content matches an   *)
(* earlier ETag again.  The configuration of a preview route is determined  *)
(* by its upstream address, so a route is its address.  The order of the    *)
(* routes is abstracted: two tables with the same routes match.             *)
(***************************************************************************)
CONSTANTS
  Previews,   \* previews of one branch, each with its own route id
  Ips, NoIp,  \* upstream addresses, and the absence of a route
  Workers,    \* Worker processes
  NoWorker    \* sender of a request whose answer nobody waits for

ASSUME NullAssumption == NoIp \notin Ips /\ NoWorker \notin Workers

VARIABLES
  routes,   \* the table: address of each preview's route, or NoIp
  requests  \* mutations sent and not yet answered

caddyVars == <<routes, requests>>

Tables == [Previews -> Ips \cup {NoIp}]

(* ip is NoIp in a deletion.                                                *)
Requests == [preview : Previews, ip : Ips \cup {NoIp}, base : Tables,
             by : Workers \cup {NoWorker}]

CaddyInit ==
  /\ routes = [p \in Previews |-> NoIp]
  /\ requests = {}

(* The table a mutation decided on base is expected to leave.               *)
Expected(base, p, ip) == [base EXCEPT ![p] = ip]

(* If-Match over the whole table.                                           *)
Matches(r) == routes = r.base

(* The server carries a request out.                                        *)
Performs(r) ==
  /\ r \in requests
  /\ Matches(r)
  /\ routes' = Expected(routes, r.preview, r.ip)
  /\ requests' = requests \ {r}

(* 412 when the table has moved on, or another confirmed 4xx rejection.     *)
Refuses(r) ==
  /\ r \in requests
  /\ requests' = requests \ {r}
  /\ UNCHANGED routes

(* Nobody waits for the answer any more: the sender is gone or timed out.   *)
Abandoned(w) ==
  {IF r.by = w THEN [r EXCEPT !.by = NoWorker] ELSE r : r \in requests}
=============================================================================
