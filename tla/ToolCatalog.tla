---------------------------- MODULE ToolCatalog ----------------------------
(***************************************************************************)
(* The cached tool catalogue: ToolRegistry of                              *)
(* services/agent-api/app/tools/registry.py, and who has one.              *)
(*                                                                         *)
(* The application keeps one registry, loaded at startup, which only the   *)
(* catalogue endpoint reads.  Every agent request is served by a workflow  *)
(* built for it (main.py), whose constructor makes two registries of its   *)
(* own: the planner is offered the tools of one and the gateway looks the  *)
(* chosen tool up in the other.  A load runs `waro schema` and holds the   *)
(* registry's lock meanwhile.                                              *)
(***************************************************************************)
EXTENDS Naturals

CONSTANTS
  Asks,        \* agent requests
  Listings,    \* requests to the catalogue endpoint
  ToolCalls,   \* tools one agent request calls
  TTL,         \* tool_catalog_refresh_seconds
  Horizon,     \* bound on the clock
  None         \* no caller

ASSUME CatalogAssumption ==
  /\ Asks \cap Listings = {}
  /\ None \notin Asks \cup Listings
  /\ ToolCalls \in Nat
  /\ TTL \in Nat
  /\ Horizon \in Nat

Callers == Asks \cup Listings

VARIABLES
  source,     \* tool_catalog_source: "cli" or "static"
  now,        \* time.monotonic()
  offers,     \* the waro CLI has a tool that TOOL_SPECS lacks
  upset,      \* the CLI changed its catalogue or failed to print it (history)
  snapshot,   \* snapshot[g]: _snapshot of registry g
  holder,     \* holder[g]: the caller that holds _lock of registry g
  pc,         \* pc[c]: where the caller is in refresh
  round,      \* round[c]: refreshes the caller has got through
  known,      \* known[c]: tools of the first snapshot it got
  refused,    \* refused[c]: tools of known[c] that the gateway then did not find
  taken,      \* taken[c]: when the first and the last snapshot it got were loaded
  loads       \* loads started: registry and time (history)

environment == <<source, now, offers, upset>>
registries  == <<snapshot, holder, loads>>
callers     == <<pc, round, known, refused, taken>>
vars        == <<environment, registries, callers>>

App        == <<"app", "shared">>
Registries == {App} \cup (Asks \X {"planner", "gateway"})

RegistryOf(c) ==
  IF c \in Listings THEN App
  ELSE IF round[c] = 0 THEN <<c, "planner">> ELSE <<c, "gateway">>

\* A listing refreshes for the tools and again for the version it reports.
Rounds(c) == IF c \in Listings THEN 2 ELSE 1 + ToolCalls

StaticTools == {"static"}
Tools       == StaticTools \cup {"cli_only"}

\* Every tool of TOOL_SPECS the CLI does not list is added.
CliOnly     == IF offers THEN {"cli_only"} ELSE {}
StaticDropped == CliOnly
CliCatalog == StaticTools \cup CliOnly

NoSnapshot == [tools |-> {}, at |-> 0]

TypeOK ==
  /\ source \in {"cli", "static"}
  /\ now \in 0..Horizon
  /\ offers \in BOOLEAN /\ upset \in BOOLEAN
  /\ snapshot \in [Registries -> [tools : SUBSET Tools, at : 0..now]]
  /\ holder \in [Registries -> Callers \cup {None}]
  /\ pc \in [Callers -> {"idle", "wait", "load", "done", "raised"}]
  /\ round \in [Callers -> 0..2 + ToolCalls]
  /\ known \in [Callers -> SUBSET Tools]
  /\ refused \in [Callers -> SUBSET Tools]
  /\ taken \in [Callers -> (0..now) \X (0..now)]
  /\ loads \subseteq Registries \X (0..now)
  /\ \A c \in Callers : pc[c] = "load" <=> holder[RegistryOf(c)] = c

\* The lifespan hook has forced a load of the application's registry.
Init ==
  /\ source \in {"cli", "static"}
  /\ now = 0
  /\ offers \in BOOLEAN
  /\ upset \in BOOLEAN
  /\ \E tools \in {StaticTools, CliCatalog} :
       /\ tools # CliCatalog => upset \/ source = "static"
       /\ tools # StaticTools => source = "cli"
       /\ snapshot = [g \in Registries |-> IF g = App THEN [tools |-> tools, at |-> 0] ELSE NoSnapshot]
  /\ holder = [g \in Registries |-> None]
  /\ loads = {<<App, 0>>}
  /\ pc = [c \in Callers |-> "idle"]
  /\ round = [c \in Callers |-> 0]
  /\ known = [c \in Callers |-> {}]
  /\ refused = [c \in Callers |-> {}]
  /\ taken = [c \in Callers |-> <<0, 0>>]

-----------------------------------------------------------------------------
(* refresh.                                                                *)

Goto(c, next) == pc' = [pc EXCEPT ![c] = next]

Fresh(g) == snapshot[g].tools # {} /\ now - snapshot[g].at < TTL

\* The caller goes on with these tools: the first ones are what the planner may
\* choose from, the later ones are where the gateway looks its choice up.  A listing
\* takes its tools from the first and the version from the second.
Serve(c, tools, at) ==
  /\ round' = [round EXCEPT ![c] = @ + 1]
  /\ taken' = [taken EXCEPT ![c] = IF round[c] = 0 THEN <<at, at>> ELSE <<@[1], at>>]
  /\ known' = IF round[c] = 0 THEN [known EXCEPT ![c] = tools] ELSE known
  /\ \/ round[c] = 0 /\ UNCHANGED refused
     \/ /\ round[c] > 0
        /\ \E chosen \in known[c] :
             refused' = [refused EXCEPT ![c] = @ \cup ({chosen} \ tools)]
  /\ Goto(c, IF round[c] + 1 = Rounds(c) THEN "done" ELSE "idle")

Refresh(c) ==
  /\ pc[c] = "idle"
  /\ Goto(c, "wait")
  /\ UNCHANGED <<environment, registries, round, known, refused, taken>>

\* Had refresh no lock.
LockIgnored(g) == TRUE

LockFree(g) == holder[g] = None

UseCached(c) ==
  LET g == RegistryOf(c) IN
  /\ pc[c] = "wait" /\ LockFree(g) /\ Fresh(g)
  /\ Serve(c, snapshot[g].tools, snapshot[g].at)
  /\ UNCHANGED <<environment, registries>>

AlwaysReload(g) == LockFree(g)
MustLoad(g)     == LockFree(g) /\ ~Fresh(g)

StartLoad(c) ==
  LET g == RegistryOf(c) IN
  /\ pc[c] = "wait" /\ MustLoad(g)
  /\ holder' = [holder EXCEPT ![g] = c]
  /\ loads' = loads \cup {<<g, now>>}
  /\ Goto(c, "load")
  /\ UNCHANGED <<environment, snapshot, round, known, refused, taken>>

Store(c, tools) ==
  LET g == RegistryOf(c) IN
  /\ snapshot' = [snapshot EXCEPT ![g] = [tools |-> tools, at |-> now]]
  /\ holder' = [holder EXCEPT ![g] = None]
  /\ Serve(c, tools, now)
  /\ UNCHANGED <<source, now, offers, loads>>

LoadCli(c) ==
  /\ pc[c] = "load" /\ source = "cli"
  /\ Store(c, CliCatalog)
  /\ UNCHANGED upset

\* The configured source, or the fallback of a CLI that is missing, exits with an
\* error, prints no JSON or lists no tool, or that tool_timeout_seconds gave up on.
LoadStatic(c) ==
  /\ pc[c] = "load"
  /\ Store(c, StaticTools)
  /\ upset' = (upset \/ source = "cli")

LoadRaisesLocked(c) ==
  /\ pc[c] = "load" /\ source = "cli"
  /\ Goto(c, "raised")
  /\ UNCHANGED <<environment, registries, round, known, refused, taken>>

\* Any other exception of the load leaves through async with: the lock is free again
\* and the snapshot is what it was.
LoadRaises(c) ==
  /\ pc[c] = "load" /\ source = "cli"
  /\ holder' = [holder EXCEPT ![RegistryOf(c)] = None]
  /\ Goto(c, "raised")
  /\ UNCHANGED <<environment, snapshot, loads, round, known, refused, taken>>

Tick ==
  /\ now < Horizon
  /\ now' = now + 1
  /\ UNCHANGED <<source, offers, upset, registries, callers>>

\* A release of the waro CLI.
CliChanges ==
  /\ offers' = ~offers
  /\ upset' = TRUE
  /\ UNCHANGED <<source, now, registries, callers>>

CallerStep(c) ==
  Refresh(c) \/ UseCached(c) \/ StartLoad(c) \/ LoadCli(c) \/ LoadStatic(c) \/ LoadRaises(c)

Next ==
  \/ \E c \in Callers : CallerStep(c)
  \/ Tick
  \/ CliChanges

Spec == Init /\ [][Next]_vars

\* The event loop serves every caller, and a load ends: wait_for bounds the CLI.
Fairness == \A c \in Callers : WF_vars(CallerStep(c))

FairSpec == Spec /\ Fairness

-----------------------------------------------------------------------------
(* Properties.                                                             *)

\* A snapshot that was loaded serves a whole TTL before another takes its place, however
\* many callers find it expired while it is being loaded anew, and however long loads take:
\* those who waited for the lock use what was stored meanwhile.
SnapshotsLast ==
  [][\A g \in Registries :
       snapshot[g].tools # {} /\ snapshot'[g] # snapshot[g] =>
         snapshot'[g].at >= snapshot[g].at + TTL]_vars

\* The planner and the gateway consult different snapshots, yet the gateway refuses a
\* tool the planner was offered only when the CLI changed or failed in between, and
\* never one of TOOL_SPECS.
OfferedToolsResolve ==
  \A c \in Asks : refused[c] # {} => upset /\ refused[c] \cap StaticTools = {}

\* The catalogue endpoint takes its tools from one refresh and their version from the
\* next: they are of two snapshots only when the first had expired, and the version is
\* never the older one (main.py:108).
ListingOfOneLifetime ==
  \A c \in Listings : taken[c][1] = taken[c][2] \/ taken[c][2] >= taken[c][1] + TTL

\* Every caller that waits for a registry is served or gets an exception, although it
\* may queue behind loads of other callers that time out or raise.
RefreshEnds == \A c \in Callers : pc[c] = "wait" ~> pc[c] # "wait"

-----------------------------------------------------------------------------
(* What the documentation says and the code does not do.                   *)

\* docs/deployment-contract.md: TOOL_CATALOG_REFRESH_SECONDS is the "Catalog cache
\* TTL".  Within one TTL of a service that runs undisturbed the catalogue is loaded once.
LoadedOncePerTTL ==
  ~upset =>
    \A a, b \in loads : a # b => a[2] >= b[2] + TTL \/ b[2] >= a[2] + TTL
=============================================================================
