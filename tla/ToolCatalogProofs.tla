-------------------------- MODULE ToolCatalogProofs --------------------------
(***************************************************************************)
(* Theorems about ToolCatalog, for every set of callers, every TTL and     *)
(* every number of tool calls.                                             *)
(*                                                                         *)
(* They rest on what the lock of a registry gives: whoever loads has it,   *)
(* so the snapshot a load replaces is the one that was found expired.      *)
(***************************************************************************)
EXTENDS ToolCatalog, TLAPS

\* TypeOK without its last conjunct, which is part of Locked.
Typed ==
  /\ source \in {"cli", "static"}
  /\ now \in Nat /\ now <= Horizon
  /\ offers \in BOOLEAN /\ upset \in BOOLEAN
  /\ snapshot \in [Registries -> [tools : SUBSET Tools, at : 0..now]]
  /\ holder \in [Registries -> Callers \cup {None}]
  /\ pc \in [Callers -> {"idle", "wait", "load", "done", "raised"}]
  /\ round \in [Callers -> 0..2 + ToolCalls]
  /\ known \in [Callers -> SUBSET Tools]
  /\ refused \in [Callers -> SUBSET Tools]
  /\ taken \in [Callers -> (0..now) \X (0..now)]
  /\ loads \subseteq Registries \X (0..now)

\* Who loads has the lock of the registry it asks, and no other lock.
Locked ==
  \A c \in Callers :
    /\ pc[c] = "load" <=> holder[RegistryOf(c)] = c
    /\ \A g \in Registries : holder[g] = c => g = RegistryOf(c)

\* Who has not got through has a round left.
Within == \A c \in Callers : pc[c] \in {"idle", "wait", "load"} => round[c] < Rounds(c)

\* What a load gives while the CLI neither changes nor fails.
Expected == IF source = "cli" THEN CliCatalog ELSE StaticTools

Sound(tools) ==
  /\ tools # {} => StaticTools \subseteq tools
  /\ tools # {} /\ ~upset => tools = Expected

Contents ==
  /\ \A g \in Registries : Sound(snapshot[g].tools)
  /\ \A c \in Callers :
       /\ Sound(known[c])
       /\ refused[c] # {} => upset /\ refused[c] \cap StaticTools = {}

\* Of one lifetime, or a whole one apart.
Apart(a, b) == a = b \/ b >= a + TTL

Lifetimes ==
  /\ snapshot[App].tools # {}
  /\ holder[App] # None => now - snapshot[App].at >= TTL
  /\ \A c \in Listings :
       /\ Apart(taken[c][1], taken[c][2])
       /\ round[c] > 0 => Apart(taken[c][1], snapshot[App].at)

Inv == Typed /\ Locked /\ Within /\ Contents /\ Lifetimes

LEMMA RegistryOfCaller ==
  ASSUME NEW c \in Callers
  PROVE  /\ RegistryOf(c) \in Registries /\ c # None
         /\ RegistryOf(c) = App <=> c \in Listings
         /\ \A d \in Callers \ {c} : RegistryOf(c) = RegistryOf(d) => c \in Listings /\ d \in Listings
  BY CatalogAssumption DEF RegistryOf, Registries, App, Callers

LEMMA AppIsRegistry == App \in Registries
  BY DEF Registries

LEMMA RoundsBound ==
  ASSUME NEW c \in Callers
  PROVE  Rounds(c) \in 1..2 + ToolCalls
  BY CatalogAssumption DEF Rounds

LEMMA InitInv == Init => Inv
<1> SUFFICES ASSUME Init PROVE Inv
  OBVIOUS
<1> USE CatalogAssumption, AppIsRegistry
<1>1. PICK tools \in {StaticTools, CliCatalog} :
        /\ tools # CliCatalog => upset \/ source = "static"
        /\ tools # StaticTools => source = "cli"
        /\ snapshot = [g \in Registries |-> IF g = App THEN [tools |-> tools, at |-> 0] ELSE NoSnapshot]
  BY DEF Init
<1>2. StaticTools \subseteq tools /\ tools \in SUBSET Tools /\ tools # {}
  BY <1>1 DEF StaticTools, CliCatalog, CliOnly, Tools
<1>3. ~upset => tools = Expected
  BY <1>1 DEF Expected, Init
<1>4. snapshot[App] = [tools |-> tools, at |-> 0]
  BY <1>1
<1>5. ASSUME NEW g \in Registries PROVE snapshot[g].tools \in {{}, tools}
  BY <1>1, <1>5 DEF NoSnapshot
<1>6. Typed
  <2>1. snapshot \in [Registries -> [tools : SUBSET Tools, at : 0..now]]
    BY <1>1, <1>2 DEF Init, NoSnapshot
  <2> QED
    BY <2>1 DEF Init, Typed
<1>7. Locked /\ Within
  BY RegistryOfCaller, RoundsBound DEF Init, Locked, Within
<1>8. Contents
  BY <1>2, <1>3, <1>5 DEF Init, Contents, Sound
<1>9. Lifetimes
  BY <1>2, <1>4 DEF Init, Lifetimes, Apart, Callers
<1> QED
  BY <1>6, <1>7, <1>8, <1>9 DEF Inv

-----------------------------------------------------------------------------
(* A caller is served.                                                     *)

LEMMA ServeTyped ==
  ASSUME Typed, Within, NEW c \in Callers, pc[c] \in {"wait", "load"},
         NEW tools \in SUBSET Tools, NEW at \in 0..now, Serve(c, tools, at), now' = now
  PROVE  /\ pc' \in [Callers -> {"idle", "wait", "load", "done", "raised"}]
         /\ round' \in [Callers -> 0..2 + ToolCalls]
         /\ known' \in [Callers -> SUBSET Tools]
         /\ refused' \in [Callers -> SUBSET Tools]
         /\ taken' \in [Callers -> (0..now) \X (0..now)]
         /\ Within'
<1> USE CatalogAssumption DEF Typed, Serve, Goto
<1>1. round[c] \in 0..2 + ToolCalls /\ round[c] < Rounds(c) /\ Rounds(c) \in 1..2 + ToolCalls
  BY RoundsBound DEF Within
<1>2. pc' \in [Callers -> {"idle", "wait", "load", "done", "raised"}]
  OBVIOUS
<1>3. round' \in [Callers -> 0..2 + ToolCalls]
  BY <1>1
<1>4. known' \in [Callers -> SUBSET Tools]
  OBVIOUS
<1>5. refused' \in [Callers -> SUBSET Tools]
  OBVIOUS
<1>6. taken' \in [Callers -> (0..now) \X (0..now)]
  OBVIOUS
<1>7. Within'
  <2> SUFFICES ASSUME NEW d \in Callers, pc'[d] \in {"idle", "wait", "load"}
               PROVE  round'[d] < Rounds(d)
    BY DEF Within
  <2>1. CASE d = c
    <3>1. round'[c] = round[c] + 1 /\ round[c] + 1 # Rounds(c)
      BY <2>1
    <3> QED
      BY <1>1, <2>1, <3>1
  <2>2. CASE d # c
    BY <2>2 DEF Within
  <2> QED
    BY <2>1, <2>2
<1> QED
  BY <1>2, <1>3, <1>4, <1>5, <1>6, <1>7

LEMMA ServeContents ==
  ASSUME Typed, Contents, NEW c \in Callers, NEW tools \in SUBSET Tools, NEW at,
         Serve(c, tools, at), Sound(tools)', tools # {},
         UNCHANGED <<source, offers>>, upset => upset', upset' \in BOOLEAN
  PROVE  \A d \in Callers :
           /\ Sound(known[d])'
           /\ refused'[d] # {} => upset' /\ refused'[d] \cap StaticTools = {}
<1>0. Expected' = Expected
  BY DEF Expected, CliCatalog, CliOnly
<1>1. ASSUME NEW d \in Callers PROVE Sound(known[d])'
  BY <1>0 DEF Serve, Typed, Contents, Sound
<1>2. ASSUME NEW d \in Callers, refused'[d] # {}
      PROVE  upset' /\ refused'[d] \cap StaticTools = {}
  <2>1. CASE refused'[d] = refused[d]
    BY <1>2, <2>1 DEF Contents
  <2>2. CASE d = c /\ refused'[d] # refused[d]
    <3>1. PICK chosen \in known[c] : refused'[c] = refused[c] \cup ({chosen} \ tools)
      BY <2>2 DEF Serve, Typed
    <3>2. chosen \notin tools
      BY <2>2, <3>1
    <3>3. Sound(known[c]) /\ known[c] # {}
      BY <3>1 DEF Contents
    <3>4. upset' /\ chosen \notin StaticTools
      BY <1>0, <3>1, <3>2, <3>3 DEF Sound
    <3> QED
      BY <2>2, <3>1, <3>4 DEF Contents
  <2> QED
    BY <2>1, <2>2 DEF Serve, Typed
<1> QED
  BY <1>1, <1>2

LEMMA ServeLifetimes ==
  ASSUME Typed, Lifetimes, NEW c \in Callers, NEW tools, NEW at \in 0..now,
         Serve(c, tools, at), NEW s \in 0..now,
         \A d \in Listings : round[d] > 0 => Apart(taken[d][1], s),
         c \in Listings => at = s
  PROVE  \A d \in Listings :
           /\ Apart(taken[d][1], taken[d][2])'
           /\ round'[d] > 0 => Apart(taken'[d][1], s)
<1> SUFFICES ASSUME NEW d \in Listings
             PROVE  /\ Apart(taken'[d][1], taken'[d][2])
                    /\ round'[d] > 0 => Apart(taken'[d][1], s)
  BY DEF Apart
<1>0. d \in Callers /\ round[d] \in Nat /\ taken[d] \in (0..now) \X (0..now)
  BY CatalogAssumption DEF Typed, Callers
<1>1. CASE d # c
  BY <1>0, <1>1 DEF Serve, Typed, Lifetimes
<1>2. CASE d = c /\ round[c] = 0
  BY <1>0, <1>2 DEF Serve, Typed, Apart
<1>3. CASE d = c /\ round[c] # 0
  <2>1. taken'[d] = <<taken[d][1], at>> /\ at = s /\ round[d] > 0
    BY <1>0, <1>3 DEF Serve, Typed
  <2> QED
    BY <2>1
<1> QED
  BY <1>1, <1>2, <1>3

LEMMA UseCachedInv ==
  ASSUME Inv, NEW c \in Callers, UseCached(c)
  PROVE  Inv'
<1> DEFINE g == RegistryOf(c)
<1>0. /\ pc[c] = "wait" /\ holder[g] = None /\ Fresh(g)
      /\ Serve(c, snapshot[g].tools, snapshot[g].at)
      /\ UNCHANGED <<environment, registries>>
  BY DEF UseCached, LockFree
<1>1. g \in Registries /\ snapshot[g].tools \in SUBSET Tools /\ snapshot[g].at \in 0..now
  BY RegistryOfCaller DEF Inv, Typed
<1>2. Typed' /\ Within'
  BY <1>0, <1>1, ServeTyped DEF Inv, Typed, environment, registries
<1>3. Locked'
  <2>1. \A h \in Registries : holder[h] # c
    BY <1>0, RegistryOfCaller DEF Inv, Locked
  <2>2. pc'[c] # "load" /\ \A d \in Callers \ {c} : pc'[d] = pc[d] /\ round'[d] = round[d]
    BY <1>0 DEF Serve, Goto, Inv, Typed
  <2>3. \A d \in Callers \ {c} : RegistryOf(d)' = RegistryOf(d)
    BY <2>2 DEF RegistryOf
  <2>4. RegistryOf(c)' \in Registries
    BY DEF RegistryOf, Registries, Callers
  <2> QED
    BY <1>0, <2>1, <2>2, <2>3, <2>4 DEF Inv, Locked, registries
<1>4. Contents'
  <2>0. Expected' = Expected /\ UNCHANGED <<snapshot, upset, source, offers>>
    BY <1>0 DEF Expected, CliCatalog, CliOnly, environment, registries
  <2>1. PICK tools \in SUBSET Tools, at \in 0..now :
          tools = snapshot[g].tools /\ at = snapshot[g].at
    BY <1>1
  <2>2. Sound(tools)' /\ tools # {}
    BY <1>0, <1>1, <2>0, <2>1 DEF Inv, Contents, Fresh, Sound
  <2>3. \A h \in Registries : Sound(snapshot[h].tools)'
    BY <2>0 DEF Inv, Contents, Sound
  <2>4. Serve(c, tools, at)
    BY <1>0, <2>1
  <2> QED
    BY <2>0, <2>2, <2>3, <2>4, ServeContents DEF Inv, Contents, Typed
<1>5. Lifetimes'
  <2>1. snapshot[App].at \in 0..now
    BY AppIsRegistry DEF Inv, Typed
  <2>2. c \in Listings => snapshot[g].at = snapshot[App].at
    BY RegistryOfCaller
  <2> QED
    BY <1>0, <1>1, <2>1, <2>2, ServeLifetimes DEF Inv, Lifetimes, environment, registries
<1> QED
  BY <1>2, <1>3, <1>4, <1>5 DEF Inv

LEMMA StoreInv ==
  ASSUME Inv, NEW c \in Callers, pc[c] = "load", NEW tools \in SUBSET Tools, Store(c, tools),
         Sound(tools)', tools # {}, upset => upset', upset' \in BOOLEAN
  PROVE  Inv'
<1> DEFINE g == RegistryOf(c)
<1>0. /\ snapshot' = [snapshot EXCEPT ![g] = [tools |-> tools, at |-> now]]
      /\ holder' = [holder EXCEPT ![g] = None]
      /\ Serve(c, tools, now) /\ UNCHANGED <<source, now, offers, loads>>
  BY DEF Store
<1>1. g \in Registries /\ holder[g] = c /\ c # None /\ now \in 0..now /\ now \in Nat
  BY RegistryOfCaller DEF Inv, Locked, Typed
<1>2. Typed' /\ Within'
  <2>1. snapshot' \in [Registries -> [tools : SUBSET Tools, at : 0..now]]
    BY <1>0, <1>1 DEF Inv, Typed
  <2>2. holder' \in [Registries -> Callers \cup {None}]
    BY <1>0 DEF Inv, Typed
  <2> QED
    BY <1>0, <1>1, <2>1, <2>2, ServeTyped DEF Inv, Typed
<1>3. Locked'
  <2>1. \A h \in Registries : holder'[h] # c
    BY <1>0, <1>1 DEF Inv, Locked, Typed
  <2>2. pc'[c] # "load" /\ \A d \in Callers \ {c} : pc'[d] = pc[d] /\ round'[d] = round[d]
    BY <1>0 DEF Serve, Goto, Inv, Typed
  <2>3. \A d \in Callers \ {c} : RegistryOf(d)' = RegistryOf(d) /\ RegistryOf(d) \in Registries /\ d # None
    BY <2>2, RegistryOfCaller DEF RegistryOf
  <2>4. RegistryOf(c)' \in Registries
    BY DEF RegistryOf, Registries, Callers
  <2>5. \A d \in Callers \ {c}, h \in Registries : holder'[h] = d <=> holder[h] = d
    BY <1>0, <1>1, <2>3 DEF Inv, Typed
  <2> QED
    BY <2>1, <2>2, <2>3, <2>4, <2>5 DEF Inv, Locked
<1>4. Contents'
  <2>0. Expected' = Expected
    BY <1>0 DEF Expected, CliCatalog, CliOnly
  <2>1. \A h \in Registries : Sound(snapshot[h].tools)'
    BY <1>0, <2>0 DEF Inv, Contents, Sound, Typed
  <2> QED
    BY <1>0, <2>1, ServeContents DEF Inv, Contents
<1>5. Lifetimes'
  <2>1. ASSUME c \in Listings
        PROVE  g = App /\ now - snapshot[App].at >= TTL
    BY <1>1, <2>1, RegistryOfCaller DEF Inv, Lifetimes
  <2>2. ASSUME c \notin Listings
        PROVE  snapshot'[App] = snapshot[App] /\ holder'[App] = holder[App]
    BY <1>0, <2>2, RegistryOfCaller, AppIsRegistry DEF Inv, Typed
  <2>3. snapshot[App].at \in 0..now /\ TTL \in Nat
    BY AppIsRegistry, CatalogAssumption DEF Inv, Typed
  <2>4. CASE c \in Listings
    <3>1. snapshot'[App] = [tools |-> tools, at |-> now] /\ holder'[App] = None
      BY <1>0, <2>1, <2>4, AppIsRegistry DEF Inv, Typed
    <3>2. \A d \in Listings : round[d] > 0 => Apart(taken[d][1], now)
      <4> SUFFICES ASSUME NEW d \in Listings, round[d] > 0 PROVE Apart(taken[d][1], now)
        OBVIOUS
      <4>1. taken[d][1] \in 0..now
        BY DEF Inv, Typed, Callers
      <4>2. Apart(taken[d][1], snapshot[App].at)
        BY DEF Inv, Lifetimes
      <4> QED
        BY <1>1, <2>1, <2>3, <2>4, <4>1, <4>2 DEF Apart
    <3> QED
      BY <1>0, <1>1, <3>1, <3>2, ServeLifetimes DEF Inv, Lifetimes
  <2>5. CASE c \notin Listings
    BY <1>0, <1>1, <2>2, <2>3, <2>5, ServeLifetimes DEF Inv, Lifetimes
  <2> QED
    BY <2>4, <2>5
<1> QED
  BY <1>2, <1>3, <1>4, <1>5 DEF Inv

\* The steps of a caller that neither end nor serve it.
LEMMA WaitInv ==
  ASSUME Inv, NEW c \in Callers, Refresh(c) \/ StartLoad(c) \/ LoadRaises(c)
  PROVE  Inv'
<1> USE RegistryOfCaller DEF Inv, Goto, environment, registries
<1>0. \A d \in Callers : RegistryOf(d)' = RegistryOf(d)
  BY DEF Refresh, StartLoad, LoadRaises, RegistryOf
<1>1. Contents'
  BY DEF Refresh, StartLoad, LoadRaises, Contents, Sound, Expected, CliCatalog, CliOnly
<1>2. CASE Refresh(c)
  <2>1. Typed' /\ Within'
    BY <1>2 DEF Refresh, Typed, Within
  <2>2. Locked'
    BY <1>0, <1>2 DEF Refresh, Typed, Locked
  <2>3. Lifetimes'
    BY <1>2 DEF Refresh, Lifetimes, Apart
  <2> QED
    BY <1>1, <2>1, <2>2, <2>3
<1>3. CASE StartLoad(c)
  <2> DEFINE g == RegistryOf(c)
  <2>0. /\ pc[c] = "wait" /\ g \in Registries /\ holder[g] = None /\ ~Fresh(g)
        /\ holder' = [holder EXCEPT ![g] = c] /\ pc' = [pc EXCEPT ![c] = "load"]
        /\ UNCHANGED <<environment, snapshot, round, known, refused, taken>>
    BY <1>3 DEF StartLoad, MustLoad, LockFree
  <2>1. Typed' /\ Within'
    <3>1. holder' \in [Registries -> Callers \cup {None}] /\ pc' \in [Callers -> {"idle", "wait", "load", "done", "raised"}]
      BY <2>0 DEF Typed
    <3>2. loads' \subseteq Registries \X (0..now)
      BY <1>3, <2>0 DEF StartLoad, Typed
    <3> QED
      BY <2>0, <3>1, <3>2 DEF Typed, Within
  <2>2. Locked'
    BY <1>0, <2>0 DEF Typed, Locked
  <2>3. Lifetimes'
    <3>1. g = App => now - snapshot[App].at >= TTL
      <4>1. snapshot[App].at \in 0..now /\ now \in Nat
        BY AppIsRegistry DEF Typed
      <4> QED
        BY <2>0, <4>1, CatalogAssumption DEF Fresh, Lifetimes
    <3> QED
      BY <2>0, <3>1, AppIsRegistry DEF Typed, Lifetimes, Apart
  <2> QED
    BY <1>1, <2>1, <2>2, <2>3
<1>4. CASE LoadRaises(c)
  <2> DEFINE g == RegistryOf(c)
  <2>0. /\ pc[c] = "load" /\ g \in Registries
        /\ holder' = [holder EXCEPT ![g] = None] /\ pc' = [pc EXCEPT ![c] = "raised"]
        /\ UNCHANGED <<environment, snapshot, loads, round, known, refused, taken>>
    BY <1>4 DEF LoadRaises
  <2>1. Typed' /\ Within'
    BY <2>0 DEF Typed, Within
  <2>2. Locked'
    BY <1>0, <2>0 DEF Typed, Locked
  <2>3. Lifetimes'
    BY <2>0, AppIsRegistry DEF Typed, Lifetimes, Apart
  <2> QED
    BY <1>1, <2>1, <2>2, <2>3
<1> QED
  BY <1>2, <1>3, <1>4

\* Time passes, and the CLI changes.
LEMMA WorldInv ==
  ASSUME Inv, Tick \/ CliChanges
  PROVE  Inv'
<1> USE DEF Inv, registries, callers
<1>0. \A d \in Callers : RegistryOf(d)' = RegistryOf(d)
  BY DEF Tick, CliChanges, RegistryOf
<1>1. Locked' /\ Within'
  BY <1>0 DEF Tick, CliChanges, Locked, Within
<1>2. Typed'
  <2>1. now' \in Nat /\ now' <= Horizon /\ 0..now \subseteq 0..now'
    BY CatalogAssumption DEF Typed, Tick, CliChanges
  <2>2. UNCHANGED <<source, snapshot, holder, pc, round, known, refused, taken, loads>> /\ offers' \in BOOLEAN /\ upset' \in BOOLEAN
    BY DEF Typed, Tick, CliChanges
  <2>3. /\ snapshot \in [Registries -> [tools : SUBSET Tools, at : 0..now']]
        /\ taken \in [Callers -> (0..now') \X (0..now')]
        /\ loads \subseteq Registries \X (0..now')
    BY <2>1 DEF Typed
  <2> QED
    BY <2>1, <2>2, <2>3 DEF Typed
<1>3. Contents'
  <2>1. CASE Tick
    BY <2>1 DEF Tick, Contents, Sound, Expected, CliCatalog, CliOnly
  <2>2. CASE CliChanges
    BY <2>2, Zenon DEF CliChanges, Contents, Sound
  <2> QED
    BY <2>1, <2>2
<1>4. Lifetimes'
  <2>1. snapshot[App].at \in 0..now /\ now \in Nat /\ TTL \in Nat
    BY AppIsRegistry, CatalogAssumption DEF Typed
  <2> QED
    BY <2>1 DEF Tick, CliChanges, Lifetimes, Apart
<1> QED
  BY <1>1, <1>2, <1>3, <1>4

LEMMA NextInv == Inv /\ [Next]_vars => Inv'
<1> SUFFICES ASSUME Inv, [Next]_vars PROVE Inv'
  OBVIOUS
<1>1. ASSUME NEW c \in Callers, LoadCli(c) PROVE Inv'
  <2>1. /\ pc[c] = "load" /\ Store(c, CliCatalog) /\ UNCHANGED <<upset, source, offers>>
        /\ source = "cli"
    BY <1>1 DEF LoadCli, Store
  <2>2. CliCatalog \in SUBSET Tools /\ CliCatalog # {} /\ StaticTools \subseteq CliCatalog
    BY DEF CliCatalog, CliOnly, Tools, StaticTools
  <2>3. PICK tools \in SUBSET Tools : tools = CliCatalog
    BY <2>2
  <2>4. Expected' = tools
    BY <2>1, <2>3 DEF Expected, CliCatalog, CliOnly
  <2>5. Sound(tools)'
    BY <2>2, <2>3, <2>4 DEF Sound
  <2>6. Store(c, tools) /\ upset' = upset /\ upset \in BOOLEAN
    BY <2>1, <2>3 DEF Inv, Typed
  <2> QED
    BY <2>1, <2>2, <2>3, <2>5, <2>6, StoreInv
<1>2. ASSUME NEW c \in Callers, LoadStatic(c) PROVE Inv'
  <2>1. /\ pc[c] = "load" /\ Store(c, StaticTools) /\ upset' = (upset \/ source = "cli")
        /\ UNCHANGED <<source, offers>>
    BY <1>2 DEF LoadStatic, Store
  <2>2. StaticTools \in SUBSET Tools /\ StaticTools # {}
    BY DEF Tools, StaticTools
  <2>3. Sound(StaticTools)'
    BY <2>1 DEF Sound, Expected
  <2> QED
    BY <2>1, <2>2, <2>3, StoreInv DEF Inv, Typed
<1>3. CASE UNCHANGED vars
  BY <1>3 DEF vars, environment, registries, callers, Inv, Typed, Locked, Within, Contents, Lifetimes,
     Apart, Sound, Expected, CliCatalog, CliOnly, RegistryOf
<1> QED
  BY <1>1, <1>2, <1>3, UseCachedInv, WaitInv, WorldInv DEF Next, CallerStep

LEMMA Invariance == Spec => []Inv
  BY InitInv, NextInv, PTL DEF Spec

-----------------------------------------------------------------------------
(* The theorems.                                                           *)

\* Each variable keeps to its set of values, and the lock of a registry is held by the
\* caller that loads it and by nobody else (async with self._lock).
THEOREM TypeCorrect == Spec => []TypeOK
<1>1. Inv => TypeOK
  <2> SUFFICES ASSUME Inv PROVE TypeOK
    OBVIOUS
  <2>1. now \in 0..Horizon
    BY CatalogAssumption DEF Inv, Typed
  <2> QED
    BY <2>1 DEF Inv, Typed, Locked, TypeOK
<1> QED
  BY <1>1, Invariance, PTL

\* The gateway refuses a tool the planner was offered only when the CLI changed or
\* failed, and never a tool of TOOL_SPECS, however the two registries are reloaded.
THEOREM OffersResolve == Spec => []OfferedToolsResolve
<1>1. Inv => OfferedToolsResolve
  BY DEF Inv, Contents, OfferedToolsResolve, Callers
<1> QED
  BY <1>1, Invariance, PTL

\* The tools of a listing and the version it reports are of one snapshot, or of two a
\* whole TTL apart (main.py:108).
THEOREM ListingsAreConsistent == Spec => []ListingOfOneLifetime
<1>1. Inv => ListingOfOneLifetime
  BY DEF Inv, Lifetimes, Apart, ListingOfOneLifetime
<1> QED
  BY <1>1, Invariance, PTL

\* A load that is under way replaces what has expired: the snapshot was too old when the
\* lock was taken, and is the same one still.
LoadsAreDue ==
  \A g \in Registries : holder[g] # None => snapshot[g].tools = {} \/ now >= snapshot[g].at + TTL

LEMMA LoadsStayDue == Inv /\ LoadsAreDue /\ [Next]_vars => LoadsAreDue'
<1> SUFFICES ASSUME Inv, LoadsAreDue, [Next]_vars, NEW g \in Registries, holder'[g] # None
             PROVE  snapshot'[g].tools = {} \/ now' >= snapshot'[g].at + TTL
  BY DEF LoadsAreDue
<1>1. holder \in [Registries -> Callers \cup {None}] /\ now \in Nat /\ snapshot[g].at \in Nat /\ TTL \in Nat
  BY CatalogAssumption DEF Inv, Typed
<1>2. ASSUME NEW c \in Callers, StartLoad(c)
      PROVE  snapshot'[g].tools = {} \/ now' >= snapshot'[g].at + TTL
  <2>1. CASE g = RegistryOf(c)
    <3>1. ~ Fresh(g) /\ snapshot'[g] = snapshot[g] /\ now' = now
      BY <1>2, <2>1 DEF StartLoad, MustLoad, environment
    <3> QED
      BY <1>1, <3>1 DEF Fresh
  <2>2. CASE g # RegistryOf(c)
    BY <1>1, <1>2, <2>2 DEF StartLoad, LoadsAreDue, environment
  <2> QED
    BY <2>1, <2>2
<1>3. ASSUME NEW c \in Callers, LoadCli(c) \/ LoadStatic(c) \/ LoadRaises(c)
      PROVE  snapshot'[g].tools = {} \/ now' >= snapshot'[g].at + TTL
  <2>1. g # RegistryOf(c)
    BY <1>1, <1>3 DEF LoadCli, LoadStatic, LoadRaises, Store
  <2>2. holder'[g] = holder[g] /\ snapshot'[g] = snapshot[g] /\ now' = now
    BY <1>1, <1>3, <2>1 DEF LoadCli, LoadStatic, LoadRaises, Store, environment, Inv, Typed
  <2> QED
    BY <2>2 DEF LoadsAreDue
<1>4. ASSUME NEW c \in Callers, Refresh(c) \/ UseCached(c)
      PROVE  snapshot'[g].tools = {} \/ now' >= snapshot'[g].at + TTL
  BY <1>4 DEF Refresh, UseCached, LoadsAreDue, registries, environment
<1>5. CASE Tick \/ CliChanges
  <2>1. UNCHANGED <<snapshot, holder>> /\ now' \in Nat /\ now' >= now
    BY <1>1, <1>5 DEF Tick, CliChanges, registries
  <2> QED
    BY <1>1, <2>1 DEF LoadsAreDue
<1>6. CASE UNCHANGED vars
  BY <1>6 DEF LoadsAreDue, vars, registries, environment
<1> QED
  BY <1>2, <1>3, <1>4, <1>5, <1>6 DEF Next, CallerStep

\* A snapshot is replaced only a whole TTL after it was loaded: whoever loads has the lock
\* from the moment it found the snapshot expired until it stores the next (refresh).
THEOREM SnapshotsKeep == Spec => SnapshotsLast
<1> DEFINE Step ==
      \A g \in Registries :
        snapshot[g].tools # {} /\ snapshot'[g] # snapshot[g] => snapshot'[g].at >= snapshot[g].at + TTL
<1>1. Inv /\ LoadsAreDue /\ [Next]_vars => [Step]_vars
  <2> SUFFICES ASSUME Inv, LoadsAreDue, Next, NEW g \in Registries,
                      snapshot[g].tools # {}, snapshot'[g] # snapshot[g]
               PROVE  snapshot'[g].at >= snapshot[g].at + TTL
    OBVIOUS
  <2>1. PICK c \in Callers : LoadCli(c) \/ LoadStatic(c)
    BY DEF Next, CallerStep, Refresh, UseCached, StartLoad, LoadRaises, Tick, CliChanges, registries
  <2>2. pc[c] = "load" /\ \E tools : Store(c, tools)
    BY <2>1 DEF LoadCli, LoadStatic
  <2>3. g = RegistryOf(c) /\ snapshot'[g].at = now
    BY <2>2 DEF Store, Inv, Typed
  <2>4. holder[g] = c /\ c # None
    BY <2>2, <2>3, RegistryOfCaller DEF Inv, Locked
  <2> QED
    BY <2>3, <2>4 DEF LoadsAreDue
<1> HIDE DEF Step
<1>2. Init => LoadsAreDue
  BY DEF Init, LoadsAreDue
<1>3. Spec => [][Step]_vars
  BY <1>1, <1>2, LoadsStayDue, Invariance, PTL DEF Spec
<1> QED
  BY <1>3 DEF SnapshotsLast, Step
=============================================================================
