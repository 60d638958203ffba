---------------------------- MODULE FeatureGate ----------------------------
(***************************************************************************)
(* One module (feature) of one company, as the Owner switches it on and off *)
(* (companyFeatureService.js, updateCompanyFeatures), the gate in front of   *)
(* every request and socket event (featureGate.js, socketFeatureGate.js),    *)
(* and the live rooms of the module (featureRealtimeService.js).            *)
(*                                                                         *)
(* The server is one process with one cache entry for the company.  Two     *)
(* things happen at different times in a query: the database takes its      *)
(* snapshot, or commits, and the process hears of it.  Times are ages, which   *)
(* stop growing where nothing tells them apart any more.                     *)
(***************************************************************************)
EXTENDS Naturals

CONSTANTS
  Callers,   \* connected sockets of the company; a request is a socket that never joins
  Owners,    \* changes of the company's features under way at once
  Nothing,   \* no cache entry, nothing under way
  Ttl,       \* CACHE_TTL_MS
  MaxQuery   \* assumption: the longest time from a snapshot to its answer

ASSUME TtlType == Ttl \in Nat
ASSUME MaxQueryType == MaxQuery \in Nat

VARIABLES
  enabled,   \* company_features: the module is on
  cache,     \* cache.get(companyId)
  call,      \* what each socket's event is waiting for (checkChain: one at a time)
  change,    \* what each setCompanyFeatures has done
  liveRoom,      \* sockets in a live room of the module
  offFor,    \* history: for how long the module has been off
  late,      \* history: sockets that came into the room with the module off
  unemptied  \* history: a switch-off after which nobody empties the rooms

gateVars == <<enabled, cache, call, change, liveRoom, offFor, late, unemptied>>

AtRest == [at |-> "idle"]

GateInit ==
  /\ enabled \in BOOLEAN
  /\ cache = Nothing
  /\ call = [s \in Callers |-> AtRest]
  /\ change = [o \in Owners |-> AtRest]
  /\ liveRoom = {}
  /\ offFor = 0 /\ late = {} /\ unemptied = FALSE

\* getFeatureStates: the entry counts while it is younger than the TTL.
Fresh == cache # Nothing /\ cache.age < Ttl

\* How long a switched-off module may still be served: a load that crosses the change puts
\* what it read before into the cache, after the change has dropped the entry.
Staleness == MaxQuery + Ttl

-----------------------------------------------------------------------------
(* The clock.                                                              *)

TimePasses ==
  /\ \A s \in Callers : call[s].at = "loading" => call[s].age < MaxQuery
  /\ call' = [s \in Callers |->
       IF call[s].at = "loading" THEN [call[s] EXCEPT !.age = @ + 1] ELSE call[s]]
  /\ cache' = IF Fresh THEN [cache EXCEPT !.age = @ + 1] ELSE cache
  /\ offFor' = IF enabled \/ offFor = Staleness + 1 THEN offFor ELSE offFor + 1
  /\ UNCHANGED <<enabled, change, liveRoom, late, unemptied>>

-----------------------------------------------------------------------------
(* The gate.                                                               *)

\* A bug: an entry that is used is kept for another TTL.
AsksGateAndRenews(s) ==
  /\ call[s].at = "idle"
  /\ call' = [call EXCEPT ![s] =
       IF Fresh THEN [at |-> "answered", on |-> cache.on]
       ELSE [at |-> "loading", on |-> enabled, age |-> 0]]
  /\ cache' = IF Fresh THEN [cache EXCEPT !.age = 0] ELSE cache
  /\ UNCHANGED <<enabled, change, liveRoom, offFor, late, unemptied>>

\* Either the cache answers at once or the rows are read.
AsksGate(s) ==
  /\ call[s].at = "idle"
  /\ call' = [call EXCEPT ![s] =
       IF Fresh THEN [at |-> "answered", on |-> cache.on]
       ELSE [at |-> "loading", on |-> enabled, age |-> 0]]
  /\ UNCHANGED <<enabled, cache, change, liveRoom, offFor, late, unemptied>>

\* The rows arrive and are kept, as of now.
Loaded(s) ==
  /\ call[s].at = "loading"
  /\ cache' = [age |-> 0, on |-> call[s].on]
  /\ call' = [call EXCEPT ![s] = [at |-> "answered", on |-> call[s].on]]
  /\ UNCHANGED <<enabled, change, liveRoom, offFor, late, unemptied>>

\* The query fails, or the answer is no: the event is refused (fail closed).
Refused(s) ==
  /\ \/ call[s].at = "loading"
     \/ call[s].at = "answered" /\ ~call[s].on
  /\ call' = [call EXCEPT ![s] = AtRest]
  /\ UNCHANGED <<enabled, cache, change, liveRoom, offFor, late, unemptied>>

\* The handler runs, as long as it likes, and a join handler joins its room.
HandlerEnds(s, joins) ==
  /\ call[s].at = "answered" /\ call[s].on
  /\ call' = [call EXCEPT ![s] = AtRest]
  /\ liveRoom' = IF joins THEN liveRoom \cup {s} ELSE liveRoom
  /\ late' = IF joins /\ ~enabled /\ s \notin liveRoom THEN late \cup {s} ELSE late
  /\ UNCHANGED <<enabled, cache, change, offFor, unemptied>>

LeavesRoom(s) ==
  /\ s \in liveRoom
  /\ liveRoom' = liveRoom \ {s} /\ late' = late \ {s}
  /\ UNCHANGED <<enabled, cache, call, change, offFor, unemptied>>

-----------------------------------------------------------------------------
(* The Owner's changes.                                                    *)

\* The transaction reads what was on before.
SetReads(o, want) ==
  /\ change[o].at = "idle"
  /\ change' = [change EXCEPT ![o] = [at |-> "read", before |-> enabled, want |-> want]]
  /\ UNCHANGED <<enabled, cache, call, liveRoom, offFor, late, unemptied>>

\* The transaction is rolled back.
SetFails(o) ==
  /\ change[o].at = "read"
  /\ change' = [change EXCEPT ![o] = AtRest]
  /\ UNCHANGED <<enabled, cache, call, liveRoom, offFor, late, unemptied>>

\* COMMIT in the database; the rows' locks keep two changes apart.
SetCommits(o) ==
  /\ change[o].at = "read"
  /\ enabled' = change[o].want
  /\ change' = [change EXCEPT ![o].at = "committed"]
  /\ offFor' = IF enabled \/ enabled' THEN 0 ELSE offFor
  /\ unemptied' = (unemptied \/ (enabled /\ ~enabled' /\ ~change[o].before))
  /\ UNCHANGED <<cache, call, liveRoom, late>>

\* COMMIT in the database, and its answer is lost: the service throws before it drops the
\* cache entry, and the rooms are not emptied.
SetCommitLost(o) ==
  /\ change[o].at = "read"
  /\ enabled' = change[o].want
  /\ change' = [change EXCEPT ![o] = AtRest]
  /\ offFor' = IF enabled \/ enabled' THEN 0 ELSE offFor
  /\ unemptied' = (unemptied \/ (enabled /\ ~enabled'))
  /\ UNCHANGED <<cache, call, liveRoom, late>>

\* A bug: the sockets are told but not taken out of the rooms.
SetAppliedTellsOnly(o) ==
  /\ change[o].at = "committed"
  /\ cache' = Nothing
  /\ change' = [change EXCEPT ![o] = AtRest]
  /\ UNCHANGED <<enabled, call, liveRoom, offFor, late, unemptied>>

\* invalidate, and applyFeatureChange: the rooms of what was on before and is not
\* on now are emptied.
SetApplied(o) ==
  /\ change[o].at = "committed"
  /\ cache' = Nothing
  /\ change' = [change EXCEPT ![o] = AtRest]
  /\ IF change[o].before /\ ~change[o].want
     THEN liveRoom' = {} /\ late' = {} /\ unemptied' = FALSE
     ELSE UNCHANGED <<liveRoom, late, unemptied>>
  /\ UNCHANGED <<enabled, call, offFor>>

GateNext ==
  \/ TimePasses
  \/ \E s \in Callers :
       \/ AsksGate(s) \/ Loaded(s) \/ Refused(s) \/ LeavesRoom(s)
       \/ \E joins \in BOOLEAN : HandlerEnds(s, joins)
  \/ \E o \in Owners :
       \/ SetFails(o) \/ SetCommits(o) \/ SetCommitLost(o) \/ SetApplied(o)
       \/ \E want \in BOOLEAN : SetReads(o, want)

GateSpec == GateInit /\ [][GateNext]_gateVars

-----------------------------------------------------------------------------
GateTypeOK ==
  /\ enabled \in BOOLEAN
  /\ cache = Nothing \/ cache \in [age : 0..Ttl, on : BOOLEAN]
  /\ call \in [Callers -> {AtRest} \cup [at : {"loading"}, on : BOOLEAN, age : 0..MaxQuery]
                            \cup [at : {"answered"}, on : BOOLEAN]]
  /\ change \in [Owners -> {AtRest} \cup [at : {"read", "committed"}, before : BOOLEAN,
                                        want : BOOLEAN]]
  /\ liveRoom \subseteq Callers /\ late \subseteq liveRoom
  /\ offFor \in 0..Staleness + 1 /\ unemptied \in BOOLEAN

\* Once a module is off, the gate lets nothing in for longer than one query and one
\* lifetime of the cache, whatever loads cross the change and its invalidation.  The
\* comments promise more, the very next request (companyFeatureService.js:13-15); what
\* the code gives is this bound.
OffTakesEffect ==
  [][\A s \in Callers :
       call'[s].at = "answered" /\ call'[s] # call[s] /\ call'[s].on /\ ~enabled
         => offFor <= Staleness]_gateVars

\* When no change is between its commit and its end, whoever is in a room of a module that
\* is off joined after it was switched off, let in by an answer from before, unless
\* nobody empties the rooms: the change had read its `before` while the module was
\* off, or its COMMIT was never answered.  "Every socket is removed"
\* (featureRealtimeService.js, 2) holds no further than that.
RoomsAreEmptied ==
  ~enabled /\ ~unemptied /\ (\A o \in Owners : change[o].at # "committed") => liveRoom \subseteq late
=============================================================================
