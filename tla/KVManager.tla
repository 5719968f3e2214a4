------------------------------- MODULE KVManager -------------------------------
(***************************************************************************)
(* The connection to the leader: class KVManager (kv/KVManager.ts) with    *)
(* LeaderClient.ts, the clients of RedisClient.ts and the service's file   *)
(* (ServiceRegistration), as index.ts starts and stops them.               *)
(*                                                                         *)
(* meta-core (external) writes the leader's address into a file.  A look   *)
(* at the leader (getLeaderInfo) reads the file and asks that address for  *)
(* its URLs, unless it has an answer of the last five seconds.  Every      *)
(* change the watcher reports runs such a look and then a reconnect, and   *)
(* nothing keeps two of them apart; GET /api/services looks too.           *)
(*                                                                         *)
(* A leader in legacy publishes a Redis URL (and the environment allows    *)
(* it): its client has a connection.  The client of any other leader is    *)
(* "HTTP-only": there is nothing to connect, and close() rejects, since    *)
(* quit() on the stub connection does.  A leader may publish a WebDAV URL  *)
(* or none, but always the same.                                           *)
(*                                                                         *)
(* Not modelled: the data the clients carry; a direct redisUrl, which      *)
(* index.ts never gives; several reports of one change of the file.        *)
(***************************************************************************)
EXTENDS ServiceRegistration, Naturals

CONSTANTS
    Leaders,
    NoLeader,       \* no file, or an empty one
    Published,      \* leaders that publish a WebDAV URL
    Lookers,        \* bound: looks at once, besides start()'s
    MaxChanges,     \* bound: changes of the leader
    MaxRequests,    \* bound: GET /api/services
    MaxFaults,      \* bound: calls that fail
    MaxRemovals,    \* bound: removals of the service's file by meta-core
    MaxExits,       \* bound: signals and crashes
    MaxEvents       \* bound: all of these together

ASSUME KVAssumption ==
    /\ NoLeader \notin Leaders /\ Published \subseteq Leaders /\ Lookers \subseteq Nat \ {0}
    /\ {MaxChanges, MaxRequests, MaxFaults, MaxRemovals, MaxExits, MaxEvents} \subseteq Nat

Starter == 0
Callers == Lookers \cup {Starter}
NoClient == 0
ClientIds == 1..(MaxChanges + 1)

VARIABLES
    leader,       \* whom the file names
    legacy,       \* leaders that publish a Redis URL; never changes
    unheard,      \* changes the watcher has not reported yet
    watching,     \* watcher
    cached,       \* cachedUrls, until five seconds are over
    procs,        \* what each look, reconnect or start() is at
    clients,      \* leader and state of each client made
    kvClient,
    webdav,       \* leader whose WebDAV URL is configured
    handed,       \* the client that index.ts gave to the rest of the program
    boot,         \* of the process: "down", "connecting", "registering", "ready", "broken"
    started,      \* isStarted
    stopping,     \* stop(): "no", "closing", "unlink" or "exit"; and the client it closes
    shuttingDown, \* isShuttingDown; leaderClient is null from then on
    doubt,        \* the last change may have been missed: see FollowsLeader
    tangled,      \* two reconnects, or stop() and one, overlapped
    parting,      \* how the last process ended: "none" while there is one, "clean", "other"
    counts        \* events so far

leaderVars == <<leader, legacy, unheard, watching, cached>>
clientVars == <<clients, kvClient, webdav, handed>>
lifeVars == <<boot, started, stopping, shuttingDown, parting>>
ghostVars == <<doubt, tangled>>
vars == <<registrationVars, leaderVars, procs, clientVars, lifeVars, ghostVars, counts>>

IdleProc == [kind |-> "none", at |-> "idle", waiting |-> FALSE, of |-> NoLeader,
             client |-> NoClient]
NoStop == [at |-> "no", client |-> NoClient, alone |-> FALSE]
NoClients == [c \in ClientIds |-> [of |-> NoLeader, state |-> "none"]]
Kinds == {"change", "request", "fault", "removal", "exit"}
Bound == [change |-> MaxChanges, request |-> MaxRequests, fault |-> MaxFaults,
          removal |-> MaxRemovals, exit |-> MaxExits]

Busy(p) == procs[p].at # "idle"
Reconnecting(p) == p # Starter /\ Busy(p) /\ (procs[p].waiting \/ procs[p].at = "closing")
FreeLookers == {p \in Lookers : ~Busy(p)}
FreeLooker == CHOOSE p \in FreeLookers : \A q \in FreeLookers : p <= q
Unused == {c \in ClientIds : clients[c].state = "none"}
NewClient == CHOOSE c \in Unused : \A d \in Unused : c <= d

Happened == counts["change"] + counts["request"] + counts["fault"] + counts["removal"]
                + counts["exit"]

Count(k) ==
    /\ counts[k] < Bound[k] /\ Happened < MaxEvents
    /\ counts' = [counts EXCEPT ![k] = @ + 1]

Running == boot # "down"

Init ==
    /\ RegistrationInit
    /\ leader \in Leaders \cup {NoLeader} /\ legacy \in SUBSET Leaders
    /\ unheard = 0 /\ watching = FALSE /\ cached = NoLeader
    /\ procs = [p \in Callers |-> IdleProc]
    /\ clients = NoClients /\ kvClient = NoClient /\ webdav = NoLeader /\ handed = NoClient
    /\ boot = "down" /\ started = FALSE /\ stopping = NoStop /\ shuttingDown = FALSE
    /\ parting = "other" /\ doubt = FALSE /\ tangled = FALSE
    /\ counts = [k \in Kinds |-> 0]
-----------------------------------------------------------------------------
\* A change before startWatching() is not reported, nor is any where watch() threw.
NewLeader ==
    /\ Count("change")
    /\ leader' \in (Leaders \cup {NoLeader}) \ {leader}
    /\ unheard' = unheard + (IF watching THEN 1 ELSE 0)
    /\ doubt' = (doubt \/ (Running /\ ~watching /\ procs[Starter].at \notin {"read", "pause"}))
    /\ UNCHANGED <<registrationVars, legacy, watching, cached, procs, clientVars, lifeVars,
                   tangled>>

\* BUG variant: the cached answer survives the change.
MutantCacheAfterChange == cached

\* The watcher's callback: the cached answer is dropped, ...
CacheAfterChange == NoLeader

\* ... and the leader is looked at.
Hear ==
    /\ unheard > 0 /\ FreeLookers # {}
    /\ unheard' = unheard - 1 /\ cached' = CacheAfterChange
    /\ procs' = [procs EXCEPT ![FreeLooker] =
           [IdleProc EXCEPT !.kind = "event", !.at = "read"]]
    /\ doubt' = \E p \in Callers : Busy(p)
    /\ UNCHANGED <<registrationVars, leader, legacy, watching, clientVars, lifeVars, tangled,
                   counts>>

\* GET /api/services.
Request ==
    /\ boot = "ready" /\ ~shuttingDown /\ FreeLookers # {} /\ Count("request")
    /\ procs' = [procs EXCEPT ![FreeLooker] =
           [IdleProc EXCEPT !.kind = "request", !.at = "read"]]
    /\ UNCHANGED <<registrationVars, leaderVars, clientVars, lifeVars, ghostVars>>

\* urlsCacheTTL is over.
Expire ==
    /\ cached # NoLeader /\ cached' = NoLeader
    /\ UNCHANGED <<registrationVars, leader, legacy, unheard, watching, procs, clientVars,
                   lifeVars, ghostVars, counts>>
-----------------------------------------------------------------------------
ToIdle(p) == procs' = [procs EXCEPT ![p] = IdleProc]

\* A client is there: start() goes on to watch, if it can, and to register; reconnect()
\* is over.  The WebDAV URL stays where the leader publishes none.
Obtain(p, c, u) ==
    /\ kvClient' = c /\ ToIdle(p)
    /\ webdav' = IF u \in Published THEN u ELSE webdav
    /\ IF p = Starter
       THEN watching' \in BOOLEAN /\ boot' = "registering" /\ writer' = "write"
       ELSE UNCHANGED <<watching, boot, writer>>

\* waitForLeader() has found leader u: createRedisClient().
Create(p, u) ==
    /\ Unused # {}
    /\ IF u \in legacy
       THEN /\ clients' = [clients EXCEPT ![NewClient] = [of |-> u, state |-> "connecting"]]
            /\ procs' = [procs EXCEPT ![p].at = "connecting", ![p].client = NewClient]
            /\ UNCHANGED <<kvClient, webdav, watching, boot, writer>>
       ELSE /\ clients' = [clients EXCEPT ![NewClient] = [of |-> u, state |-> "open"]]
            /\ Obtain(p, NewClient, u)
    /\ UNCHANGED tangled

\* BUG variant: the new client takes the place of one that is not closed.
MutantClosesFirst(c) == FALSE

\* reconnect() closes the client it finds.
ClosesFirst(c) == c # NoClient

\* The look of the watcher's callback is over, with an answer or without:
\* notifyChange(), and reconnect() up to its first await.
Notify(p) ==
    /\ IF shuttingDown
       THEN ToIdle(p) /\ UNCHANGED tangled
       ELSE /\ procs' = [procs EXCEPT ![p] =
                   IF ClosesFirst(kvClient)
                   THEN [@ EXCEPT !.at = "closing", !.client = kvClient]
                   ELSE [@ EXCEPT !.at = "read", !.waiting = TRUE]]
            /\ tangled' = (tangled \/ \E q \in Callers \ {p} : Reconnecting(q))
    /\ UNCHANGED <<clients, kvClient, webdav, watching, boot, writer>>

\* What getLeaderInfo() returns to its caller; NoLeader is null.
Result(p, u) ==
    \/ /\ procs[p].waiting /\ u # NoLeader
       /\ Create(p, u)
    \/ /\ procs[p].waiting /\ u = NoLeader
       /\ procs' = [procs EXCEPT ![p].at = "pause"]
       /\ UNCHANGED <<clients, kvClient, webdav, watching, boot, writer, tangled>>
    \/ /\ procs[p].kind = "event" /\ ~procs[p].waiting
       /\ Notify(p)
    \/ /\ procs[p].kind = "request"
       /\ ToIdle(p) /\ UNCHANGED <<clients, kvClient, webdav, watching, boot, writer, tangled>>

lookFrame == <<entry, timer, leader, legacy, unheard, handed, started, stopping, shuttingDown,
               parting, doubt>>

\* getLeaderInfo() and fetchUrls() up to the fetch.
Read(p) ==
    /\ procs[p].at = "read"
    /\ IF leader # NoLeader /\ cached = NoLeader
       THEN /\ procs' = [procs EXCEPT ![p].at = "ask", ![p].of = leader]
            /\ UNCHANGED <<clients, kvClient, webdav, watching, boot, writer, tangled>>
       ELSE Result(p, IF leader = NoLeader THEN NoLeader ELSE cached)
    /\ UNCHANGED <<lookFrame, cached, counts>>

Answer(p) ==
    /\ procs[p].at = "ask"
    /\ cached' = procs[p].of /\ Result(p, procs[p].of)
    /\ UNCHANGED <<lookFrame, counts>>

NoAnswer(p) ==
    /\ procs[p].at = "ask" /\ Count("fault")
    /\ Result(p, NoLeader)
    /\ UNCHANGED <<lookFrame, cached>>

\* waitForLeader() waits for half a second and looks again, ...
Poll(p) ==
    /\ procs[p].at = "pause"
    /\ procs' = [procs EXCEPT ![p].at = "read"]
    /\ UNCHANGED <<registrationVars, leaderVars, clientVars, lifeVars, ghostVars, counts>>

\* start() rejects, and index.ts goes no further; a reconnect is logged.
Failed(p) ==
    /\ ToIdle(p) /\ doubt' = TRUE
    /\ boot' = IF p = Starter THEN "broken" ELSE boot

\* ... for thirty seconds.
GiveUp(p) ==
    /\ procs[p].at = "pause"
    /\ Failed(p)
    /\ UNCHANGED <<registrationVars, leaderVars, clientVars, started, stopping, shuttingDown,
                   parting, tangled, counts>>

\* connect() of a client with a Redis URL; where it fails, ioredis goes on trying.
Connected(p) ==
    /\ procs[p].at = "connecting"
    /\ clients' = [clients EXCEPT ![procs[p].client].state = "open"]
    /\ Obtain(p, procs[p].client, clients[procs[p].client].of)
    /\ UNCHANGED <<lookFrame, cached, tangled, counts>>

\* What start() or reconnect() gave up has a connection after all; nobody has the client.
ConnectsLate(c) ==
    /\ clients[c].state = "trying"
    /\ clients' = [clients EXCEPT ![c].state = "open late"]
    /\ UNCHANGED <<registrationVars, leaderVars, procs, kvClient, webdav, handed, lifeVars,
                   ghostVars, counts>>

ConnectFails(p) ==
    /\ procs[p].at = "connecting" /\ Count("fault")
    /\ clients' = [clients EXCEPT ![procs[p].client].state = "trying"]
    /\ Failed(p)
    /\ UNCHANGED <<registrationVars, leaderVars, kvClient, webdav, handed, started, stopping,
                   shuttingDown, parting, tangled>>
-----------------------------------------------------------------------------
HttpOnly(c) == clients[c].of \notin legacy

\* close() of a client with a connection; kvClient is cleared, whatever it is by then.
CloseResolves(c) ==
    /\ ~HttpOnly(c)
    /\ clients' = [clients EXCEPT ![c].state = "closed"] /\ kvClient' = NoClient

\* quit() rejects on the stub of an HTTP-only client and on a closed connection;
\* it may fail on an open one, which is cut off then, or not.
CloseRejects(c) ==
    \/ /\ HttpOnly(c) \/ clients[c].state \in {"closed", "cut off"}
       /\ UNCHANGED <<clients, counts>>
    \/ /\ ~HttpOnly(c) /\ clients[c].state = "open" /\ Count("fault")
       /\ clients' \in {clients, [clients EXCEPT ![c].state = "cut off"]}

\* reconnect() goes on to waitForLeader(); leaderClient may be null by now, an
\* exception that is caught and logged.
ReconnectClosed(p) ==
    /\ procs[p].at = "closing"
    /\ CloseResolves(procs[p].client)
    /\ IF shuttingDown THEN ToIdle(p)
       ELSE procs' = [procs EXCEPT ![p].at = "read", ![p].waiting = TRUE,
                                   ![p].client = NoClient]
    /\ UNCHANGED <<registrationVars, leaderVars, webdav, handed, lifeVars, ghostVars, counts>>

\* The rejection leaves reconnect(), and nobody handles it.
ReconnectAborted(p) ==
    /\ procs[p].at = "closing"
    /\ CloseRejects(procs[p].client)
    /\ ToIdle(p) /\ doubt' = TRUE
    /\ UNCHANGED <<registrationVars, leaderVars, kvClient, webdav, handed, lifeVars, tangled>>
-----------------------------------------------------------------------------
StartUp ==
    /\ boot = "down"
    /\ boot' = "connecting" /\ parting' = "none"
    /\ procs' = [procs EXCEPT ![Starter] =
           [IdleProc EXCEPT !.kind = "start", !.at = "read", !.waiting = TRUE]]
    /\ UNCHANGED <<registrationVars, leaderVars, clientVars, started, stopping, shuttingDown,
                   ghostVars, counts>>

\* start() is over, and index.ts hands the client on.  Where a reconnect has taken it
\* away, waitForReady() waits for a callback that has been called already.
Registered ==
    /\ boot = "registering" /\ WriteEnds
    /\ timer' = TRUE /\ started' = TRUE
    /\ handed' = kvClient
    /\ boot' = IF kvClient # NoClient THEN "ready" ELSE "broken"
    /\ UNCHANGED <<leaderVars, procs, clients, kvClient, webdav, stopping, shuttingDown,
                   parting, ghostVars, counts>>

NotRegistered ==
    /\ boot = "registering" /\ WriteFails /\ Count("fault")
    /\ boot' = "broken"
    /\ UNCHANGED <<leaderVars, procs, clientVars, started, stopping, shuttingDown, parting,
                   ghostVars>>

HeartbeatWritten ==
    /\ boot # "registering" /\ WriteEnds
    /\ UNCHANGED <<timer, leaderVars, procs, clientVars, lifeVars, ghostVars, counts>>

HeartbeatFails ==
    /\ boot # "registering" /\ WriteFails /\ Count("fault")
    /\ UNCHANGED <<leaderVars, procs, clientVars, lifeVars, ghostVars>>

registrationFrame == <<leaderVars, procs, clientVars, lifeVars, ghostVars, counts>>

Heartbeat ==
    \/ (Tick \/ HeartbeatRead \/ WriteOpens) /\ UNCHANGED registrationFrame
    \/ HeartbeatWritten

\* meta-core takes the service for dead.
Removal ==
    /\ entry # "absent" /\ Count("removal")
    /\ Unlinked
    /\ UNCHANGED <<timer, leaderVars, procs, clientVars, lifeVars, ghostVars>>
-----------------------------------------------------------------------------
\* The process ends: what is left is the file, as it is.
Gone(how) ==
    /\ boot' = "down" /\ started' = FALSE /\ stopping' = NoStop /\ shuttingDown' = FALSE
    /\ parting' = how /\ doubt' = FALSE /\ tangled' = FALSE
    /\ writer' = "idle" /\ timer' = FALSE
    /\ unheard' = 0 /\ watching' = FALSE /\ cached' = NoLeader
    /\ procs' = [p \in Callers |-> IdleProc]
    /\ clients' = NoClients /\ kvClient' = NoClient /\ webdav' = NoLeader
    /\ handed' = NoClient
    /\ UNCHANGED <<entry, leader, legacy>>

Crash == Running /\ Count("exit") /\ Gone("other")

\* stop() comes to unregister().
GoOnToUnlink ==
    stopping' = [at |-> "unlink", client |-> NoClient, alone |-> FALSE] /\ Unregister

\* SIGINT: stop() up to its first await.  It does nothing before start() is over, and
\* the process exits.
Signal ==
    /\ Running /\ stopping.at = "no" /\ Count("exit")
    /\ \/ ~started /\ Gone("other")
       \/ /\ started
          /\ shuttingDown' = TRUE /\ watching' = FALSE /\ unheard' = 0
          /\ tangled' = (tangled \/ \E p \in Callers : Reconnecting(p))
          /\ IF kvClient # NoClient
             THEN stopping' = [NoStop EXCEPT !.at = "closing", !.client = kvClient]
                  /\ UNCHANGED timer
             ELSE GoOnToUnlink
          /\ UNCHANGED <<entry, writer, leader, legacy, cached, procs, clientVars, boot,
                         started, parting, doubt>>

StopClosed ==
    /\ stopping.at = "closing"
    /\ CloseResolves(stopping.client) /\ GoOnToUnlink
    /\ UNCHANGED <<entry, writer, leaderVars, procs, webdav, handed, boot, started,
                   shuttingDown, parting, ghostVars, counts>>

\* stop() rejects and the handler of the signal with it: the process goes on.
StopAborted ==
    /\ stopping.at = "closing"
    /\ CloseRejects(stopping.client)
    /\ stopping' = NoStop
    /\ UNCHANGED <<registrationVars, leaderVars, procs, kvClient, webdav, handed, boot,
                   started, shuttingDown, parting, ghostVars>>

Unlink ==
    /\ stopping.at = "unlink"
    /\ \/ Unlinked /\ UNCHANGED counts
          /\ stopping' = [stopping EXCEPT !.at = "exit", !.alone = (writer = "idle")]
       \/ Count("fault") /\ UNCHANGED <<entry, writer>>
          /\ stopping' = [stopping EXCEPT !.at = "exit"]
    /\ UNCHANGED <<timer, leaderVars, procs, clientVars, boot, started, shuttingDown, parting,
                   ghostVars>>

Exit ==
    /\ stopping.at = "exit"
    /\ Gone(IF stopping.alone THEN "clean" ELSE "other") /\ UNCHANGED counts

Next ==
    \/ NewLeader \/ Hear \/ Request \/ Expire
    \/ \E p \in Callers :
           \/ Read(p) \/ Answer(p) \/ NoAnswer(p) \/ Poll(p) \/ GiveUp(p)
           \/ Connected(p) \/ ConnectFails(p) \/ ReconnectClosed(p) \/ ReconnectAborted(p)
    \/ \E c \in ClientIds : ConnectsLate(c)
    \/ StartUp \/ Registered \/ NotRegistered
    \/ Heartbeat \/ HeartbeatFails \/ Removal
    \/ Crash \/ Signal \/ StopClosed \/ StopAborted \/ Unlink \/ Exit

Spec == Init /\ [][Next]_vars

\* The interval keeps firing, and a call on a file comes back.
FairSpec == Spec /\ WF_vars(Heartbeat)
-----------------------------------------------------------------------------
Quiet == /\ boot = "ready" /\ ~shuttingDown /\ unheard = 0
         /\ \A p \in Callers : ~Busy(p)

\* Once every change of the leader has been reported and its reconnect is over, the
\* client is the leader's, and so is the WebDAV URL if it publishes one (KVManager.ts
\* 114-143, 169-203; LeaderClient.ts 58-131, 222-251).  It is not promised for a change
\* while no watcher runs, which is for good where watch() threw, for one that is
\* reported while another look or reconnect is under way (whose answer, of the old
\* leader, may fill the cache again), or after a reconnect that failed, which the
\* reconnect of an HTTP-only client does.
FollowsLeader ==
    Quiet /\ ~doubt =>
        /\ kvClient # NoClient /\ clients[kvClient].of = leader
        /\ leader \in Published => webdav = leader

\* An open client is in use: by the manager, or a reconnect has it in hand.
InUse ==
    \A c \in ClientIds :
        /\ clients[c].state \in {"connecting", "open"} =>
               c = kvClient \/ \E p \in Callers : procs[p].client = c
        /\ c = kvClient => clients[c].state \in {"open", "cut off"}

\* The program has the manager's client, or one the manager has done with.
HandedKept ==
    handed \in {NoClient, kvClient} \/ clients[handed].state \in {"closed", "cut off"}

\* A client in use is open, or was cut off by a close() that failed, and an open client
\* is in use: by the manager, or a reconnect has it in hand.  What the program was handed
\* at start-up is never another: once the manager has done with it, it is closed.
\* Reconnects that overlap, or one that overlaps with stop(), lose a client; and one whose
\* connect() failed opens late, when nobody has it to close it (KVManager.ts 79-89,
\* 169-203, 208-234; RedisClient.ts 106-160; index.ts 146-157).
ClientsAccounted == ~tangled => InUse /\ HandedKept

\* After stop() there is no file, but for a heartbeat that was under way then.
NothingLeft == parting = "clean" => entry = "absent"

\* The file says what the process is: while one runs that has registered, a file that
\* is missing or was emptied for a write comes back whole, but for one whose write
\* failed, which no heartbeat repairs; after stop() there is none
\* (ServiceRegistration.ts 80-172).
EntryMatchesProcess ==
    /\ timer ~> \/ entry = "whole" \/ ~timer
                \/ entry = "cut" /\ writer \notin {"writing", "write"}
    /\ []NothingLeft
=============================================================================
