---------------------------- MODULE KVManagerProofs ----------------------------
(***************************************************************************)
(* Theorems about the connection to the leader and the service's file, for *)
(* every set of leaders, any number of looks at once, of changes and of    *)
(* restarts.                                                               *)
(*                                                                         *)
(*   TypeInv        the types;                                             *)
(*   LookersSound   what a look, a reconnect or start() may be at;         *)
(*   BootSound      what there is at each stage of the process;            *)
(*   AccountedInv   while nothing overlaps, who has which client;          *)
(*   FollowInv      what was read since the last change is the leader's;   *)
(*   PartingInv     what stop() leaves;                                    *)
(*   HandedInv      which client the program was handed.                   *)
(*                                                                         *)
(* The key-value storage composes KVManager with the record of a file      *)
(* (module KV): each of its steps is a step of KVManager or leaves all its *)
(* variables as they are, so that what holds of KVManager holds of it.     *)
(*                                                                         *)
(* The last part is about the record: that the tree which reconstruct-     *)
(* Metadata() builds, pair by pair and in any order, has the record's      *)
(* values and no other (Built, ReadSound), that it can be built in every   *)
(* order unless fields clash (RecordReadable) and gives the record back    *)
(* (Whole, RecordRoundTrips), what the fields are that a request writes    *)
(* back (Fits), that it keeps the others (KVRecordsKept) and that it makes *)
(* no clash of its own (FieldsInv, KVStaysReadable).                       *)
(***************************************************************************)
EXTENDS KV, FiniteSetTheorems, SequenceTheorems, WellFoundedInduction, TLAPS

LeaderOrNone == Leaders \cup {NoLeader}
ClientOrNone == ClientIds \cup {NoClient}

ProcType == [kind : {"none", "start", "event", "request"},
             at : {"idle", "read", "ask", "pause", "connecting", "closing"},
             waiting : BOOLEAN, of : LeaderOrNone, client : ClientOrNone]
ClientType == [of : LeaderOrNone,
               state : {"none", "connecting", "open", "trying", "open late", "closed",
                        "cut off"}]
StopType == [at : {"no", "closing", "unlink", "exit"}, client : ClientOrNone,
             alone : BOOLEAN]

TypeInv ==
    /\ entry \in {"absent", "cut", "whole"} /\ timer \in BOOLEAN
    /\ writer \in {"idle", "read", "write", "writing", "lost"}
    /\ leader \in LeaderOrNone /\ cached \in LeaderOrNone /\ webdav \in LeaderOrNone
    /\ legacy \subseteq Leaders /\ unheard \in Nat /\ watching \in BOOLEAN
    /\ procs \in [Callers -> ProcType]
    /\ clients \in [ClientIds -> ClientType]
    /\ kvClient \in ClientOrNone /\ handed \in ClientOrNone
    /\ boot \in {"down", "connecting", "registering", "ready", "broken"}
    /\ started \in BOOLEAN /\ shuttingDown \in BOOLEAN
    /\ stopping \in StopType
    /\ parting \in {"none", "clean", "other"}
    /\ doubt \in BOOLEAN /\ tangled \in BOOLEAN

\* A client that somebody knows was made; a client in hand is being connected or closed.
SoundProc(p) ==
    LET proc == procs[p]
    IN  /\ ~Busy(p) => proc = IdleProc
        /\ Busy(p) => proc.kind \in (IF p = Starter THEN {"start"}
                                     ELSE {"event", "request"})
        /\ proc.kind = "start" => proc.waiting
        /\ proc.kind = "request" => proc.at \in {"read", "ask"} /\ ~proc.waiting
        /\ proc.at \in {"pause", "connecting"} => proc.waiting
        /\ proc.at = "closing" => ~proc.waiting
        /\ proc.client # NoClient <=> proc.at \in {"connecting", "closing"}
        /\ proc.client # NoClient => clients[proc.client].state # "none"

LookersSound ==
    /\ kvClient # NoClient => clients[kvClient].state # "none"
    /\ stopping.client # NoClient => clients[stopping.client].state # "none"
    /\ \A p \in Callers : SoundProc(p)

BootSound ==
    /\ boot = "connecting" <=> Busy(Starter)
    /\ boot \in {"down", "connecting"} =>
          /\ kvClient = NoClient /\ ~watching /\ ~started
          /\ \A p \in Lookers : ~Busy(p)
    /\ boot = "down" \/ procs[Starter].at \in {"read", "ask", "pause"} => cached = NoLeader
    /\ unheard > 0 => watching
    /\ started => boot \in {"ready", "broken"}
    /\ shuttingDown => started /\ ~watching
    /\ stopping.at # "no" => shuttingDown

\* start() and a reconnect have no client, or close the one there is.
Active(p) == Busy(p) /\ (procs[p].waiting \/ procs[p].at = "closing")

\* While nothing overlaps, one at most is at work, and it has the clients in hand.
AccountedInv ==
    ~tangled =>
        /\ \A p, q \in Callers : Active(p) /\ Active(q) => p = q
        /\ \A p \in Callers : procs[p].waiting => kvClient = NoClient
        /\ \A p \in Callers : procs[p].at = "closing" => procs[p].client = kvClient
        /\ stopping.at = "closing" => stopping.client = kvClient
        /\ shuttingDown => \A p \in Callers : ~Active(p)
        /\ InUse

\* start(), or the callback of the watcher that will reconnect, or does.
Tracks(p) == procs[p].kind \in {"start", "event"}

\* The process is bound to follow the leader: no change has been missed or is unheard.
Following == ~doubt /\ unheard = 0 /\ ~shuttingDown /\ boot \notin {"down", "broken"}

\* All that was read of the leader since its last change is of the leader, and one is
\* on the way to follow it, or has.
FollowInv ==
    Following =>
        /\ cached \in {NoLeader, leader}
        /\ \A p \in Callers : procs[p].at = "ask" => procs[p].of = leader
        /\ \A p \in Callers :
              procs[p].at = "connecting" => clients[procs[p].client].of = leader
        /\ \A p, q \in Callers : Tracks(p) /\ Tracks(q) => p = q
        /\ \/ \E p \in Callers : Tracks(p)
           \/ /\ kvClient # NoClient /\ clients[kvClient].of = leader
              /\ leader \in Published => webdav = leader

\* The heartbeat has ended before the file is unlinked, and nothing writes it again.
PartingInv ==
    /\ boot = "down" => writer = "idle" /\ ~timer
    /\ stopping.at \in {"unlink", "exit"} => ~timer
    /\ stopping.at = "closing" => stopping.client # NoClient
    /\ stopping.at # "exit" => ~stopping.alone
    /\ stopping.at = "exit" /\ stopping.alone => writer = "idle" /\ entry = "absent"
    /\ parting = "clean" => boot = "down" /\ entry = "absent"

ManagerInv ==
    TypeInv /\ LookersSound /\ BootSound /\ AccountedInv /\ FollowInv /\ PartingInv

\* While nothing overlaps, the program has the manager's client or one that was closed; a
\* client that is being connected has no other state, so it is not that one.
HandedInv ==
    ~tangled =>
        /\ HandedKept
        /\ \A p \in Callers :
              procs[p].at = "connecting" => clients[procs[p].client].state = "connecting"

ConnectionInv == ManagerInv /\ HandedInv

-----------------------------------------------------------------------------
(* The numbers the model picks. *)

\* A set of numbers that is not empty has a smallest one.
LEMMA NatMin ==
    ASSUME NEW T, T \subseteq Nat, T # {}
    PROVE  \E x \in T : \A y \in T : x <= y
  <1>1. IsWellFoundedOn({ss \in Nat \X Nat : ss[1] < ss[2]}, Nat)
    BY NatLessThanWellFounded DEF OpToRel
  <1>2. PICK x \in T : \A y \in T : ~(<<y, x>> \in {ss \in Nat \X Nat : ss[1] < ss[2]})
    BY <1>1, WFMin
  <1>3. \A y \in T : ~(y < x)
    BY <1>2
  <1>4. QED
    BY <1>3

\* The first free look is a free look, ...
LEMMA FreeLookerIsFree ==
    ASSUME FreeLookers # {}
    PROVE  /\ FreeLooker \in Lookers /\ ~Busy(FreeLooker)
           /\ FreeLooker \in Callers /\ FreeLooker # Starter
  <1>1. FreeLookers \subseteq Nat
    BY KVAssumption DEF FreeLookers
  <1>2. \E p \in FreeLookers : \A q \in FreeLookers : p <= q
    BY <1>1, NatMin
  <1>3. FreeLooker \in FreeLookers
    BY <1>2 DEF FreeLooker
  <1>4. QED
    BY <1>3, KVAssumption DEF FreeLookers, Callers, Starter

\* ... and the next client is one that was not made before.
LEMMA NewClientIsUnused ==
    ASSUME Unused # {}
    PROVE  /\ NewClient \in ClientIds /\ clients[NewClient].state = "none"
           /\ NewClient # NoClient
  <1>1. ClientIds \subseteq Nat /\ NoClient \notin ClientIds
    BY KVAssumption DEF ClientIds, NoClient
  <1>2. Unused \subseteq Nat
    BY <1>1 DEF Unused
  <1>3. \E c \in Unused : \A d \in Unused : c <= d
    BY <1>2, NatMin
  <1>4. NewClient \in Unused
    BY <1>3 DEF NewClient
  <1>5. QED
    BY <1>1, <1>4 DEF Unused

-----------------------------------------------------------------------------
(* A look, a reconnect or start() goes on. *)

\* A client is there: nobody else has one in hand, and it is the leader's unless a
\* change is unheard or missed.
LEMMA ObtainKeeps ==
    ASSUME ManagerInv, NEW p \in Callers, procs[p].waiting,
           NEW n \in ClientIds, NEW u \in LeaderOrNone,
           Obtain(p, n, u), UNCHANGED <<lookFrame, tangled>>, cached' \in {cached, u},
           clients' \in [ClientIds -> ClientType],
           clients'[n].of = u, clients'[n].state = "open",
           \A c \in ClientIds \ {n} : clients'[c] = clients[c],
           procs[p].client \in {NoClient, n},
           Following => u = leader
    PROVE  ManagerInv'
  <1> USE DEF ManagerInv, Busy
  <1>1. /\ entry' = entry /\ timer' = timer /\ leader' = leader /\ legacy' = legacy
        /\ unheard' = unheard /\ handed' = handed /\ started' = started
        /\ stopping' = stopping /\ shuttingDown' = shuttingDown /\ parting' = parting
        /\ doubt' = doubt /\ tangled' = tangled
    BY DEF lookFrame
  <1>2. /\ procs \in [Callers -> ProcType] /\ procs' = [procs EXCEPT ![p] = IdleProc]
        /\ kvClient' = n /\ webdav' \in LeaderOrNone /\ (u \in Published => webdav' = u)
        /\ n # NoClient /\ Busy(p) /\ procs'[p] = IdleProc
        /\ \A q \in Callers \ {p} : procs'[q] = procs[q]
    BY KVAssumption
       DEF Obtain, ToIdle, TypeInv, LookersSound, SoundProc, IdleProc, ClientIds, NoClient
  <1>3. \/ /\ p = Starter /\ watching' \in BOOLEAN /\ boot = "connecting"
           /\ boot' = "registering" /\ writer' = "write"
        \/ p # Starter /\ UNCHANGED <<watching, boot, writer>> /\ p \in Lookers
    BY <1>2 DEF Obtain, BootSound, Callers
  <1>4. TypeInv'
    <2>1. procs' \in [Callers -> ProcType]
      BY <1>2 DEF IdleProc, ProcType, LeaderOrNone, ClientOrNone
    <2>2. kvClient' \in ClientOrNone /\ cached' \in LeaderOrNone
      BY <1>2 DEF TypeInv, ClientOrNone
    <2>3. /\ watching' \in BOOLEAN /\ timer' \in BOOLEAN /\ started' \in BOOLEAN
          /\ shuttingDown' \in BOOLEAN /\ doubt' \in BOOLEAN /\ tangled' \in BOOLEAN
      BY <1>1, <1>3, Zenon DEF TypeInv
    <2>4. /\ boot' \in {"down", "connecting", "registering", "ready", "broken"}
          /\ writer' \in {"idle", "read", "write", "writing", "lost"}
      BY <1>3 DEF TypeInv
    <2>5. QED
      BY <1>1, <1>2, <2>1, <2>2, <2>3, <2>4 DEF TypeInv
  <1>5. LookersSound'
    <2>1. /\ kvClient' # NoClient => clients'[kvClient'].state # "none"
          /\ stopping'.client # NoClient => clients'[stopping'.client].state # "none"
      BY <1>1, <1>2 DEF LookersSound, SoundProc, TypeInv, StopType, ClientOrNone
    <2>2. \A q \in Callers : procs[q].client \in ClientOrNone
      BY DEF TypeInv, ProcType
    <2>3. QED
      BY <1>2, <2>1, <2>2 DEF LookersSound, SoundProc, IdleProc, ClientOrNone
  <1>6. BootSound'
    BY <1>1, <1>2, <1>3 DEF BootSound, IdleProc, Callers
  <1>7. AccountedInv'
    <2>1. SUFFICES ASSUME ~tangled
                   PROVE  /\ \A q, r \in Callers : Active(q)' /\ Active(r)' => q = r
                          /\ \A q \in Callers : procs'[q].waiting => kvClient' = NoClient
                          /\ \A q \in Callers :
                                procs'[q].at = "closing" => procs'[q].client = kvClient'
                          /\ stopping'.at = "closing" => stopping'.client = kvClient'
                          /\ shuttingDown' => \A q \in Callers : ~Active(q)'
                          /\ InUse'
      BY <1>1 DEF AccountedInv
    <2>2. \A q \in Callers \ {p} : ~Active(q) /\ ~Active(q)'
      BY <1>2, <2>1 DEF AccountedInv, Active
    <2>3. \A q \in Callers : ~Active(q)'
      BY <1>2, <2>2 DEF Active, IdleProc
    <2>4. ~shuttingDown /\ stopping.at = "no"
      BY <1>1, <1>2, <2>1 DEF AccountedInv, Active, BootSound
    <2>5. \A q \in Callers : ~procs'[q].waiting /\ procs'[q].at # "closing"
      BY <1>2, <1>5, <2>3 DEF Active, LookersSound, SoundProc, IdleProc
    <2>6. \A c \in ClientIds \ {n} : clients'[c].state \notin {"connecting", "open"}
      <3>1. kvClient = NoClient /\ NoClient \notin ClientIds
        BY <1>2, <2>1, KVAssumption DEF AccountedInv, ClientIds, NoClient
      <3>2. \A q \in Callers \ {p} : procs[q].client = NoClient
        <4>1. \A q \in Callers : Busy(q) /\ procs[q].client # NoClient => Active(q)
          BY DEF LookersSound, SoundProc, Active
        <4>2. \A q \in Callers : ~Busy(q) => procs[q].client = NoClient
          BY DEF LookersSound, SoundProc, IdleProc
        <4>3. QED
          BY <2>2, <4>1, <4>2
      <3>3. \A q \in Callers : procs[q].client \in {NoClient, n}
        BY <3>2
      <3>4. \A c \in ClientIds : clients[c].state \in {"connecting", "open"} =>
                   c = kvClient \/ \E q \in Callers : procs[q].client = c
        BY <2>1 DEF AccountedInv, InUse
      <3>5. QED
        BY <3>1, <3>3, <3>4
    <2>7. InUse'
      BY <1>2, <2>6 DEF InUse
    <2>8. QED
      BY <1>1, <2>3, <2>4, <2>5, <2>7
  <1>8. FollowInv'
    <2>1. SUFFICES ASSUME Following'
                   PROVE  /\ cached' \in {NoLeader, leader'}
                          /\ \A q \in Callers : procs'[q].at = "ask" => procs'[q].of = leader'
                          /\ \A q \in Callers : procs'[q].at = "connecting"
                                => clients'[procs'[q].client].of = leader'
                          /\ \A q, r \in Callers : Tracks(q)' /\ Tracks(r)' => q = r
                          /\ kvClient' # NoClient /\ clients'[kvClient'].of = leader'
                          /\ leader' \in Published => webdav' = leader'
      BY DEF FollowInv
    <2>2. Following /\ leader' = leader /\ u = leader
      BY <1>1, <1>3, <2>1 DEF Following
    <2>3. Tracks(p)
      BY <1>2, <1>3 DEF LookersSound, SoundProc, Tracks
    <2>4. \A q \in Callers \ {p} : ~Tracks(q)
      BY <2>2, <2>3 DEF FollowInv
    <2>5. \A q \in Callers : ~Tracks(q)' /\ procs'[q].at # "connecting"
      BY <1>2, <2>4 DEF Tracks, IdleProc, LookersSound, SoundProc
    <2>6. QED
      BY <1>2, <2>2, <2>5 DEF FollowInv, IdleProc
  <1>9. PartingInv'
    BY <1>1, <1>2, <1>3 DEF PartingInv, BootSound
  <1>10. QED
    BY <1>4, <1>5, <1>6, <1>7, <1>8, <1>9


\* What a look leaves as it is, one by one.
LEMMA LookFrameParts ==
    ASSUME UNCHANGED lookFrame
    PROVE  /\ entry' = entry /\ timer' = timer /\ leader' = leader /\ legacy' = legacy
           /\ unheard' = unheard /\ handed' = handed /\ started' = started
           /\ stopping' = stopping /\ shuttingDown' = shuttingDown /\ parting' = parting
           /\ doubt' = doubt
  BY DEF lookFrame

\* A step that makes nobody busier and changes no client.
LEMMA AccountedStays ==
    ASSUME AccountedInv, UNCHANGED <<clients, kvClient, tangled, stopping, shuttingDown>>,
           \A q \in Callers : Active(q)' <=> Active(q),
           \A q \in Callers : procs'[q].waiting <=> procs[q].waiting,
           \A q \in Callers : procs'[q].at = "closing" <=> procs[q].at = "closing",
           \A q \in Callers : procs'[q].client = procs[q].client
    PROVE  AccountedInv'
  <1>1. SUFFICES ASSUME ~tangled
                 PROVE  /\ \A q, r \in Callers : Active(q)' /\ Active(r)' => q = r
                        /\ \A q \in Callers : procs'[q].waiting => kvClient' = NoClient
                        /\ \A q \in Callers :
                              procs'[q].at = "closing" => procs'[q].client = kvClient'
                        /\ stopping'.at = "closing" => stopping'.client = kvClient'
                        /\ shuttingDown' => \A q \in Callers : ~Active(q)'
                        /\ InUse'
    BY DEF AccountedInv
  <1>2. InUse'
    <2>1. ASSUME NEW c \in ClientIds, \E q \in Callers : procs[q].client = c
          PROVE  \E q \in Callers : procs'[q].client = c
      BY <2>1
    <2>2. clients' = clients /\ kvClient' = kvClient
      OBVIOUS
    <2>3. QED
      BY <1>1, <2>1, <2>2 DEF AccountedInv, InUse
  <1>3. /\ \A q, r \in Callers : Active(q)' /\ Active(r)' => q = r
        /\ shuttingDown' => \A q \in Callers : ~Active(q)'
    BY <1>1, Zenon DEF AccountedInv
  <1>4. /\ \A q \in Callers : procs'[q].waiting => kvClient' = NoClient
        /\ \A q \in Callers : procs'[q].at = "closing" => procs'[q].client = kvClient'
    BY <1>1 DEF AccountedInv
  <1>5. stopping'.at = "closing" => stopping'.client = kvClient'
    BY <1>1 DEF AccountedInv
  <1>6. QED
    BY <1>2, <1>3, <1>4, <1>5

\* One that looks, or waits to look again, goes on looking.
LEMMA LookGoesOn ==
    ASSUME ManagerInv, NEW p \in Callers, procs[p].at \in {"read", "ask", "pause"},
           NEW new \in ProcType, procs' = [procs EXCEPT ![p] = new],
           UNCHANGED <<clients, kvClient, webdav, watching, boot, writer, tangled>>,
           UNCHANGED lookFrame, cached' \in LeaderOrNone,
           new.kind = procs[p].kind, new.waiting = procs[p].waiting, new.client = NoClient,
           new.at \in {"read", "ask", "pause"}, new.at = "pause" => procs[p].waiting,
           Following => (new.at = "ask" => new.of = leader),
           Following => cached' \in {NoLeader, leader},
           cached' \in {NoLeader, cached}
    PROVE  ManagerInv'
  <1> USE DEF ManagerInv, Busy
  <1>1. /\ entry' = entry /\ timer' = timer /\ leader' = leader /\ legacy' = legacy
        /\ unheard' = unheard /\ handed' = handed /\ started' = started
        /\ stopping' = stopping /\ shuttingDown' = shuttingDown /\ parting' = parting
        /\ doubt' = doubt
    BY LookFrameParts
  <1>2. /\ procs'[p] = new /\ \A q \in Callers \ {p} : procs'[q] = procs[q]
        /\ procs' \in [Callers -> ProcType]
    BY DEF TypeInv
  <1>3. Busy(p) /\ Busy(p)' /\ procs[p].client = NoClient
    BY <1>2 DEF LookersSound, SoundProc
  <1>4. TypeInv'
    <2>1. /\ watching' \in BOOLEAN /\ timer' \in BOOLEAN /\ started' \in BOOLEAN
          /\ shuttingDown' \in BOOLEAN /\ doubt' \in BOOLEAN /\ tangled' \in BOOLEAN
      BY <1>1, Zenon DEF TypeInv
    <2>2. QED
      BY <1>1, <1>2, <2>1 DEF TypeInv
  <1>5. LookersSound'
    <2>1. /\ kvClient' # NoClient => clients'[kvClient'].state # "none"
          /\ stopping'.client # NoClient => clients'[stopping'.client].state # "none"
      BY <1>1 DEF LookersSound, SoundProc
    <2>2. QED
      BY <1>2, <1>3, <2>1 DEF LookersSound, SoundProc
  <1>6. BootSound'
    BY <1>1, <1>2, <1>3 DEF BootSound, Callers
  <1>7. \A q \in Callers : Active(q)' <=> Active(q)
    BY <1>2, <1>3 DEF Active
  <1>8. AccountedInv'
    <2>1. \A q \in Callers : /\ procs'[q].waiting <=> procs[q].waiting
                             /\ procs'[q].at = "closing" <=> procs[q].at = "closing"
                             /\ procs'[q].client = procs[q].client
      BY <1>2, <1>3
    <2>2. QED
      BY <1>1, <1>7, <2>1, AccountedStays
  <1>9. FollowInv'
    <2>1. Following' <=> Following
      BY <1>1 DEF Following
    <2>2. \A q \in Callers : Tracks(q)' <=> Tracks(q)
      BY <1>2 DEF Tracks
    <2>3. QED
      BY <1>1, <1>2, <2>1, <2>2 DEF FollowInv
  <1>10. PartingInv'
    BY <1>1 DEF PartingInv
  <1>11. QED
    BY <1>4, <1>5, <1>6, <1>8, <1>9, <1>10


\* The types, where the stage of the process and the file stay as they are.
LEMMA LookTypes ==
    ASSUME TypeInv, UNCHANGED lookFrame, UNCHANGED <<watching, boot, writer>>,
           procs' \in [Callers -> ProcType], clients' \in [ClientIds -> ClientType],
           kvClient' \in ClientOrNone, webdav' \in LeaderOrNone, cached' \in LeaderOrNone,
           tangled' \in BOOLEAN
    PROVE  TypeInv'
  <1>1. /\ watching' \in BOOLEAN /\ timer' \in BOOLEAN /\ started' \in BOOLEAN
        /\ shuttingDown' \in BOOLEAN /\ doubt' \in BOOLEAN
    BY LookFrameParts, Zenon DEF TypeInv
  <1>2. QED
    BY <1>1, LookFrameParts DEF TypeInv

\* A look for which nobody waits is over.
LEMMA LookOver ==
    ASSUME ManagerInv, NEW p \in Callers, procs[p].at \in {"read", "ask"}, ~procs[p].waiting,
           ToIdle(p), procs[p].kind = "request" \/ shuttingDown,
           UNCHANGED <<clients, kvClient, webdav, watching, boot, writer, tangled>>,
           UNCHANGED lookFrame, cached' \in LeaderOrNone,
           Following => cached' \in {NoLeader, leader}
    PROVE  ManagerInv'
  <1> USE DEF ManagerInv, Busy
  <1>1. /\ entry' = entry /\ timer' = timer /\ leader' = leader /\ legacy' = legacy
        /\ unheard' = unheard /\ handed' = handed /\ started' = started
        /\ stopping' = stopping /\ shuttingDown' = shuttingDown /\ parting' = parting
        /\ doubt' = doubt
    BY LookFrameParts
  <1>2. /\ procs'[p] = IdleProc /\ \A q \in Callers \ {p} : procs'[q] = procs[q]
        /\ procs' \in [Callers -> ProcType]
    BY DEF TypeInv, ToIdle, IdleProc, ProcType, LeaderOrNone, ClientOrNone
  <1>3. /\ procs[p].client = NoClient /\ p # Starter /\ ~Active(p) /\ p \in Lookers
        /\ boot \notin {"down", "connecting"} /\ ~Busy(Starter)
    BY DEF LookersSound, SoundProc, Active, BootSound, Callers
  <1>4. TypeInv'
    BY <1>2, LookTypes DEF TypeInv
  <1>5. LookersSound'
    BY <1>1, <1>2 DEF LookersSound, SoundProc, IdleProc
  <1>6. BootSound'
    BY <1>1, <1>2, <1>3 DEF BootSound, IdleProc, Callers
  <1>7. /\ \A q \in Callers : Active(q)' <=> Active(q)
        /\ \A q \in Callers : procs'[q].waiting <=> procs[q].waiting
        /\ \A q \in Callers : procs'[q].at = "closing" <=> procs[q].at = "closing"
        /\ \A q \in Callers : procs'[q].client = procs[q].client
    BY <1>2, <1>3 DEF Active, IdleProc
  <1>8. AccountedInv'
    BY <1>1, <1>7, AccountedStays
  <1>9. FollowInv'
    <2>1. SUFFICES ASSUME Following'
                   PROVE  FollowInv'
      BY DEF FollowInv
    <2>2. Following /\ procs[p].kind = "request"
      BY <1>1, <2>1 DEF Following
    <2>3. \A q \in Callers : Tracks(q)' <=> Tracks(q)
      BY <1>2, <2>2 DEF Tracks, IdleProc
    <2>4. QED
      BY <1>1, <1>2, <2>2, <2>3 DEF FollowInv, IdleProc
  <1>10. PartingInv'
    BY <1>1 DEF PartingInv
  <1>11. QED
    BY <1>4, <1>5, <1>6, <1>8, <1>9, <1>10


\* The look of the watcher's callback is over: reconnect() begins, unless the process stops.
LEMMA NotifyKeeps ==
    ASSUME ManagerInv, NEW p \in Callers, procs[p].at \in {"read", "ask"}, ~procs[p].waiting,
           procs[p].kind = "event", Notify(p),
           UNCHANGED lookFrame, cached' \in LeaderOrNone,
           Following => cached' \in {NoLeader, leader}
    PROVE  ManagerInv'
  <1> USE DEF ManagerInv, Busy
  <1>1. /\ entry' = entry /\ timer' = timer /\ leader' = leader /\ legacy' = legacy
        /\ unheard' = unheard /\ handed' = handed /\ started' = started
        /\ stopping' = stopping /\ shuttingDown' = shuttingDown /\ parting' = parting
        /\ doubt' = doubt
    BY LookFrameParts
  <1>2. CASE shuttingDown
    BY <1>2, LookOver DEF Notify
  <1>3. CASE ~shuttingDown
    <2>1. PICK new \in ProcType :
              /\ procs' = [procs EXCEPT ![p] = new] /\ new.kind = "event"
              /\ \/ /\ kvClient # NoClient /\ new.at = "closing" /\ new.client = kvClient
                    /\ ~new.waiting
                 \/ /\ kvClient = NoClient /\ new.at = "read" /\ new.client = NoClient
                    /\ new.waiting
      <3>1. procs[p] \in ProcType /\ procs[p].client = NoClient
        BY DEF TypeInv, LookersSound, SoundProc
      <3>2. CASE kvClient # NoClient
        <4> DEFINE new == [procs[p] EXCEPT !.at = "closing", !.client = kvClient]
        <4>1. new \in ProcType /\ new.kind = "event" /\ new.at = "closing"
              /\ new.client = kvClient /\ ~new.waiting
          BY <3>1 DEF ProcType, TypeInv
        <4>2. procs' = [procs EXCEPT ![p] = new]
          BY <1>3, <3>2 DEF Notify, ClosesFirst
        <4>3. QED
          BY <3>2, <4>1, <4>2
      <3>3. CASE kvClient = NoClient
        <4> DEFINE new == [procs[p] EXCEPT !.at = "read", !.waiting = TRUE]
        <4>1. new \in ProcType /\ new.kind = "event" /\ new.at = "read"
              /\ new.client = NoClient /\ new.waiting
          BY <3>1 DEF ProcType
        <4>2. procs' = [procs EXCEPT ![p] = new]
          BY <1>3, <3>3 DEF Notify, ClosesFirst
        <4>3. QED
          BY <3>3, <4>1, <4>2
      <3>4. QED
        BY <3>2, <3>3
    <2>2. /\ procs'[p] = new /\ \A q \in Callers \ {p} : procs'[q] = procs[q]
          /\ procs' \in [Callers -> ProcType]
      BY <2>1 DEF TypeInv
    <2>3. /\ tangled' = (tangled \/ \E q \in Callers \ {p} : Reconnecting(q))
          /\ UNCHANGED <<clients, kvClient, webdav, watching, boot, writer>>
      BY <1>3 DEF Notify
    <2>4. /\ procs[p].client = NoClient /\ p # Starter /\ p \in Lookers
          /\ boot \notin {"down", "connecting"} /\ ~Busy(Starter)
          /\ procs'[Starter] = procs[Starter]
      BY <2>2 DEF LookersSound, SoundProc, BootSound, Callers
    <2>5. TypeInv'
      <3>1. tangled' \in BOOLEAN
        BY <2>3, Zenon DEF TypeInv
      <3>2. QED
        BY <2>2, <2>3, <3>1, LookTypes DEF TypeInv
    <2>6. LookersSound'
      BY <1>1, <2>1, <2>2, <2>3, <2>4 DEF LookersSound, SoundProc
    <2>7. BootSound'
      BY <1>1, <2>2, <2>3, <2>4 DEF BootSound, Callers
    <2>8. AccountedInv'
      <3>1. SUFFICES ASSUME ~tangled'
                     PROVE  /\ \A q, r \in Callers : Active(q)' /\ Active(r)' => q = r
                            /\ \A q \in Callers : procs'[q].waiting => kvClient' = NoClient
                            /\ \A q \in Callers :
                                  procs'[q].at = "closing" => procs'[q].client = kvClient'
                            /\ stopping'.at = "closing" => stopping'.client = kvClient'
                            /\ shuttingDown' => \A q \in Callers : ~Active(q)'
                            /\ InUse'
        BY DEF AccountedInv
      <3>2. ~tangled /\ \A q \in Callers \ {p} : ~Active(q)
        BY <2>3, <2>4, <3>1 DEF Active, Reconnecting, Starter
      <3>3. \A q \in Callers \ {p} : /\ ~Active(q)' /\ ~procs'[q].waiting
                                     /\ procs'[q].at # "closing"
        BY <2>2, <3>2 DEF Active, LookersSound, SoundProc, IdleProc
      <3>4. InUse'
        <4>1. ASSUME NEW c \in ClientIds, \E q \in Callers : procs[q].client = c
              PROVE  \E q \in Callers : procs'[q].client = c
          <5>1. PICK q \in Callers : procs[q].client = c
            BY <4>1
          <5>2. q # p
            BY <2>4, <5>1, KVAssumption DEF ClientIds, NoClient
          <5>3. QED
            BY <2>2, <5>1, <5>2
        <4>2. QED
          BY <2>3, <3>2, <4>1 DEF AccountedInv, InUse
      <3>5. \A q \in Callers : procs'[q].waiting => kvClient' = NoClient
        BY <2>1, <2>2, <2>3, <3>3
      <3>6. \A q \in Callers : procs'[q].at = "closing" => procs'[q].client = kvClient'
        BY <2>1, <2>2, <2>3, <3>3
      <3>7. stopping'.at # "closing" /\ ~shuttingDown'
        BY <1>1, <1>3 DEF BootSound
      <3>8. QED
        BY <3>3, <3>4, <3>5, <3>6, <3>7
    <2>9. FollowInv'
      <3>1. Following' <=> Following
        BY <1>1, <2>3 DEF Following
      <3>2. \A q \in Callers : Tracks(q)' <=> Tracks(q)
        BY <2>1, <2>2 DEF Tracks
      <3>3. QED
        BY <1>1, <2>1, <2>2, <2>3, <3>1, <3>2 DEF FollowInv
    <2>10. PartingInv'
      BY <1>1, <2>3 DEF PartingInv
    <2>11. QED
      BY <2>5, <2>6, <2>7, <2>8, <2>9, <2>10
  <1>4. QED
    BY <1>2, <1>3


\* A client with a connection is made, and connects.
LEMMA ConnectingKeeps ==
    ASSUME ManagerInv, NEW p \in Callers, procs[p].at \in {"read", "ask"}, procs[p].waiting,
           NEW n \in ClientIds, clients[n].state = "none", n # NoClient,
           NEW u \in Leaders,
           clients' = [clients EXCEPT ![n] = [of |-> u, state |-> "connecting"]],
           procs' = [procs EXCEPT ![p].at = "connecting", ![p].client = n],
           UNCHANGED <<kvClient, webdav, watching, boot, writer, tangled>>,
           UNCHANGED lookFrame, cached' \in {cached, u}, Following => u = leader
    PROVE  ManagerInv'
  <1> USE DEF ManagerInv, Busy
  <1>1. /\ entry' = entry /\ timer' = timer /\ leader' = leader /\ legacy' = legacy
        /\ unheard' = unheard /\ handed' = handed /\ started' = started
        /\ stopping' = stopping /\ shuttingDown' = shuttingDown /\ parting' = parting
        /\ doubt' = doubt
    BY LookFrameParts
  <1>2. /\ procs \in [Callers -> ProcType] /\ clients \in [ClientIds -> ClientType]
        /\ procs[p].client = NoClient
    BY DEF TypeInv, LookersSound, SoundProc
  <1>3. /\ procs'[p].at = "connecting" /\ procs'[p].client = n
        /\ procs'[p].kind = procs[p].kind /\ procs'[p].waiting = procs[p].waiting
        /\ \A q \in Callers \ {p} : procs'[q] = procs[q]
        /\ procs' \in [Callers -> ProcType]
    BY <1>2 DEF ProcType, ClientOrNone
  <1>4. /\ clients'[n] = [of |-> u, state |-> "connecting"]
        /\ \A c \in ClientIds \ {n} : clients'[c] = clients[c]
        /\ clients' \in [ClientIds -> ClientType]
    BY <1>2 DEF ClientType, LeaderOrNone
  <1>5. TypeInv'
    BY <1>3, <1>4, LookTypes DEF TypeInv, LeaderOrNone
  <1>6. LookersSound'
    <2>1. /\ kvClient' # NoClient => clients'[kvClient'].state # "none"
          /\ stopping'.client # NoClient => clients'[stopping'.client].state # "none"
      BY <1>1, <1>4 DEF LookersSound, SoundProc, TypeInv, StopType, ClientOrNone
    <2>2. \A q \in Callers : procs[q].client \in ClientOrNone
      BY <1>2 DEF ProcType
    <2>3. QED
      BY <1>2, <1>3, <1>4, <2>1, <2>2 DEF LookersSound, SoundProc, ClientOrNone
  <1>7. BootSound'
    BY <1>1, <1>3 DEF BootSound, Callers
  <1>8. AccountedInv'
    <2>1. SUFFICES ASSUME ~tangled
                   PROVE  /\ \A q, r \in Callers : Active(q)' /\ Active(r)' => q = r
                          /\ \A q \in Callers : procs'[q].waiting => kvClient' = NoClient
                          /\ \A q \in Callers :
                                procs'[q].at = "closing" => procs'[q].client = kvClient'
                          /\ stopping'.at = "closing" => stopping'.client = kvClient'
                          /\ shuttingDown' => \A q \in Callers : ~Active(q)'
                          /\ InUse'
      BY DEF AccountedInv
    <2>2. Active(p) /\ kvClient = NoClient /\ ~shuttingDown
      BY <2>1 DEF Active, AccountedInv
    <2>3. \A q \in Callers \ {p} : ~Active(q)
      BY <2>1, <2>2 DEF AccountedInv
    <2>4. \A q \in Callers \ {p} : /\ ~Active(q)' /\ ~procs'[q].waiting
                                   /\ procs'[q].at # "closing"
      BY <1>3, <2>3 DEF Active, LookersSound, SoundProc, IdleProc
    <2>5. InUse'
      <3>1. \A c \in ClientIds : c # kvClient
        BY <2>2, KVAssumption DEF ClientIds, NoClient
      <3>2. \A q \in Callers : procs[q].client = NoClient
        BY <1>2, <2>3 DEF Active, LookersSound, SoundProc, IdleProc
      <3>3. \A c \in ClientIds : clients[c].state \notin {"connecting", "open"}
        <4>1. \A c \in ClientIds : ~ \E q \in Callers : procs[q].client = c
          BY <3>2, KVAssumption DEF ClientIds, NoClient
        <4>2. QED
          BY <2>1, <3>1, <4>1 DEF AccountedInv, InUse
      <3>4. \E q \in Callers : procs'[q].client = n
        BY <1>3
      <3>5. QED
        BY <1>4, <3>1, <3>3, <3>4 DEF InUse
    <2>6. QED
      BY <1>1, <1>3, <2>2, <2>4, <2>5 DEF BootSound
  <1>9. FollowInv'
    <2>1. SUFFICES ASSUME Following'
                   PROVE  /\ cached' \in {NoLeader, leader'}
                          /\ \A q \in Callers : procs'[q].at = "ask" => procs'[q].of = leader'
                          /\ \A q \in Callers : procs'[q].at = "connecting"
                                => clients'[procs'[q].client].of = leader'
                          /\ \A q, r \in Callers : Tracks(q)' /\ Tracks(r)' => q = r
                          /\ \E q \in Callers : Tracks(q)'
      BY DEF FollowInv
    <2>2. Following /\ u = leader
      BY <1>1, <2>1 DEF Following
    <2>3. \A q \in Callers : Tracks(q)' <=> Tracks(q)
      BY <1>3 DEF Tracks
    <2>4. Tracks(p)
      BY DEF LookersSound, SoundProc, Tracks
    <2>5. \A q \in Callers : procs'[q].at = "connecting"
                                => clients'[procs'[q].client].of = leader'
      <3>1. ASSUME NEW q \in Callers, q # p, procs[q].at = "connecting"
            PROVE  procs[q].client \in ClientIds \ {n}
        BY <1>2, <3>1 DEF LookersSound, SoundProc, ProcType, ClientOrNone
      <3>2. QED
        BY <1>1, <1>3, <1>4, <2>2, <3>1 DEF FollowInv
    <2>6. QED
      BY <1>1, <1>3, <2>2, <2>3, <2>4, <2>5 DEF FollowInv
  <1>10. PartingInv'
    BY <1>1 DEF PartingInv
  <1>11. QED
    BY <1>5, <1>6, <1>7, <1>8, <1>9, <1>10

\* An answer, or none, comes to whom it was looked up for.
LEMMA ResultKeeps ==
    ASSUME ManagerInv, NEW p \in Callers, procs[p].at \in {"read", "ask"},
           NEW u \in LeaderOrNone, Result(p, u), UNCHANGED lookFrame,
           cached' \in {cached, u},
           Following => u \in {NoLeader, leader}
    PROVE  ManagerInv'
  <1>1. cached' \in LeaderOrNone /\ (Following => cached' \in {NoLeader, leader})
    BY DEF ManagerInv, TypeInv, FollowInv
  <1>2. CASE procs[p].waiting /\ u # NoLeader /\ Create(p, u)
    <2>1. /\ NewClient \in ClientIds /\ clients[NewClient].state = "none"
          /\ NewClient # NoClient /\ u \in Leaders /\ (Following => u = leader)
          /\ cached' \in {cached, u}
      BY <1>2, NewClientIsUnused DEF Create, LeaderOrNone
    <2>2. CASE u \in legacy
      BY <1>2, <2>1, <2>2, ConnectingKeeps DEF Create
    <2>3. CASE u \notin legacy
      <3>1. PICK n \in ClientIds : n = NewClient
        BY <2>1
      <3>2. /\ clients' = [clients EXCEPT ![n] = [of |-> u, state |-> "open"]]
            /\ Obtain(p, n, u) /\ tangled' = tangled
        BY <1>2, <2>3, <3>1 DEF Create
      <3>3. /\ clients' \in [ClientIds -> ClientType]
            /\ clients'[n].of = u /\ clients'[n].state = "open"
            /\ \A c \in ClientIds \ {n} : clients'[c] = clients[c]
        BY <3>2 DEF ManagerInv, TypeInv, ClientType
      <3>4. procs[p].client \in {NoClient, n}
        BY DEF ManagerInv, LookersSound, SoundProc
      <3>5. UNCHANGED <<lookFrame, tangled>>
        BY <3>2
      <3>6. QED
        BY <1>2, <2>1, <3>2, <3>3, <3>4, <3>5, ObtainKeeps
    <2>4. QED
      BY <2>2, <2>3
  <1>3. CASE /\ procs[p].waiting /\ u = NoLeader
             /\ procs' = [procs EXCEPT ![p].at = "pause"]
             /\ UNCHANGED <<clients, kvClient, webdav, watching, boot, writer, tangled>>
    <2> DEFINE new == [procs[p] EXCEPT !.at = "pause"]
    <2>1. procs[p] \in ProcType /\ procs[p].client = NoClient
      BY DEF ManagerInv, TypeInv, LookersSound, SoundProc
    <2>2. /\ new \in ProcType /\ new.at = "pause" /\ new.kind = procs[p].kind
          /\ new.waiting = procs[p].waiting /\ new.client = NoClient
      BY <2>1 DEF ProcType
    <2>3. procs' = [procs EXCEPT ![p] = new]
      BY <1>3
    <2>4. cached' \in {NoLeader, cached}
      BY <1>3
    <2> HIDE DEF new
    <2>5. QED
      BY <1>1, <1>3, <2>2, <2>3, <2>4, LookGoesOn
  <1>4. CASE procs[p].kind = "event" /\ ~procs[p].waiting /\ Notify(p)
    BY <1>1, <1>4, NotifyKeeps
  <1>5. CASE /\ procs[p].kind = "request" /\ ToIdle(p)
             /\ UNCHANGED <<clients, kvClient, webdav, watching, boot, writer, tangled>>
    <2>1. ~procs[p].waiting
      BY <1>5 DEF ManagerInv, LookersSound, SoundProc
    <2>2. QED
      BY <1>1, <1>5, <2>1, LookOver
  <1>6. QED
    BY <1>2, <1>3, <1>4, <1>5 DEF Result


\* What a failure leaves as it is.
failureFrame == <<entry, timer, writer, leader, legacy, unheard, watching, cached, kvClient,
                  webdav, handed, started, stopping, shuttingDown, parting, tangled>>

\* The client in hand is given up, or is not closed after all; the others are as they were.
InHandLost(p) ==
    \A c \in ClientIds :
       IF c = procs[p].client
       THEN /\ clients'[c].state # "none"
            /\ procs[p].waiting => clients'[c].state \notin {"connecting", "open"}
            /\ ~procs[p].waiting => clients'[c].state \in {clients[c].state, "cut off"}
       ELSE clients'[c] = clients[c]

\* start() or a reconnect fails: what it had in hand is lost, or still the manager's.
LEMMA FailureKeeps ==
    ASSUME ManagerInv, NEW p \in Callers, Busy(p), Failed(p),
           clients' \in [ClientIds -> ClientType], InHandLost(p), UNCHANGED failureFrame
    PROVE  ManagerInv'
  <1> USE DEF ManagerInv
  <1>1. /\ procs'[p] = IdleProc /\ \A q \in Callers \ {p} : procs'[q] = procs[q]
        /\ procs' \in [Callers -> ProcType] /\ doubt' = TRUE
        /\ boot' = IF p = Starter THEN "broken" ELSE boot
    BY DEF TypeInv, Failed, ToIdle, IdleProc, ProcType, LeaderOrNone, ClientOrNone
  <1>2. /\ kvClient' = kvClient /\ stopping' = stopping /\ tangled' = tangled
        /\ started' = started /\ shuttingDown' = shuttingDown /\ entry' = entry
        /\ timer' = timer /\ writer' = writer /\ leader' = leader /\ legacy' = legacy
        /\ unheard' = unheard /\ watching' = watching /\ cached' = cached
        /\ webdav' = webdav /\ handed' = handed /\ parting' = parting
    BY DEF failureFrame
  <1>3. TypeInv'
    <2>1. /\ watching' \in BOOLEAN /\ timer' \in BOOLEAN /\ started' \in BOOLEAN
          /\ shuttingDown' \in BOOLEAN /\ doubt' \in BOOLEAN /\ tangled' \in BOOLEAN
      BY <1>1, <1>2, Zenon DEF TypeInv
    <2>2. QED
      BY <1>1, <1>2, <2>1 DEF TypeInv
  <1>4. \A c \in ClientIds : clients[c].state # "none" => clients'[c].state # "none"
    BY DEF InHandLost
  <1>5. LookersSound'
    <2>1. /\ kvClient' # NoClient => clients'[kvClient'].state # "none"
          /\ stopping'.client # NoClient => clients'[stopping'.client].state # "none"
      BY <1>2, <1>4 DEF LookersSound, SoundProc, TypeInv, StopType, ClientOrNone
    <2>2. \A q \in Callers : procs[q].client \in ClientOrNone
      BY DEF TypeInv, ProcType
    <2>3. QED
      BY <1>1, <1>4, <2>1, <2>2 DEF LookersSound, SoundProc, IdleProc, ClientOrNone, Busy
  <1>6. BootSound'
    BY <1>1, <1>2 DEF BootSound, IdleProc, Busy, Callers
  <1>7. AccountedInv'
    <2>1. SUFFICES ASSUME ~tangled
                   PROVE  /\ \A q, r \in Callers : Active(q)' /\ Active(r)' => q = r
                          /\ \A q \in Callers : procs'[q].waiting => kvClient' = NoClient
                          /\ \A q \in Callers :
                                procs'[q].at = "closing" => procs'[q].client = kvClient'
                          /\ stopping'.at = "closing" => stopping'.client = kvClient'
                          /\ shuttingDown' => \A q \in Callers : ~Active(q)'
                          /\ InUse'
      BY <1>2 DEF AccountedInv
    <2>2. \A q \in Callers : Active(q)' => Active(q)
      BY <1>1 DEF Active, Busy, IdleProc
    <2>3. /\ \A q, r \in Callers : Active(q)' /\ Active(r)' => q = r
          /\ shuttingDown' => \A q \in Callers : ~Active(q)'
      BY <1>2, <2>1, <2>2, Zenon DEF AccountedInv
    <2>4. /\ \A q \in Callers : procs'[q].waiting => kvClient' = NoClient
          /\ \A q \in Callers : procs'[q].at = "closing" => procs'[q].client = kvClient'
      BY <1>1, <1>2, <2>1 DEF AccountedInv, IdleProc
    <2>5. stopping'.at = "closing" => stopping'.client = kvClient'
      BY <1>2, <2>1 DEF AccountedInv
    <2>6. InUse'
      <3>1. SUFFICES ASSUME NEW c \in ClientIds
                     PROVE  /\ clients'[c].state \in {"connecting", "open"} =>
                                  c = kvClient \/ \E q \in Callers : procs'[q].client = c
                            /\ c = kvClient => clients'[c].state \in {"open", "cut off"}
        BY <1>2 DEF InUse
      <3>2. /\ clients[c].state \in {"connecting", "open"} =>
                   c = kvClient \/ \E q \in Callers : procs[q].client = c
            /\ c = kvClient => clients[c].state \in {"open", "cut off"}
        BY <2>1 DEF AccountedInv, InUse
      <3>3. CASE c = procs[p].client
        <4>1. CASE procs[p].waiting
          <5>1. c # kvClient
            BY <2>1, <4>1, KVAssumption DEF AccountedInv, ClientIds, NoClient
          <5>2. QED
            BY <3>3, <4>1, <5>1 DEF InHandLost
        <4>2. CASE ~procs[p].waiting
          <5>1. procs[p].at = "closing" /\ c = kvClient
            BY <2>1, <3>3, <4>2, KVAssumption
               DEF AccountedInv, LookersSound, SoundProc, ClientIds, NoClient
          <5>2. QED
            BY <3>2, <3>3, <4>2, <5>1 DEF InHandLost
        <4>3. QED
          BY <4>1, <4>2
      <3>4. CASE c # procs[p].client
        <4>1. (\E q \in Callers : procs[q].client = c) => \E q \in Callers : procs'[q].client = c
          BY <1>1, <3>4
        <4>2. QED
          BY <3>2, <3>4, <4>1 DEF InHandLost
      <3>5. QED
        BY <3>3, <3>4
    <2>7. QED
      BY <2>3, <2>4, <2>5, <2>6
  <1>8. FollowInv'
    BY <1>1 DEF FollowInv, Following
  <1>9. PartingInv'
    BY <1>1, <1>2 DEF PartingInv, BootSound
  <1>10. QED
    BY <1>3, <1>5, <1>6, <1>7, <1>8, <1>9


\* reconnect() has closed the client there was.
LEMMA ClosedKeeps ==
    ASSUME ManagerInv, NEW p \in Callers, ReconnectClosed(p)
    PROVE  ManagerInv'
  <1> USE DEF ManagerInv
  <1> DEFINE c == procs[p].client
  <1>1. /\ procs[p].at = "closing" /\ ~procs[p].waiting /\ c \in ClientIds
        /\ clients[c].state # "none" /\ p # Starter /\ p \in Lookers
        /\ procs[p].kind = "event" /\ Active(p)
        /\ boot \notin {"down", "connecting"} /\ ~Busy(Starter)
    BY DEF ReconnectClosed, LookersSound, SoundProc, BootSound, Busy, TypeInv, ProcType, ClientOrNone,
           Callers, Active
  <1>2. /\ clients' = [clients EXCEPT ![c].state = "closed"] /\ kvClient' = NoClient
        /\ entry' = entry /\ writer' = writer /\ timer' = timer
        /\ leader' = leader /\ legacy' = legacy /\ unheard' = unheard
        /\ watching' = watching /\ cached' = cached /\ webdav' = webdav
        /\ handed' = handed /\ boot' = boot /\ started' = started /\ stopping' = stopping
        /\ shuttingDown' = shuttingDown /\ parting' = parting
        /\ doubt' = doubt /\ tangled' = tangled
    BY DEF ReconnectClosed, CloseResolves, registrationVars, leaderVars, lifeVars, ghostVars
  <1>3. /\ clients' \in [ClientIds -> ClientType]
        /\ clients'[c].state = "closed" /\ clients'[c].of = clients[c].of
        /\ \A d \in ClientIds \ {c} : clients'[d] = clients[d]
    BY <1>1, <1>2 DEF TypeInv, ClientType
  <1> HIDE DEF c
  <1>4. PICK new \in ProcType :
            /\ procs' = [procs EXCEPT ![p] = new]
            /\ new.client = NoClient
            /\ \/ shuttingDown /\ new = IdleProc
               \/ ~shuttingDown /\ new.kind = "event" /\ new.at = "read" /\ new.waiting
    <2>1. CASE shuttingDown
      <3>1. IdleProc \in ProcType /\ IdleProc.client = NoClient
        BY DEF IdleProc, ProcType, LeaderOrNone, ClientOrNone
      <3>2. procs' = [procs EXCEPT ![p] = IdleProc]
        BY <2>1 DEF ReconnectClosed, ToIdle
      <3>3. QED
        BY <2>1, <3>1, <3>2
    <2>2. CASE ~shuttingDown
      <3> DEFINE new == [procs[p] EXCEPT !.at = "read", !.waiting = TRUE, !.client = NoClient]
      <3>1. procs[p] \in ProcType
        BY DEF TypeInv
      <3>2. new \in ProcType /\ new.client = NoClient /\ new.kind = "event"
            /\ new.at = "read" /\ new.waiting
        BY <1>1, <3>1 DEF ProcType, ClientOrNone
      <3>3. procs' = [procs EXCEPT ![p] = new]
        BY <2>2 DEF ReconnectClosed
      <3>4. QED
        BY <2>2, <3>2, <3>3
    <2>3. QED
      BY <2>1, <2>2
  <1>5. /\ procs'[p] = new /\ \A q \in Callers \ {p} : procs'[q] = procs[q]
        /\ procs' \in [Callers -> ProcType]
    BY <1>4 DEF TypeInv
  <1>6. TypeInv'
    <2>1. /\ watching' \in BOOLEAN /\ timer' \in BOOLEAN /\ started' \in BOOLEAN
          /\ shuttingDown' \in BOOLEAN /\ doubt' \in BOOLEAN /\ tangled' \in BOOLEAN
      BY <1>2, Zenon DEF TypeInv
    <2>2. QED
      BY <1>2, <1>3, <1>5, <2>1 DEF TypeInv, ClientOrNone
  <1>7. \A d \in ClientIds : clients[d].state # "none" => clients'[d].state # "none"
    BY <1>1, <1>3
  <1>8. LookersSound'
    <2>1. stopping'.client # NoClient => clients'[stopping'.client].state # "none"
      BY <1>2, <1>7 DEF LookersSound, SoundProc, TypeInv, StopType, ClientOrNone
    <2>2. \A q \in Callers : procs[q].client \in ClientOrNone
      BY DEF TypeInv, ProcType
    <2>3. ASSUME NEW q \in Callers PROVE SoundProc(q)'
      <3>1. CASE q = p
        BY <1>1, <1>4, <1>5, <3>1 DEF SoundProc, IdleProc, Busy
      <3>2. CASE q # p
        <4>1. procs'[q] = procs[q] /\ SoundProc(q)
          BY <1>5, <3>2 DEF LookersSound, SoundProc
        <4>2. QED
          BY <1>7, <2>2, <4>1 DEF SoundProc, Busy, ClientOrNone
      <3>3. QED
        BY <3>1, <3>2
    <2>4. QED
      BY <1>2, <2>1, <2>3 DEF LookersSound, SoundProc
  <1>9. BootSound'
    BY <1>1, <1>2, <1>5 DEF BootSound, Busy, Callers
  <1>10. AccountedInv'
    <2>1. SUFFICES ASSUME ~tangled
                   PROVE  /\ \A q, r \in Callers : Active(q)' /\ Active(r)' => q = r
                          /\ \A q \in Callers : procs'[q].waiting => kvClient' = NoClient
                          /\ \A q \in Callers :
                                procs'[q].at = "closing" => procs'[q].client = kvClient'
                          /\ stopping'.at = "closing" => stopping'.client = kvClient'
                          /\ shuttingDown' => \A q \in Callers : ~Active(q)'
                          /\ InUse'
      BY <1>2 DEF AccountedInv
    <2>2. /\ c = kvClient /\ ~shuttingDown
          /\ \A q \in Callers \ {p} : ~Active(q)
      BY <1>1, <2>1 DEF AccountedInv, c
    <2>3. \A q \in Callers \ {p} : /\ ~Active(q)' /\ procs'[q].at # "closing"
                                   /\ procs[q].client = NoClient
      BY <1>5, <2>2 DEF Active, LookersSound, SoundProc, IdleProc, Busy
    <2>4. InUse'
      <3>1. \A d \in ClientIds : d # kvClient' /\ NoClient # d
        BY <1>2, KVAssumption DEF ClientIds, NoClient
      <3>2. \A d \in ClientIds \ {c} : ~ \E q \in Callers : procs[q].client = d
        BY <2>3, <3>1 DEF c
      <3>3. \A d \in ClientIds \ {c} : clients[d].state \notin {"connecting", "open"}
        BY <2>1, <2>2, <3>2 DEF AccountedInv, InUse
      <3>4. \A d \in ClientIds : clients'[d].state \notin {"connecting", "open"}
        BY <1>3, <3>3
      <3>5. QED
        BY <3>1, <3>4 DEF InUse
    <2>5. \A q \in Callers : procs'[q].waiting => kvClient' = NoClient
      BY <1>2
    <2>6. \A q \in Callers : procs'[q].at # "closing"
      BY <1>4, <1>5, <2>2, <2>3
    <2>7. stopping'.at # "closing" /\ ~shuttingDown'
      BY <1>2, <2>2 DEF BootSound
    <2>8. QED
      BY <2>3, <2>4, <2>5, <2>6, <2>7
  <1>11. FollowInv'
    <2>1. SUFFICES ASSUME Following'
                   PROVE  /\ cached' \in {NoLeader, leader'}
                          /\ \A q \in Callers : procs'[q].at = "ask" => procs'[q].of = leader'
                          /\ \A q \in Callers : procs'[q].at = "connecting"
                                => clients'[procs'[q].client].of = leader'
                          /\ \A q, r \in Callers : Tracks(q)' /\ Tracks(r)' => q = r
                          /\ \E q \in Callers : Tracks(q)'
      BY DEF FollowInv
    <2>2. Following /\ ~shuttingDown
      BY <1>2, <2>1 DEF Following
    <2>3. Tracks(p) /\ Tracks(p)' /\ \A q \in Callers : Tracks(q)' <=> Tracks(q)
      BY <1>1, <1>4, <1>5, <2>2 DEF Tracks
    <2>4. \A d \in ClientIds : clients'[d].of = clients[d].of
      BY <1>1, <1>3
    <2>5. \A q \in Callers : procs'[q].at = "connecting"
                                => clients'[procs'[q].client].of = leader'
      <3>1. ASSUME NEW q \in Callers, procs'[q].at = "connecting"
            PROVE  q # p /\ procs[q].at = "connecting" /\ procs[q].client \in ClientIds
        BY <1>4, <1>5, <2>2, <3>1 DEF LookersSound, SoundProc, TypeInv, ProcType, ClientOrNone
      <3>2. QED
        BY <1>2, <1>5, <2>2, <2>4, <3>1 DEF FollowInv
    <2>6. QED
      BY <1>2, <1>4, <1>5, <2>2, <2>3, <2>5 DEF FollowInv
  <1>12. PartingInv'
    BY <1>2 DEF PartingInv
  <1>13. QED
    BY <1>6, <1>8, <1>9, <1>10, <1>11, <1>12

-----------------------------------------------------------------------------
(* The steps of a look, a reconnect and start(). *)

\* waitForLeader() looks again.
LEMMA PollKeeps ==
    ASSUME ManagerInv, NEW p \in Callers, Poll(p)
    PROVE  ManagerInv'
  <1> DEFINE new == [procs[p] EXCEPT !.at = "read"]
  <1>1. procs[p] \in ProcType /\ procs[p].at = "pause" /\ procs[p].client = NoClient
    BY DEF ManagerInv, TypeInv, LookersSound, SoundProc, Poll
  <1>2. /\ new \in ProcType /\ new.at = "read" /\ new.kind = procs[p].kind
        /\ new.waiting = procs[p].waiting /\ new.client = NoClient
    BY <1>1 DEF ProcType
  <1>3. procs' = [procs EXCEPT ![p] = new]
    BY DEF Poll
  <1> HIDE DEF new
  <1>4. /\ UNCHANGED <<clients, kvClient, webdav, watching, boot, writer, tangled>>
        /\ UNCHANGED lookFrame /\ cached' = cached
    BY DEF Poll, registrationVars, leaderVars, clientVars, lifeVars, ghostVars, lookFrame
  <1>5. /\ cached \in LeaderOrNone /\ cached' \in LeaderOrNone /\ cached' \in {NoLeader, cached}
        /\ Following => cached' \in {NoLeader, leader}
    BY <1>4 DEF ManagerInv, TypeInv, FollowInv
  <1>6. QED
    BY <1>1, <1>2, <1>3, <1>4, <1>5, LookGoesOn

\* The file has been read: the leader is asked, or what the manager knows is the answer.
LEMMA ReadKeeps ==
    ASSUME ManagerInv, NEW p \in Callers, Read(p)
    PROVE  ManagerInv'
  <1>1. /\ procs[p] \in ProcType /\ procs[p].at = "read" /\ procs[p].client = NoClient
        /\ leader \in LeaderOrNone /\ cached \in LeaderOrNone
        /\ (Following => cached \in {NoLeader, leader})
    BY DEF ManagerInv, TypeInv, LookersSound, SoundProc, FollowInv, Read
  <1>2. UNCHANGED lookFrame /\ cached' = cached
    BY DEF Read
  <1>3. CASE leader # NoLeader /\ cached = NoLeader
    <2> DEFINE new == [procs[p] EXCEPT !.at = "ask", !.of = leader]
    <2>1. /\ new \in ProcType /\ new.at = "ask" /\ new.kind = procs[p].kind
          /\ new.waiting = procs[p].waiting /\ new.client = NoClient /\ new.of = leader
      BY <1>1 DEF ProcType
    <2>2. /\ procs' = [procs EXCEPT ![p] = new]
          /\ UNCHANGED <<clients, kvClient, webdav, watching, boot, writer, tangled>>
      BY <1>3 DEF Read
    <2> HIDE DEF new
    <2>3. QED
      BY <1>1, <1>2, <2>1, <2>2, LookGoesOn
  <1>4. CASE ~(leader # NoLeader /\ cached = NoLeader)
    <2>1. PICK u \in LeaderOrNone : u = IF leader = NoLeader THEN NoLeader ELSE cached
      BY <1>1
    <2>2. Result(p, u)
      BY <1>4, <2>1 DEF Read
    <2>3. Following => u \in {NoLeader, leader}
      BY <1>1, <2>1
    <2>4. QED
      BY <1>1, <1>2, <2>2, <2>3, ResultKeeps
  <1>5. QED
    BY <1>3, <1>4

\* The leader answers, ...
LEMMA AnswerKeeps ==
    ASSUME ManagerInv, NEW p \in Callers, Answer(p)
    PROVE  ManagerInv'
  <1>1. PICK u \in LeaderOrNone : u = procs[p].of
    BY DEF ManagerInv, TypeInv, ProcType
  <1>2. procs[p].at = "ask" /\ Result(p, u) /\ cached' = u /\ UNCHANGED lookFrame
    BY <1>1 DEF Answer
  <1>3. Following => u \in {NoLeader, leader}
    BY <1>1, <1>2 DEF ManagerInv, FollowInv
  <1>4. QED
    BY <1>2, <1>3, ResultKeeps

\* ... or does not.
LEMMA NoAnswerKeeps ==
    ASSUME ManagerInv, NEW p \in Callers, NoAnswer(p)
    PROVE  ManagerInv'
  <1>1. PICK u \in LeaderOrNone : u = NoLeader
    BY DEF LeaderOrNone
  <1>2. procs[p].at = "ask" /\ Result(p, u) /\ cached' = cached /\ UNCHANGED lookFrame
    BY <1>1 DEF NoAnswer
  <1>3. QED
    BY <1>1, <1>2, ResultKeeps

\* waitForLeader() gives up.
LEMMA GiveUpKeeps ==
    ASSUME ManagerInv, NEW p \in Callers, GiveUp(p)
    PROVE  ManagerInv'
  <1>1. procs[p].at = "pause" /\ procs[p].client = NoClient /\ clients' = clients
    BY DEF GiveUp, clientVars, ManagerInv, LookersSound, SoundProc
  <1>2. InHandLost(p)
    BY <1>1, KVAssumption DEF InHandLost, ClientIds, NoClient
  <1>3. UNCHANGED failureFrame
    BY DEF GiveUp, failureFrame, registrationVars, leaderVars, clientVars
  <1>4. Busy(p) /\ Failed(p) /\ clients' \in [ClientIds -> ClientType]
    BY <1>1 DEF Busy, GiveUp, ManagerInv, TypeInv
  <1>5. QED
    BY <1>2, <1>3, <1>4, FailureKeeps

\* The client has its connection, ...
LEMMA ConnectedKeeps ==
    ASSUME ManagerInv, NEW p \in Callers, Connected(p)
    PROVE  ManagerInv'
  <1>1. /\ procs[p] \in ProcType /\ procs[p].at = "connecting" /\ procs[p].waiting
        /\ procs[p].client \in ClientIds /\ cached \in LeaderOrNone
        /\ clients \in [ClientIds -> ClientType]
    BY DEF ManagerInv, TypeInv, ProcType, ClientOrNone, LookersSound, SoundProc, Connected
  <1>2. PICK n \in ClientIds : n = procs[p].client
    BY <1>1
  <1>3. PICK u \in LeaderOrNone : u = clients[n].of
    BY <1>1 DEF ClientType
  <1>4. /\ clients' = [clients EXCEPT ![n].state = "open"] /\ Obtain(p, n, u)
        /\ UNCHANGED lookFrame /\ UNCHANGED <<lookFrame, tangled>> /\ cached' = cached
    BY <1>2, <1>3 DEF Connected
  <1>5. /\ clients' \in [ClientIds -> ClientType]
        /\ clients'[n].of = u /\ clients'[n].state = "open"
        /\ \A c \in ClientIds \ {n} : clients'[c] = clients[c]
    BY <1>1, <1>3, <1>4 DEF ClientType
  <1>6. Following => u = leader
    BY <1>1, <1>2, <1>3 DEF ManagerInv, FollowInv
  <1>7. QED
    BY <1>1, <1>2, <1>4, <1>5, <1>6, ObtainKeeps

\* ... or goes on trying.
LEMMA ConnectFailsKeeps ==
    ASSUME ManagerInv, NEW p \in Callers, ConnectFails(p)
    PROVE  ManagerInv'
  <1>1. /\ procs[p] \in ProcType /\ procs[p].at = "connecting" /\ procs[p].waiting
        /\ procs[p].client \in ClientIds /\ clients \in [ClientIds -> ClientType]
        /\ clients' = [clients EXCEPT ![procs[p].client].state = "trying"]
    BY DEF ManagerInv, TypeInv, ProcType, ClientOrNone, LookersSound, SoundProc, ConnectFails
  <1>2. clients' \in [ClientIds -> ClientType] /\ InHandLost(p)
    BY <1>1 DEF InHandLost, ClientType
  <1>3. UNCHANGED failureFrame
    BY DEF ConnectFails, failureFrame, registrationVars, leaderVars
  <1>4. Busy(p) /\ Failed(p)
    BY <1>1 DEF Busy, ConnectFails
  <1>5. QED
    BY <1>2, <1>3, <1>4, FailureKeeps

\* A client that was given up has a connection after all.
LEMMA ConnectsLateKeeps ==
    ASSUME ManagerInv, NEW c \in ClientIds, ConnectsLate(c)
    PROVE  ManagerInv'
  <1> USE DEF ManagerInv
  <1>1. /\ entry' = entry /\ writer' = writer /\ timer' = timer /\ cached' = cached
        /\ leader' = leader /\ legacy' = legacy /\ unheard' = unheard /\ watching' = watching
        /\ procs' = procs /\ kvClient' = kvClient
        /\ webdav' = webdav /\ handed' = handed /\ boot' = boot /\ started' = started
        /\ stopping' = stopping /\ shuttingDown' = shuttingDown /\ parting' = parting
        /\ doubt' = doubt /\ tangled' = tangled
    BY DEF ConnectsLate, registrationVars, leaderVars, lifeVars, ghostVars
  <1>2. /\ clients \in [ClientIds -> ClientType] /\ clients[c].state = "trying"
        /\ clients' = [clients EXCEPT ![c].state = "open late"]
    BY DEF ConnectsLate, TypeInv
  <1>3. /\ clients' \in [ClientIds -> ClientType] /\ clients'[c].state = "open late"
        /\ \A d \in ClientIds : clients'[d].of = clients[d].of
        /\ \A d \in ClientIds \ {c} : clients'[d] = clients[d]
    BY <1>2 DEF ClientType
  <1>4. TypeInv'
    <2>1. /\ watching' \in BOOLEAN /\ timer' \in BOOLEAN /\ started' \in BOOLEAN
          /\ shuttingDown' \in BOOLEAN /\ tangled' \in BOOLEAN /\ doubt' \in BOOLEAN
      BY <1>1, Zenon DEF TypeInv
    <2>2. QED
      BY <1>1, <1>3, <2>1 DEF TypeInv
  <1>5. \A q \in Callers : procs[q].client \in ClientOrNone
    BY DEF TypeInv, ProcType
  <1>6. LookersSound'
    <2>1. \A d \in ClientIds : clients[d].state # "none" => clients'[d].state # "none"
      BY <1>3
    <2>2. \A q \in Callers : SoundProc(q)'
      BY <1>1, <1>5, <2>1 DEF LookersSound, SoundProc, Busy, ClientOrNone
    <2>3. /\ kvClient' # NoClient => clients'[kvClient'].state # "none"
          /\ stopping'.client # NoClient => clients'[stopping'.client].state # "none"
      BY <1>1, <2>1 DEF LookersSound, TypeInv, StopType, ClientOrNone
    <2>4. QED
      BY <2>2, <2>3 DEF LookersSound
  <1>7. BootSound' /\ PartingInv'
    BY <1>1 DEF BootSound, Busy, PartingInv
  <1>8. AccountedInv'
    <2>1. SUFFICES ASSUME ~tangled
                   PROVE  InUse'
      BY <1>1 DEF AccountedInv, Active, Busy
    <2>2. InUse
      BY <2>1 DEF AccountedInv
    <2>3. c # kvClient
      BY <1>2, <2>2 DEF InUse
    <2>4. QED
      BY <1>1, <1>3, <2>2, <2>3 DEF InUse
  <1>9. FollowInv'
    <2>1. /\ \A q \in Callers : procs[q].at = "connecting" => procs[q].client \in ClientIds
          /\ kvClient # NoClient => kvClient \in ClientIds
      BY <1>5 DEF LookersSound, SoundProc, ClientOrNone, TypeInv
    <2>2. QED
      BY <1>1, <1>3, <2>1 DEF FollowInv, Following, Tracks
  <1>10. QED
    BY <1>4, <1>6, <1>7, <1>8, <1>9

\* A close() that rejects leaves the client open, or cuts it off.
LEMMA RejectedCloseKeeps ==
    ASSUME NEW c \in ClientIds, CloseRejects(c), clients \in [ClientIds -> ClientType],
           clients[c].state # "none"
    PROVE  /\ clients' \in [ClientIds -> ClientType] /\ clients'[c].state # "none"
           /\ clients'[c].state \in {clients[c].state, "cut off"}
           /\ \A d \in ClientIds : clients'[d].of = clients[d].of
           /\ \A d \in ClientIds \ {c} : clients'[d] = clients[d]
  <1>1. CASE clients' = clients
    BY <1>1
  <1>2. CASE clients' = [clients EXCEPT ![c].state = "cut off"]
    <2> DEFINE new == [clients[c] EXCEPT !.state = "cut off"]
    <2>1. clients' = [clients EXCEPT ![c] = new]
      BY <1>2
    <2>2. new \in ClientType /\ new.of = clients[c].of /\ new.state = "cut off"
      <3>1. clients[c] \in ClientType
        OBVIOUS
      <3>2. QED
        BY <3>1 DEF ClientType
    <2> HIDE DEF new
    <2>3. clients' \in [ClientIds -> ClientType]
      BY <2>1, <2>2
    <2>4. clients'[c] = new /\ \A d \in ClientIds \ {c} : clients'[d] = clients[d]
      BY <2>1
    <2>5. QED
      BY <2>2, <2>3, <2>4
  <1>3. QED
    BY <1>1, <1>2 DEF CloseRejects

\* The rejection ends the reconnect.
LEMMA AbortedKeeps ==
    ASSUME ManagerInv, NEW p \in Callers, ReconnectAborted(p)
    PROVE  ManagerInv'
  <1>1. /\ procs[p].at = "closing" /\ ~procs[p].waiting /\ p # Starter
        /\ procs[p].client \in ClientIds /\ clients[procs[p].client].state # "none"
        /\ clients \in [ClientIds -> ClientType]
    BY DEF ManagerInv, TypeInv, ProcType, ClientOrNone, LookersSound, SoundProc, Busy,
           ReconnectAborted
  <1>2. CloseRejects(procs[p].client)
    BY DEF ReconnectAborted
  <1>3. clients' \in [ClientIds -> ClientType] /\ InHandLost(p)
    BY <1>1, <1>2, RejectedCloseKeeps DEF InHandLost
  <1>4. UNCHANGED failureFrame
    BY DEF ReconnectAborted, failureFrame, registrationVars, leaderVars, lifeVars
  <1>5. Busy(p) /\ Failed(p)
    BY <1>1 DEF Busy, ReconnectAborted, Failed, lifeVars
  <1>6. QED
    BY <1>3, <1>4, <1>5, FailureKeeps

-----------------------------------------------------------------------------
(* The leader changes, and looks begin. *)

\* The leader changes: a watcher will report it, or the change may have been missed.
LEMMA NewLeaderKeeps ==
    ASSUME ManagerInv, NewLeader
    PROVE  ManagerInv'
  <1> USE DEF ManagerInv
  <1>1. /\ entry' = entry /\ writer' = writer /\ timer' = timer
        /\ legacy' = legacy /\ watching' = watching /\ cached' = cached
        /\ procs' = procs /\ clients' = clients /\ kvClient' = kvClient
        /\ webdav' = webdav /\ handed' = handed /\ boot' = boot /\ started' = started
        /\ stopping' = stopping /\ shuttingDown' = shuttingDown /\ parting' = parting
        /\ tangled' = tangled /\ leader' \in LeaderOrNone
    BY DEF NewLeader, registrationVars, clientVars, lifeVars, LeaderOrNone
  <1>2. /\ unheard' \in Nat /\ (watching => unheard' > 0) /\ (~watching => unheard' = unheard)
        /\ doubt' = (doubt \/ (Running /\ ~watching
                                /\ procs[Starter].at \notin {"read", "pause"}))
    BY DEF NewLeader, TypeInv
  <1>3. TypeInv'
    <2>1. /\ watching' \in BOOLEAN /\ timer' \in BOOLEAN /\ started' \in BOOLEAN
          /\ shuttingDown' \in BOOLEAN /\ tangled' \in BOOLEAN /\ doubt' \in BOOLEAN
      BY <1>1, <1>2, Zenon DEF TypeInv
    <2>2. QED
      BY <1>1, <1>2, <2>1 DEF TypeInv
  <1>4. LookersSound'
    BY <1>1 DEF LookersSound, SoundProc, Busy
  <1>5. BootSound'
    BY <1>1, <1>2 DEF BootSound, Busy, TypeInv
  <1>6. AccountedInv'
    BY <1>1 DEF AccountedInv, InUse, Active, Busy
  <1>7. FollowInv'
    <2>1. SUFFICES ASSUME Following'
                   PROVE  /\ cached = NoLeader
                          /\ \A q \in Callers : procs[q].at \notin {"ask", "connecting"}
                          /\ \A q, r \in Callers : Tracks(q) /\ Tracks(r) => q = r
                          /\ \E q \in Callers : Tracks(q)
      BY <1>1 DEF FollowInv, Tracks
    <2>2. /\ boot = "connecting" /\ Busy(Starter)
          /\ procs[Starter].at \in {"read", "pause"}
      <3>1. unheard' = 0 /\ boot' \notin {"down", "broken"} /\ ~doubt'
        BY <2>1 DEF Following
      <3>2. ~watching /\ Running
        BY <1>1, <1>2, <3>1 DEF Running
      <3>3. procs[Starter].at \in {"read", "pause"}
        BY <1>2, <3>1, <3>2, Zenon
      <3>4. Busy(Starter)
        BY <3>3 DEF Busy
      <3>5. boot = "connecting"
        BY <3>4 DEF BootSound
      <3>6. QED
        BY <3>3, <3>4, <3>5
    <2>3. /\ Starter \in Callers /\ procs[Starter] \in ProcType
          /\ procs[Starter].kind = "start"
      BY <2>2 DEF LookersSound, SoundProc, Callers, TypeInv
    <2>5. \A q \in Lookers : procs[q] = IdleProc
      BY <2>2 DEF BootSound, LookersSound, SoundProc, Callers
    <2>6. cached = NoLeader
      BY <2>2 DEF BootSound
    <2>7. QED
      BY <2>2, <2>3, <2>5, <2>6 DEF Callers, Tracks, IdleProc
  <1>8. PartingInv'
    BY <1>1 DEF PartingInv
  <1>9. QED
    BY <1>3, <1>4, <1>5, <1>6, <1>7, <1>8

\* What the begin of a look leaves as it is.
beginFrame == <<registrationVars, leader, legacy, watching, clientVars, lifeVars, tangled>>

\* A look begins: nobody waits for it, and it has no client.
LEMMA LookBegins ==
    ASSUME ManagerInv, NEW p \in Lookers, ~Busy(p), boot \notin {"down", "connecting"},
           NEW new \in ProcType, new.kind \in {"event", "request"}, new.at = "read",
           ~new.waiting, new.client = NoClient,
           procs' = [procs EXCEPT ![p] = new],
           UNCHANGED beginFrame, cached' \in {cached, NoLeader},
           unheard' \in Nat, unheard' <= unheard, doubt' \in BOOLEAN,
           FollowInv'
    PROVE  ManagerInv'
  <1> USE DEF ManagerInv
  <1>1. /\ entry' = entry /\ writer' = writer /\ timer' = timer
        /\ leader' = leader /\ legacy' = legacy /\ watching' = watching
        /\ clients' = clients /\ kvClient' = kvClient
        /\ webdav' = webdav /\ handed' = handed /\ boot' = boot /\ started' = started
        /\ stopping' = stopping /\ shuttingDown' = shuttingDown /\ parting' = parting
        /\ tangled' = tangled
    BY DEF beginFrame, registrationVars, clientVars, lifeVars
  <1>2. /\ p \in Callers /\ p # Starter /\ procs[p] = IdleProc
        /\ procs'[p] = new /\ \A q \in Callers \ {p} : procs'[q] = procs[q]
        /\ procs' \in [Callers -> ProcType]
    BY KVAssumption DEF TypeInv, Callers, Starter, LookersSound, SoundProc
  <1>3. TypeInv'
    <2>1. /\ watching' \in BOOLEAN /\ timer' \in BOOLEAN /\ started' \in BOOLEAN
          /\ shuttingDown' \in BOOLEAN /\ tangled' \in BOOLEAN
      BY <1>1, Zenon DEF TypeInv
    <2>2. cached' \in LeaderOrNone
      BY DEF TypeInv, LeaderOrNone
    <2>3. QED
      BY <1>1, <1>2, <2>1, <2>2 DEF TypeInv
  <1>4. LookersSound'
    <2>1. ASSUME NEW q \in Callers PROVE SoundProc(q)'
      <3>1. CASE q = p
        BY <1>2, <3>1 DEF SoundProc, Busy
      <3>2. CASE q # p
        BY <1>1, <1>2, <3>2 DEF SoundProc, Busy, LookersSound
      <3>3. QED
        BY <3>1, <3>2
    <2>2. QED
      BY <1>1, <2>1 DEF LookersSound
  <1>5. BootSound'
    <2>1. unheard' > 0 => unheard > 0
      BY DEF TypeInv
    <2>2. Starter \in Callers /\ procs'[Starter] = procs[Starter]
      BY <1>2 DEF Callers
    <2>3. QED
      BY <1>1, <2>1, <2>2 DEF BootSound, Busy
  <1>6. AccountedInv'
    <2>1. /\ UNCHANGED <<clients, kvClient, tangled, stopping, shuttingDown>>
          /\ \A q \in Callers : Active(q)' <=> Active(q)
          /\ \A q \in Callers : procs'[q].waiting <=> procs[q].waiting
          /\ \A q \in Callers : procs'[q].at = "closing" <=> procs[q].at = "closing"
          /\ \A q \in Callers : procs'[q].client = procs[q].client
      BY <1>1, <1>2 DEF Active, Busy, IdleProc
    <2>2. QED
      BY <2>1, AccountedStays
  <1>7. PartingInv'
    BY <1>1 DEF PartingInv
  <1>8. QED
    BY <1>3, <1>4, <1>5, <1>6, <1>7

\* The watcher's callback: the leader is followed again if nothing else is under way.
LEMMA HearKeeps ==
    ASSUME ManagerInv, Hear
    PROVE  ManagerInv'
  <1> USE DEF ManagerInv
  <1>1. PICK p \in Lookers : p = FreeLooker /\ ~Busy(p) /\ p \in Callers
    BY FreeLookerIsFree DEF Hear
  <1>2. PICK new \in ProcType :
            /\ procs' = [procs EXCEPT ![p] = new]
            /\ new.kind = "event" /\ new.at = "read" /\ ~new.waiting /\ new.client = NoClient
    <2> DEFINE new == [IdleProc EXCEPT !.kind = "event", !.at = "read"]
    <2>1. /\ new \in ProcType /\ new.kind = "event" /\ new.at = "read"
          /\ ~new.waiting /\ new.client = NoClient
      BY DEF IdleProc, ProcType, LeaderOrNone, ClientOrNone
    <2>2. procs' = [procs EXCEPT ![p] = new]
      BY <1>1 DEF Hear
    <2>3. QED
      BY <2>1, <2>2
  <1>3. /\ UNCHANGED beginFrame /\ cached' = NoLeader
        /\ unheard' = unheard - 1 /\ doubt' = \E q \in Callers : Busy(q)
    BY DEF Hear, CacheAfterChange, beginFrame
  <1>4. /\ unheard' \in Nat /\ unheard' <= unheard /\ boot \notin {"down", "connecting"}
        /\ doubt' \in BOOLEAN
    BY <1>3 DEF Hear, TypeInv, BootSound
  <1>5. FollowInv'
    <2>1. SUFFICES ASSUME Following'
                   PROVE  /\ cached' = NoLeader
                          /\ \A q \in Callers : procs'[q].at \notin {"ask", "connecting"}
                          /\ \A q, r \in Callers : Tracks(q)' /\ Tracks(r)' => q = r
                          /\ \E q \in Callers : Tracks(q)'
      BY DEF FollowInv
    <2>2. \A q \in Callers : procs[q] = IdleProc
      BY <1>3, <2>1 DEF Following, LookersSound, SoundProc
    <2>3. procs'[p] = new /\ \A q \in Callers \ {p} : procs'[q] = IdleProc
      BY <1>1, <1>2, <2>2 DEF TypeInv
    <2>4. QED
      BY <1>1, <1>2, <1>3, <2>3 DEF Tracks, IdleProc
  <1>6. QED
    BY <1>1, <1>2, <1>3, <1>4, <1>5, LookBegins

\* GET /api/services.
LEMMA RequestKeeps ==
    ASSUME ManagerInv, Request
    PROVE  ManagerInv'
  <1> USE DEF ManagerInv
  <1>1. PICK p \in Lookers : p = FreeLooker /\ ~Busy(p) /\ p \in Callers
    BY FreeLookerIsFree DEF Request
  <1>2. PICK new \in ProcType :
            /\ procs' = [procs EXCEPT ![p] = new]
            /\ new.kind = "request" /\ new.at = "read" /\ ~new.waiting
            /\ new.client = NoClient
    <2> DEFINE new == [IdleProc EXCEPT !.kind = "request", !.at = "read"]
    <2>1. /\ new \in ProcType /\ new.kind = "request" /\ new.at = "read"
          /\ ~new.waiting /\ new.client = NoClient
      BY DEF IdleProc, ProcType, LeaderOrNone, ClientOrNone
    <2>2. procs' = [procs EXCEPT ![p] = new]
      BY <1>1 DEF Request
    <2>3. QED
      BY <2>1, <2>2
  <1>3. /\ UNCHANGED beginFrame /\ cached' = cached /\ unheard' = unheard /\ doubt' = doubt
        /\ boot \notin {"down", "connecting"} /\ doubt' \in BOOLEAN
        /\ unheard' \in Nat /\ unheard' <= unheard
        /\ leader' = leader /\ clients' = clients /\ kvClient' = kvClient
        /\ webdav' = webdav /\ boot' = boot /\ shuttingDown' = shuttingDown
    BY DEF Request, beginFrame, leaderVars, ghostVars, TypeInv, clientVars, lifeVars
  <1>4. procs'[p] = new /\ \A q \in Callers \ {p} : procs'[q] = procs[q]
    BY <1>1, <1>2 DEF TypeInv
  <1>5. FollowInv'
    <2>1. procs[p] = IdleProc
      BY <1>1 DEF LookersSound, SoundProc
    <2>2. \A q \in Callers : Tracks(q)' <=> Tracks(q)
      BY <1>2, <1>4, <2>1 DEF Tracks, IdleProc
    <2>3. /\ \A q \in Callers : procs'[q].at = "ask" => procs[q].at = "ask" /\ q # p
          /\ \A q \in Callers : procs'[q].at = "connecting" => procs[q].at = "connecting" /\ q # p
      BY <1>2, <1>4, <2>1
    <2>4. QED
      BY <1>3, <1>4, <2>2, <2>3 DEF FollowInv, Following
  <1>6. QED
    BY <1>1, <1>2, <1>3, <1>5, LookBegins

\* The answer of the last five seconds is forgotten.
LEMMA ExpireKeeps ==
    ASSUME ManagerInv, Expire
    PROVE  ManagerInv'
  <1> USE DEF ManagerInv
  <1>1. /\ entry' = entry /\ writer' = writer /\ timer' = timer /\ cached' = NoLeader
        /\ leader' = leader /\ legacy' = legacy /\ unheard' = unheard /\ watching' = watching
        /\ procs' = procs /\ clients' = clients /\ kvClient' = kvClient
        /\ webdav' = webdav /\ handed' = handed /\ boot' = boot /\ started' = started
        /\ stopping' = stopping /\ shuttingDown' = shuttingDown /\ parting' = parting
        /\ doubt' = doubt /\ tangled' = tangled
    BY DEF Expire, registrationVars, clientVars, lifeVars, ghostVars
  <1>2. TypeInv'
    <2>1. /\ watching' \in BOOLEAN /\ timer' \in BOOLEAN /\ started' \in BOOLEAN
          /\ shuttingDown' \in BOOLEAN /\ tangled' \in BOOLEAN /\ doubt' \in BOOLEAN
      BY <1>1, Zenon DEF TypeInv
    <2>2. cached' \in LeaderOrNone
      BY <1>1 DEF LeaderOrNone
    <2>3. QED
      BY <1>1, <2>1, <2>2 DEF TypeInv
  <1>3. LookersSound' /\ BootSound' /\ PartingInv'
    BY <1>1 DEF LookersSound, SoundProc, BootSound, PartingInv, Busy
  <1>4. AccountedInv' /\ FollowInv'
    BY <1>1 DEF AccountedInv, InUse, Active, Busy, FollowInv, Following, Tracks
  <1>5. QED
    BY <1>2, <1>3, <1>4

-----------------------------------------------------------------------------
(* The service's file, and the life of the process. *)

\* What the file and its heartbeat leave as it is.
connectionFrame == <<leader, legacy, unheard, watching, cached, procs, clients, kvClient, webdav,
                     shuttingDown, doubt, tangled>>

\* A step of the file alone, or of stop() once it has closed the client.
LEMMA ConnectionStays ==
    ASSUME ManagerInv, UNCHANGED connectionFrame, stopping'.client = stopping.client,
           stopping'.at = "closing" => stopping.at = "closing",
           Following' => Following
    PROVE  LookersSound' /\ AccountedInv' /\ FollowInv'
  <1> USE DEF ManagerInv
  <1>1. /\ leader' = leader /\ legacy' = legacy /\ unheard' = unheard /\ watching' = watching
        /\ cached' = cached /\ procs' = procs /\ clients' = clients
        /\ kvClient' = kvClient /\ webdav' = webdav /\ shuttingDown' = shuttingDown
        /\ doubt' = doubt /\ tangled' = tangled
    BY DEF connectionFrame
  <1>2. LookersSound'
    BY <1>1 DEF LookersSound, SoundProc, Busy
  <1>3. AccountedInv'
    BY <1>1 DEF AccountedInv, InUse, Active, Busy
  <1>4. FollowInv'
    BY <1>1 DEF FollowInv, Tracks
  <1>5. QED
    BY <1>2, <1>3, <1>4

\* The types, while the connection stays as it is.
LEMMA ConnectionTypes ==
    ASSUME TypeInv, UNCHANGED connectionFrame,
           entry' \in {"absent", "cut", "whole"}, timer' \in BOOLEAN,
           writer' \in {"idle", "read", "write", "writing", "lost"},
           handed' \in ClientOrNone, started' \in BOOLEAN, stopping' \in StopType,
           boot' \in {"down", "connecting", "registering", "ready", "broken"},
           parting' = parting
    PROVE  TypeInv'
  <1>1. /\ leader' = leader /\ legacy' = legacy /\ unheard' = unheard /\ watching' = watching
        /\ cached' = cached /\ procs' = procs /\ clients' = clients
        /\ kvClient' = kvClient /\ webdav' = webdav /\ shuttingDown' = shuttingDown
        /\ doubt' = doubt /\ tangled' = tangled
    BY DEF connectionFrame
  <1>2. /\ watching' \in BOOLEAN /\ shuttingDown' \in BOOLEAN
        /\ doubt' \in BOOLEAN /\ tangled' \in BOOLEAN
    BY <1>1, Zenon DEF TypeInv
  <1>3. QED
    BY <1>1, <1>2 DEF TypeInv

\* start() has registered the service, and index.ts goes on.
LEMMA RegisteredKeeps ==
    ASSUME ManagerInv, Registered
    PROVE  ManagerInv'
  <1> USE DEF ManagerInv
  <1>1. /\ boot = "registering" /\ timer' = TRUE /\ started' = TRUE /\ writer' = "idle"
        /\ entry' \in {entry, "whole"} /\ handed' = kvClient
        /\ boot' \in {"ready", "broken"}
        /\ stopping' = stopping /\ parting' = parting
    BY DEF Registered, WriteEnds
  <1>2. /\ UNCHANGED connectionFrame
        /\ leader' = leader /\ unheard' = unheard /\ watching' = watching
        /\ cached' = cached /\ procs' = procs /\ kvClient' = kvClient
        /\ shuttingDown' = shuttingDown /\ doubt' = doubt
    BY DEF Registered, connectionFrame, leaderVars, ghostVars
  <1>3. TypeInv'
    BY <1>1, <1>2, ConnectionTypes DEF TypeInv
  <1>4. ~shuttingDown /\ stopping.at = "no"
    BY <1>1 DEF BootSound
  <1>5. LookersSound' /\ AccountedInv' /\ FollowInv'
    BY <1>1, <1>2, ConnectionStays DEF Following
  <1>6. BootSound'
    BY <1>1, <1>2, <1>4 DEF BootSound, Busy
  <1>7. PartingInv'
    BY <1>1, <1>4 DEF PartingInv
  <1>8. QED
    BY <1>3, <1>5, <1>6, <1>7

\* The service could not be registered.
LEMMA NotRegisteredKeeps ==
    ASSUME ManagerInv, NotRegistered
    PROVE  ManagerInv'
  <1> USE DEF ManagerInv
  <1>1. /\ boot = "registering" /\ boot' = "broken" /\ timer' = timer /\ started' = started
        /\ writer' = "idle" /\ entry' = entry /\ handed' = handed
        /\ stopping' = stopping /\ parting' = parting
    BY DEF NotRegistered, WriteFails, clientVars
  <1>2. /\ UNCHANGED connectionFrame
        /\ unheard' = unheard /\ watching' = watching /\ cached' = cached
        /\ procs' = procs /\ kvClient' = kvClient /\ shuttingDown' = shuttingDown
    BY DEF NotRegistered, connectionFrame, leaderVars, ghostVars, clientVars
  <1>3. TypeInv'
    <2>1. timer' \in BOOLEAN /\ started' \in BOOLEAN
      BY <1>1, Zenon DEF TypeInv
    <2>2. QED
      BY <1>1, <1>2, <2>1, ConnectionTypes DEF TypeInv
  <1>4. LookersSound' /\ AccountedInv' /\ FollowInv'
    BY <1>1, <1>2, ConnectionStays DEF Following
  <1>5. BootSound'
    BY <1>1, <1>2 DEF BootSound, Busy
  <1>6. PartingInv'
    BY <1>1 DEF PartingInv
  <1>7. QED
    BY <1>3, <1>4, <1>5, <1>6

\* The heartbeat of a running service, and meta-core's removal of its file: nothing is
\* written once stop() has found the writer idle.
LEMMA FileStepKeeps ==
    ASSUME ManagerInv, timer' = timer,
           UNCHANGED <<leaderVars, procs, clientVars, lifeVars, ghostVars>>,
           \/ Tick \/ HeartbeatRead \/ WriteOpens
           \/ boot # "registering" /\ (WriteEnds \/ WriteFails)
           \/ entry # "absent" /\ Unlinked
    PROVE  ManagerInv'
  <1> USE DEF ManagerInv
  <1>1. /\ UNCHANGED connectionFrame
        /\ unheard' = unheard /\ watching' = watching /\ cached' = cached
        /\ procs' = procs /\ kvClient' = kvClient /\ shuttingDown' = shuttingDown
        /\ doubt' = doubt /\ handed' = handed /\ boot' = boot /\ started' = started
        /\ stopping' = stopping /\ parting' = parting
    BY DEF connectionFrame, leaderVars, ghostVars, clientVars, lifeVars
  <1>2. /\ entry' \in {"absent", "cut", "whole"}
        /\ writer' \in {"idle", "read", "write", "writing", "lost"}
    BY DEF TypeInv, Tick, HeartbeatRead, AfterRead, WriteOpens, WriteEnds, WriteFails, Unlinked
  <1>3. TypeInv'
    <2>1. timer' \in BOOLEAN /\ started' \in BOOLEAN
      BY <1>1, Zenon DEF TypeInv
    <2>2. QED
      BY <1>1, <1>2, <2>1, ConnectionTypes DEF TypeInv
  <1>4. LookersSound' /\ AccountedInv' /\ FollowInv'
    BY <1>1, ConnectionStays DEF Following
  <1>5. BootSound'
    BY <1>1 DEF BootSound, Busy
  <1>6. PartingInv'
    <2>1. ~timer /\ writer = "idle" => writer' = "idle" /\ entry' \in {entry, "absent"}
      BY DEF Tick, HeartbeatRead, WriteOpens, WriteEnds, WriteFails, Unlinked
    <2>2. QED
      BY <1>1, <2>1 DEF PartingInv
  <1>7. QED
    BY <1>3, <1>4, <1>5, <1>6

\* stop() unlinks the file, or fails to.
LEMMA UnlinkKeeps ==
    ASSUME ManagerInv, Unlink
    PROVE  ManagerInv'
  <1> USE DEF ManagerInv
  <1>1. /\ UNCHANGED connectionFrame
        /\ unheard' = unheard /\ watching' = watching /\ cached' = cached
        /\ procs' = procs /\ kvClient' = kvClient /\ shuttingDown' = shuttingDown
        /\ doubt' = doubt /\ handed' = handed /\ boot' = boot /\ started' = started
        /\ timer' = timer /\ parting' = parting
    BY DEF Unlink, connectionFrame, leaderVars, ghostVars, clientVars
  <1>2. /\ stopping.at = "unlink" /\ ~stopping.alone /\ ~timer /\ stopping \in StopType
        /\ boot # "down" /\ parting # "clean"
    BY DEF Unlink, PartingInv, TypeInv, BootSound
  <1>3. \/ /\ entry' = "absent" /\ writer' = (IF writer = "writing" THEN "lost" ELSE writer)
           /\ stopping' = [stopping EXCEPT !.at = "exit", !.alone = (writer = "idle")]
        \/ /\ entry' = entry /\ writer' = writer
           /\ stopping' = [stopping EXCEPT !.at = "exit"]
    BY DEF Unlink, Unlinked
  <1>4. /\ stopping' \in StopType /\ stopping'.at = "exit" /\ stopping'.client = stopping.client
        /\ stopping'.alone => entry' = "absent" /\ writer' = "idle"
    BY <1>2, <1>3 DEF StopType
  <1>5. TypeInv'
    <2>1. timer' \in BOOLEAN /\ started' \in BOOLEAN
      BY <1>1, Zenon DEF TypeInv
    <2>2. /\ entry' \in {"absent", "cut", "whole"}
          /\ writer' \in {"idle", "read", "write", "writing", "lost"}
      BY <1>3 DEF TypeInv
    <2>3. QED
      BY <1>1, <1>4, <2>1, <2>2, ConnectionTypes DEF TypeInv
  <1>6. LookersSound' /\ AccountedInv' /\ FollowInv'
    BY <1>1, <1>4, ConnectionStays DEF Following
  <1>7. BootSound'
    BY <1>1, <1>2 DEF BootSound, Busy
  <1>8. PartingInv'
    BY <1>1, <1>2, <1>4 DEF PartingInv
  <1>9. QED
    BY <1>5, <1>6, <1>7, <1>8

\* The process ends: what holds of a process that is down.
LEMMA GoneKeeps ==
    ASSUME ManagerInv, NEW how \in {"clean", "other"}, Gone(how),
           how = "clean" => entry = "absent"
    PROVE  ManagerInv'
  <1> USE DEF ManagerInv
  <1>1. /\ boot' = "down" /\ started' = FALSE /\ stopping' = NoStop
        /\ shuttingDown' = FALSE /\ parting' = how /\ doubt' = FALSE /\ tangled' = FALSE
        /\ writer' = "idle" /\ timer' = FALSE /\ unheard' = 0 /\ watching' = FALSE
        /\ cached' = NoLeader /\ kvClient' = NoClient /\ webdav' = NoLeader
        /\ handed' = NoClient /\ entry' = entry /\ leader' = leader /\ legacy' = legacy
        /\ procs' = [p \in Callers |-> IdleProc] /\ clients' = NoClients
    BY DEF Gone
  <1>2. /\ procs' \in [Callers -> ProcType] /\ \A q \in Callers : procs'[q] = IdleProc
        /\ clients' \in [ClientIds -> ClientType]
        /\ \A c \in ClientIds : clients'[c].state = "none"
    BY <1>1 DEF IdleProc, ProcType, LeaderOrNone, ClientOrNone, NoClients, ClientType
  <1>3. stopping' \in StopType /\ stopping'.at = "no" /\ stopping'.client = NoClient
        /\ ~stopping'.alone
    BY <1>1 DEF NoStop, StopType, ClientOrNone
  <1>4. \A c \in ClientIds : c # NoClient
    BY KVAssumption DEF ClientIds, NoClient
  <1>5. TypeInv'
    <2>1. /\ timer' \in BOOLEAN /\ started' \in BOOLEAN /\ shuttingDown' \in BOOLEAN
          /\ watching' \in BOOLEAN /\ doubt' \in BOOLEAN /\ tangled' \in BOOLEAN
      BY <1>1
    <2>2. /\ leader' \in LeaderOrNone /\ cached' \in LeaderOrNone /\ webdav' \in LeaderOrNone
          /\ kvClient' \in ClientOrNone /\ handed' \in ClientOrNone
      BY <1>1 DEF TypeInv, LeaderOrNone, ClientOrNone
    <2>3. QED
      BY <1>1, <1>2, <1>3, <2>1, <2>2 DEF TypeInv
  <1>6. LookersSound'
    BY <1>1, <1>2, <1>3 DEF LookersSound, SoundProc, IdleProc, Busy
  <1>7. BootSound'
    BY <1>1, <1>2, <1>3 DEF BootSound, IdleProc, Busy, Callers
  <1>8. AccountedInv'
    BY <1>1, <1>2, <1>3, <1>4
       DEF AccountedInv, InUse, IdleProc, Busy, Active
  <1>9. FollowInv'
    BY <1>1 DEF FollowInv, Following
  <1>10. PartingInv'
    BY <1>1, <1>3 DEF PartingInv
  <1>11. QED
    BY <1>5, <1>6, <1>7, <1>8, <1>9, <1>10

\* The process starts.
LEMMA StartUpKeeps ==
    ASSUME ManagerInv, StartUp
    PROVE  ManagerInv'
  <1> USE DEF ManagerInv
  <1>1. /\ boot = "down" /\ boot' = "connecting" /\ parting' = "none"
        /\ entry' = entry /\ writer' = writer /\ timer' = timer
        /\ leader' = leader /\ legacy' = legacy /\ unheard' = unheard /\ watching' = watching
        /\ cached' = cached /\ clients' = clients /\ kvClient' = kvClient
        /\ webdav' = webdav /\ handed' = handed /\ started' = started
        /\ stopping' = stopping /\ shuttingDown' = shuttingDown
        /\ doubt' = doubt /\ tangled' = tangled
    BY DEF StartUp, registrationVars, leaderVars, clientVars, ghostVars
  <1>2. PICK new \in ProcType :
            /\ procs' = [procs EXCEPT ![Starter] = new]
            /\ new.kind = "start" /\ new.at = "read" /\ new.waiting /\ new.client = NoClient
    <2> DEFINE new == [IdleProc EXCEPT !.kind = "start", !.at = "read", !.waiting = TRUE]
    <2>1. /\ new \in ProcType /\ new.kind = "start" /\ new.at = "read"
          /\ new.waiting /\ new.client = NoClient
      BY DEF IdleProc, ProcType, LeaderOrNone, ClientOrNone
    <2>2. procs' = [procs EXCEPT ![Starter] = new]
      BY DEF StartUp
    <2>3. QED
      BY <2>1, <2>2
  <1>3. /\ \A q \in Callers : procs[q] = IdleProc
        /\ kvClient = NoClient /\ ~watching /\ ~started /\ ~shuttingDown
        /\ stopping.at = "no" /\ cached = NoLeader /\ unheard = 0
    BY <1>1 DEF BootSound, LookersSound, SoundProc, Callers, TypeInv
  <1>4. /\ procs'[Starter] = new /\ \A q \in Callers \ {Starter} : procs'[q] = IdleProc
        /\ procs' \in [Callers -> ProcType] /\ Starter \notin Lookers
    BY <1>2, <1>3, KVAssumption DEF TypeInv, Callers, Starter
  <1>5. TypeInv'
    <2>1. /\ watching' \in BOOLEAN /\ timer' \in BOOLEAN /\ started' \in BOOLEAN
          /\ shuttingDown' \in BOOLEAN /\ tangled' \in BOOLEAN /\ doubt' \in BOOLEAN
      BY <1>1, Zenon DEF TypeInv
    <2>2. QED
      BY <1>1, <1>4, <2>1 DEF TypeInv
  <1>6. LookersSound'
    <2>1. ASSUME NEW q \in Callers PROVE SoundProc(q)'
      <3>1. CASE q = Starter
        BY <1>2, <1>4, <3>1 DEF SoundProc, Busy
      <3>2. CASE q # Starter
        BY <1>4, <3>2 DEF SoundProc, Busy, IdleProc
      <3>3. QED
        BY <3>1, <3>2
    <2>2. QED
      BY <1>1, <2>1 DEF LookersSound
  <1>7. BootSound'
    BY <1>1, <1>2, <1>3, <1>4 DEF BootSound, IdleProc, Busy, Callers
  <1>8. AccountedInv'
    <2>1. SUFFICES ASSUME ~tangled
                   PROVE  /\ \A q, r \in Callers : Active(q)' /\ Active(r)' => q = r
                          /\ \A q \in Callers : procs'[q].waiting => kvClient' = NoClient
                          /\ \A q \in Callers :
                                procs'[q].at = "closing" => procs'[q].client = kvClient'
                          /\ stopping'.at = "closing" => stopping'.client = kvClient'
                          /\ shuttingDown' => \A q \in Callers : ~Active(q)'
                          /\ InUse'
      BY <1>1 DEF AccountedInv
    <2>2. InUse'
      <3>1. \A c \in ClientIds : c # NoClient
        BY KVAssumption DEF ClientIds, NoClient
      <3>2. \A c \in ClientIds : ~ \E q \in Callers : procs[q].client = c
        BY <1>3, <3>1 DEF IdleProc
      <3>3. \A c \in ClientIds : clients[c].state \notin {"connecting", "open"}
        BY <1>3, <2>1, <3>1, <3>2 DEF AccountedInv, InUse
      <3>4. QED
        BY <1>1, <1>3, <3>1, <3>3 DEF InUse
    <2>3. \A q \in Callers \ {Starter} : ~Active(q)'
      BY <1>4 DEF Active, Busy, IdleProc
    <2>4. QED
      BY <1>1, <1>2, <1>3, <1>4, <2>2, <2>3 DEF IdleProc
  <1>9. FollowInv'
    <2>1. Starter \in Callers
      BY DEF Callers
    <2>2. \A q \in Callers : /\ procs'[q].at \notin {"ask", "connecting"}
                             /\ Tracks(q)' <=> q = Starter
      BY <1>2, <1>4 DEF Tracks, IdleProc
    <2>3. QED
      BY <1>1, <1>3, <2>1, <2>2 DEF FollowInv
  <1>10. PartingInv'
    BY <1>1 DEF PartingInv
  <1>11. QED
    BY <1>5, <1>6, <1>7, <1>8, <1>9, <1>10

\* What the steps of stop() leave as it is.
stopFrame == <<entry, writer, leader, legacy, cached, procs, webdav, handed, boot, started,
               parting, doubt>>

\* stop() begins: no reconnect is under way, or it is tangled with one.
LEMMA StopBegins ==
    ASSUME ManagerInv, Signal, started, shuttingDown'
    PROVE  ManagerInv'
  <1> USE DEF ManagerInv
  <1>1. /\ UNCHANGED stopFrame /\ clients' = clients /\ kvClient' = kvClient
        /\ watching' = FALSE /\ unheard' = 0 /\ shuttingDown' = TRUE
        /\ tangled' = (tangled \/ \E p \in Callers : Reconnecting(p))
        /\ IF kvClient # NoClient
           THEN stopping' = [NoStop EXCEPT !.at = "closing", !.client = kvClient]
                /\ timer' = timer
           ELSE GoOnToUnlink
    BY DEF Signal, Gone, stopFrame, clientVars
  <1>2. /\ entry' = entry /\ writer' = writer /\ leader' = leader /\ legacy' = legacy
        /\ cached' = cached /\ procs' = procs /\ webdav' = webdav /\ handed' = handed
        /\ boot' = boot /\ started' = started /\ parting' = parting /\ doubt' = doubt
    BY <1>1 DEF stopFrame
  <1>3. \/ /\ kvClient # NoClient /\ stopping'.at = "closing" /\ stopping'.client = kvClient
           /\ stopping' \in StopType /\ ~stopping'.alone /\ timer' = timer
        \/ /\ kvClient = NoClient /\ stopping'.at = "unlink" /\ stopping'.client = NoClient
           /\ stopping' \in StopType /\ ~stopping'.alone /\ timer' = FALSE
    <2>1. CASE kvClient # NoClient
      <3>1. stopping' = [at |-> "closing", client |-> kvClient, alone |-> FALSE]
        BY <1>1, <2>1 DEF NoStop
      <3>2. timer' = timer /\ kvClient \in ClientOrNone
        BY <1>1, <2>1 DEF TypeInv
      <3>3. QED
        BY <2>1, <3>1, <3>2 DEF StopType
    <2>2. CASE kvClient = NoClient
      <3>1. /\ stopping' = [at |-> "unlink", client |-> NoClient, alone |-> FALSE]
            /\ timer' = FALSE
        BY <1>1, <2>2 DEF GoOnToUnlink, Unregister
      <3>2. QED
        BY <2>2, <3>1 DEF StopType, ClientOrNone
    <2>3. QED
      BY <2>1, <2>2
  <1>4. /\ boot \in {"ready", "broken"} /\ ~Busy(Starter)
        /\ stopping.at = "no" /\ parting # "clean"
    BY DEF BootSound, Signal, PartingInv
  <1>5. TypeInv'
    <2>1. /\ timer' \in BOOLEAN /\ started' \in BOOLEAN /\ shuttingDown' \in BOOLEAN
          /\ doubt' \in BOOLEAN /\ tangled' \in BOOLEAN /\ watching' \in BOOLEAN
      BY <1>1, <1>2, <1>3, Zenon DEF TypeInv
    <2>2. QED
      BY <1>1, <1>2, <1>3, <2>1 DEF TypeInv
  <1>6. LookersSound'
    BY <1>1, <1>2, <1>3 DEF LookersSound, SoundProc, Busy
  <1>7. BootSound'
    BY <1>1, <1>2, <1>4 DEF BootSound, Busy
  <1>8. AccountedInv'
    <2>1. SUFFICES ASSUME ~tangled'
                   PROVE  /\ \A q, r \in Callers : Active(q) /\ Active(r) => q = r
                          /\ \A q \in Callers : procs[q].waiting => kvClient = NoClient
                          /\ \A q \in Callers :
                                procs[q].at = "closing" => procs[q].client = kvClient
                          /\ stopping'.at = "closing" => stopping'.client = kvClient
                          /\ \A q \in Callers : ~Active(q)
                          /\ InUse
      BY <1>1, <1>2 DEF AccountedInv, InUse, Active, Busy
    <2>2. ~tangled /\ \A q \in Callers : ~Reconnecting(q)
      BY <1>1, <2>1, Zenon
    <2>3. \A q \in Callers : ~Active(q)
      BY <1>4, <2>2 DEF Reconnecting, Active
    <2>4. QED
      BY <1>3, <2>2, <2>3 DEF AccountedInv
  <1>9. FollowInv'
    BY <1>1 DEF FollowInv, Following
  <1>10. PartingInv'
    BY <1>2, <1>3, <1>4 DEF PartingInv
  <1>11. QED
    BY <1>5, <1>6, <1>7, <1>8, <1>9, <1>10

\* The signal ends a process that has not started, and begins stop() otherwise.
LEMMA SignalKeeps ==
    ASSUME ManagerInv, Signal
    PROVE  ManagerInv'
  <1>1. CASE Gone("other")
    BY <1>1, GoneKeeps
  <1>2. CASE started /\ shuttingDown'
    BY <1>2, StopBegins
  <1>3. QED
    BY <1>1, <1>2 DEF Signal

\* stop() has closed its client, and goes on to the file.
LEMMA StopClosedKeeps ==
    ASSUME ManagerInv, StopClosed
    PROVE  ManagerInv'
  <1> USE DEF ManagerInv
  <1>1. PICK c \in ClientIds : c = stopping.client /\ clients[c].state # "none"
    <2>1. stopping.at = "closing" /\ ~HttpOnly(stopping.client) /\ stopping \in StopType
      BY DEF StopClosed, CloseResolves, TypeInv
    <2>2. stopping.client # NoClient
      BY <2>1 DEF PartingInv
    <2>3. QED
      BY <2>1, <2>2 DEF StopType, ClientOrNone, LookersSound
  <1>2. /\ clients' = [clients EXCEPT ![c].state = "closed"] /\ kvClient' = NoClient
        /\ UNCHANGED stopFrame /\ unheard' = unheard /\ watching' = watching
        /\ shuttingDown' = shuttingDown /\ tangled' = tangled /\ timer' = FALSE
        /\ stopping' = [at |-> "unlink", client |-> NoClient, alone |-> FALSE]
        /\ stopping.at = "closing"
    BY <1>1 DEF StopClosed, CloseResolves, GoOnToUnlink, Unregister, stopFrame, leaderVars,
                ghostVars
  <1>3. /\ entry' = entry /\ writer' = writer /\ leader' = leader /\ legacy' = legacy
        /\ cached' = cached /\ procs' = procs /\ webdav' = webdav /\ handed' = handed
        /\ boot' = boot /\ started' = started /\ parting' = parting /\ doubt' = doubt
    BY <1>2 DEF stopFrame
  <1>4. /\ clients' \in [ClientIds -> ClientType] /\ clients'[c].state = "closed"
        /\ \A d \in ClientIds \ {c} : clients'[d] = clients[d]
    BY <1>2 DEF TypeInv, ClientType
  <1>5. /\ stopping' \in StopType /\ stopping'.at = "unlink" /\ stopping'.client = NoClient
        /\ ~stopping'.alone
    BY <1>2 DEF StopType, ClientOrNone
  <1>6. shuttingDown /\ boot # "down"
    BY <1>2 DEF BootSound
  <1>7. TypeInv'
    <2>1. /\ timer' \in BOOLEAN /\ started' \in BOOLEAN /\ shuttingDown' \in BOOLEAN
          /\ doubt' \in BOOLEAN /\ tangled' \in BOOLEAN /\ watching' \in BOOLEAN
      BY <1>2, <1>3, Zenon DEF TypeInv
    <2>2. QED
      BY <1>2, <1>3, <1>4, <1>5, <2>1 DEF TypeInv, ClientOrNone
  <1>8. LookersSound'
    <2>1. \A d \in ClientIds : clients[d].state # "none" => clients'[d].state # "none"
      BY <1>4
    <2>2. \A q \in Callers : procs[q].client \in ClientOrNone
      BY DEF TypeInv, ProcType
    <2>3. \A q \in Callers : SoundProc(q)'
      BY <1>3, <2>1, <2>2 DEF LookersSound, SoundProc, Busy, ClientOrNone
    <2>4. QED
      BY <1>2, <1>5, <2>3 DEF LookersSound
  <1>9. BootSound'
    BY <1>2, <1>3, <1>6 DEF BootSound, Busy
  <1>10. AccountedInv'
    <2>1. SUFFICES ASSUME ~tangled
                   PROVE  AccountedInv'
      BY <1>2 DEF AccountedInv
    <2>2. c = kvClient /\ \A q \in Callers : ~Active(q)
      BY <1>1, <1>2, <1>6, <2>1 DEF AccountedInv
    <2>3. \A q \in Callers : procs[q].client = NoClient /\ procs[q].at # "closing"
      BY <2>2 DEF LookersSound, SoundProc, Active, Busy, IdleProc
    <2>4. InUse'
      <3>1. \A d \in ClientIds : d # NoClient
        BY KVAssumption DEF ClientIds, NoClient
      <3>2. \A d \in ClientIds : ~ \E q \in Callers : procs[q].client = d
        BY <2>3, <3>1
      <3>3. \A d \in ClientIds \ {c} : clients[d].state \notin {"connecting", "open"}
        BY <2>1, <2>2, <3>2 DEF AccountedInv, InUse
      <3>4. QED
        BY <1>2, <1>4, <3>1, <3>3 DEF InUse
    <2>5. \A q \in Callers : ~Active(q)' /\ procs'[q].at # "closing"
      BY <1>3, <2>2, <2>3 DEF Active, Busy
    <2>6. QED
      BY <1>2, <1>5, <2>4, <2>5 DEF AccountedInv
  <1>11. FollowInv'
    BY <1>2, <1>6 DEF FollowInv, Following
  <1>12. PartingInv'
    BY <1>2, <1>3, <1>5, <1>6 DEF PartingInv
  <1>13. QED
    BY <1>7, <1>8, <1>9, <1>10, <1>11, <1>12

\* stop() fails: its client stays, or is cut off.
LEMMA StopAbortedKeeps ==
    ASSUME ManagerInv, StopAborted
    PROVE  ManagerInv'
  <1> USE DEF ManagerInv
  <1>1. PICK c \in ClientIds : c = stopping.client /\ clients[c].state # "none"
    <2>1. stopping.at = "closing" /\ stopping \in StopType
      BY DEF StopAborted, TypeInv
    <2>2. stopping.client # NoClient
      BY <2>1 DEF PartingInv
    <2>3. QED
      BY <2>2, <2>1 DEF StopType, ClientOrNone, LookersSound
  <1>2. /\ CloseRejects(c) /\ stopping' = NoStop /\ stopping.at = "closing"
        /\ kvClient' = kvClient /\ UNCHANGED stopFrame /\ timer' = timer
        /\ unheard' = unheard /\ watching' = watching
        /\ shuttingDown' = shuttingDown /\ tangled' = tangled
    BY <1>1 DEF StopAborted, stopFrame, leaderVars, ghostVars, registrationVars
  <1>3. /\ entry' = entry /\ writer' = writer /\ leader' = leader /\ legacy' = legacy
        /\ cached' = cached /\ procs' = procs /\ webdav' = webdav /\ handed' = handed
        /\ boot' = boot /\ started' = started /\ parting' = parting /\ doubt' = doubt
    BY <1>2 DEF stopFrame
  <1>4. /\ clients' \in [ClientIds -> ClientType] /\ clients'[c].state # "none"
        /\ clients'[c].state \in {clients[c].state, "cut off"}
        /\ \A d \in ClientIds \ {c} : clients'[d] = clients[d]
    BY <1>1, <1>2, RejectedCloseKeeps DEF TypeInv
  <1>5. /\ stopping' \in StopType /\ stopping'.at = "no" /\ stopping'.client = NoClient
        /\ ~stopping'.alone
    BY <1>2 DEF NoStop, StopType, ClientOrNone
  <1>6. shuttingDown
    BY <1>2 DEF BootSound
  <1>7. TypeInv'
    <2>1. /\ timer' \in BOOLEAN /\ started' \in BOOLEAN /\ shuttingDown' \in BOOLEAN
          /\ doubt' \in BOOLEAN /\ tangled' \in BOOLEAN /\ watching' \in BOOLEAN
      BY <1>2, <1>3, Zenon DEF TypeInv
    <2>2. QED
      BY <1>2, <1>3, <1>4, <1>5, <2>1 DEF TypeInv
  <1>8. LookersSound'
    <2>1. \A d \in ClientIds : clients[d].state # "none" => clients'[d].state # "none"
      BY <1>4
    <2>2. \A q \in Callers : procs[q].client \in ClientOrNone
      BY DEF TypeInv, ProcType
    <2>3. \A q \in Callers : SoundProc(q)'
      BY <1>3, <2>1, <2>2 DEF LookersSound, SoundProc, Busy, ClientOrNone
    <2>4. kvClient' # NoClient => clients'[kvClient'].state # "none"
      BY <1>2, <2>1 DEF LookersSound, TypeInv, ClientOrNone
    <2>5. QED
      BY <1>5, <2>3, <2>4 DEF LookersSound
  <1>9. BootSound'
    BY <1>2, <1>3, <1>5 DEF BootSound, Busy
  <1>10. AccountedInv'
    <2>1. SUFFICES ASSUME ~tangled
                   PROVE  AccountedInv'
      BY <1>2 DEF AccountedInv
    <2>2. c = kvClient /\ \A q \in Callers : ~Active(q)
      BY <1>1, <1>2, <1>6, <2>1 DEF AccountedInv
    <2>3. InUse'
      <3>1. SUFFICES ASSUME NEW d \in ClientIds
                     PROVE  /\ clients'[d].state \in {"connecting", "open"} =>
                                  d = kvClient \/ \E q \in Callers : procs[q].client = d
                            /\ d = kvClient => clients'[d].state \in {"open", "cut off"}
        BY <1>2, <1>3 DEF InUse
      <3>2. /\ clients[d].state \in {"connecting", "open"} =>
                  d = kvClient \/ \E q \in Callers : procs[q].client = d
            /\ d = kvClient => clients[d].state \in {"open", "cut off"}
        BY <2>1 DEF AccountedInv, InUse
      <3>3. QED
        BY <1>4, <2>2, <3>2
    <2>4. \A q \in Callers : ~Active(q)' /\ procs'[q] = procs[q]
      BY <1>3, <2>2 DEF Active, Busy
    <2>5. QED
      BY <1>2, <1>5, <2>1, <2>3, <2>4 DEF AccountedInv
  <1>11. FollowInv'
    BY <1>2, <1>6 DEF FollowInv, Following
  <1>12. PartingInv'
    BY <1>2, <1>3, <1>5 DEF PartingInv
  <1>13. QED
    BY <1>7, <1>8, <1>9, <1>10, <1>11, <1>12

-----------------------------------------------------------------------------
(* The theorems. *)

LEMMA InitSound == Init => ManagerInv
  <1> SUFFICES ASSUME Init PROVE ManagerInv
    OBVIOUS
  <1>1. /\ entry = "absent" /\ writer = "idle" /\ timer = FALSE
        /\ leader \in LeaderOrNone /\ legacy \subseteq Leaders
        /\ unheard = 0 /\ watching = FALSE /\ cached = NoLeader
        /\ procs = [p \in Callers |-> IdleProc] /\ clients = NoClients
        /\ kvClient = NoClient /\ webdav = NoLeader /\ handed = NoClient
        /\ boot = "down" /\ started = FALSE /\ stopping = NoStop /\ shuttingDown = FALSE
        /\ parting = "other" /\ doubt = FALSE /\ tangled = FALSE
    BY DEF Init, RegistrationInit, LeaderOrNone
  <1>2. /\ procs \in [Callers -> ProcType] /\ \A q \in Callers : procs[q] = IdleProc
        /\ clients \in [ClientIds -> ClientType]
        /\ \A c \in ClientIds : clients[c].state = "none"
    BY <1>1 DEF IdleProc, ProcType, LeaderOrNone, ClientOrNone, NoClients, ClientType
  <1>3. stopping \in StopType /\ stopping.at = "no" /\ stopping.client = NoClient
        /\ ~stopping.alone
    BY <1>1 DEF NoStop, StopType, ClientOrNone
  <1>4. \A c \in ClientIds : c # NoClient
    BY KVAssumption DEF ClientIds, NoClient
  <1>5. TypeInv
    <2>1. /\ timer \in BOOLEAN /\ started \in BOOLEAN /\ shuttingDown \in BOOLEAN
          /\ watching \in BOOLEAN /\ doubt \in BOOLEAN /\ tangled \in BOOLEAN
      BY <1>1
    <2>2. /\ cached \in LeaderOrNone /\ webdav \in LeaderOrNone
          /\ kvClient \in ClientOrNone /\ handed \in ClientOrNone
      BY <1>1 DEF LeaderOrNone, ClientOrNone
    <2>3. QED
      BY <1>1, <1>2, <1>3, <2>1, <2>2 DEF TypeInv
  <1>6. LookersSound
    BY <1>1, <1>2, <1>3 DEF LookersSound, SoundProc, IdleProc, Busy
  <1>7. BootSound
    BY <1>1, <1>2, <1>3 DEF BootSound, IdleProc, Busy, Callers
  <1>8. AccountedInv
    BY <1>1, <1>2, <1>3, <1>4
       DEF AccountedInv, InUse, IdleProc, Busy, Active
  <1>9. FollowInv
    BY <1>1 DEF FollowInv, Following
  <1>10. PartingInv
    BY <1>1, <1>3 DEF PartingInv
  <1>11. QED
    BY <1>5, <1>6, <1>7, <1>8, <1>9, <1>10 DEF ManagerInv

\* A step that changes nothing of the connection.
LEMMA StutterKeeps == ManagerInv /\ UNCHANGED vars => ManagerInv'
  <1> SUFFICES ASSUME ManagerInv, UNCHANGED vars PROVE ManagerInv'
    OBVIOUS
  <1> USE DEF ManagerInv
  <1>1. /\ entry' = entry /\ writer' = writer /\ timer' = timer /\ cached' = cached
        /\ leader' = leader /\ legacy' = legacy /\ unheard' = unheard /\ watching' = watching
        /\ procs' = procs /\ clients' = clients /\ kvClient' = kvClient
        /\ webdav' = webdav /\ handed' = handed /\ boot' = boot /\ started' = started
        /\ stopping' = stopping /\ shuttingDown' = shuttingDown /\ parting' = parting
        /\ doubt' = doubt /\ tangled' = tangled
    BY DEF vars, registrationVars, leaderVars, clientVars, lifeVars, ghostVars
  <1>2. UNCHANGED connectionFrame
    BY <1>1 DEF connectionFrame
  <1>3. TypeInv'
    <2>1. timer' \in BOOLEAN /\ started' \in BOOLEAN
      BY <1>1, Zenon DEF TypeInv
    <2>2. QED
      BY <1>1, <1>2, <2>1, ConnectionTypes DEF TypeInv
  <1>4. LookersSound' /\ AccountedInv' /\ FollowInv'
    BY <1>1, <1>2, ConnectionStays DEF Following
  <1>5. BootSound' /\ PartingInv'
    BY <1>1 DEF BootSound, Busy, PartingInv
  <1>6. QED
    BY <1>3, <1>4, <1>5

\* A step of a look, a reconnect or start().
LEMMA LookStepKeeps ==
    ASSUME ManagerInv, NEW p \in Callers,
           \/ Read(p) \/ Answer(p) \/ NoAnswer(p) \/ Poll(p) \/ GiveUp(p)
           \/ Connected(p) \/ ConnectFails(p) \/ ReconnectClosed(p) \/ ReconnectAborted(p)
    PROVE  ManagerInv'
  BY ReadKeeps, AnswerKeeps, NoAnswerKeeps, PollKeeps, GiveUpKeeps, ConnectedKeeps,
     ConnectFailsKeeps, ClosedKeeps, AbortedKeeps

LEMMA ManagerNext == ManagerInv /\ [Next]_vars => ManagerInv'
  <1> SUFFICES ASSUME ManagerInv, [Next]_vars PROVE ManagerInv'
    OBVIOUS
  <1>1. CASE NewLeader \/ Hear \/ Request \/ Expire
    BY <1>1, NewLeaderKeeps, HearKeeps, RequestKeeps, ExpireKeeps
  <1>2. CASE \E p \in Callers :
           \/ Read(p) \/ Answer(p) \/ NoAnswer(p) \/ Poll(p) \/ GiveUp(p)
           \/ Connected(p) \/ ConnectFails(p) \/ ReconnectClosed(p) \/ ReconnectAborted(p)
    BY <1>2, LookStepKeeps
  <1>3. CASE StartUp \/ Registered \/ NotRegistered
    BY <1>3, StartUpKeeps, RegisteredKeeps, NotRegisteredKeeps
  <1>4. CASE Heartbeat \/ HeartbeatFails \/ Removal
    <2>1. /\ timer' = timer /\ UNCHANGED <<leaderVars, procs, clientVars, lifeVars, ghostVars>>
          /\ \/ Tick \/ HeartbeatRead \/ WriteOpens
             \/ boot # "registering" /\ (WriteEnds \/ WriteFails)
             \/ entry # "absent" /\ Unlinked
      BY <1>4 DEF Heartbeat, HeartbeatWritten, HeartbeatFails, Removal, registrationFrame, Tick,
                  HeartbeatRead, WriteOpens, WriteFails
    <2>2. QED
      BY <2>1, FileStepKeeps
  <1>5. CASE Crash \/ Signal
    BY <1>5, GoneKeeps, SignalKeeps DEF Crash
  <1>6. CASE StopClosed \/ StopAborted \/ Unlink
    BY <1>6, StopClosedKeeps, StopAbortedKeeps, UnlinkKeeps
  <1>7. CASE Exit
    <2>1. stopping.at = "exit" /\ (stopping.alone => entry = "absent")
      BY <1>7 DEF Exit, ManagerInv, PartingInv
    <2>2. CASE stopping.alone
      BY <1>7, <2>1, <2>2, GoneKeeps DEF Exit
    <2>3. CASE ~stopping.alone
      BY <1>7, <2>3, GoneKeeps DEF Exit
    <2>4. QED
      BY <2>2, <2>3
  <1>8. CASE UNCHANGED vars
    BY <1>8, StutterKeeps
  <1>9. CASE \E c \in ClientIds : ConnectsLate(c)
    BY <1>9, ConnectsLateKeeps
  <1>10. QED
    BY <1>1, <1>2, <1>3, <1>4, <1>5, <1>6, <1>7, <1>8, <1>9 DEF Next

-----------------------------------------------------------------------------
(* The client that the program was handed. *)

\* No client changes, and no new one is being connected.
LEMMA HandedStays ==
    ASSUME HandedInv, UNCHANGED <<clients, kvClient, handed>>, ~tangled' => ~tangled,
           \A q \in Callers : procs'[q].at = "connecting" => procs'[q] = procs[q]
    PROVE  HandedInv'
  BY DEF HandedInv, HandedKept

\* Client c changes: one that was closed stays so, and one the manager no longer has was
\* closed.
LEMMA HandedChanges ==
    ASSUME ManagerInv, HandedInv, UNCHANGED <<handed, tangled>>, NEW c \in ClientIds,
           \A d \in ClientIds \ {c} : clients'[d] = clients[d],
           clients[c].state \in {"closed", "cut off"}
               => clients'[c].state \in {"closed", "cut off"},
           ~tangled => \/ kvClient' = kvClient \/ kvClient = NoClient
                       \/ kvClient = c /\ clients'[c].state = "closed",
           ~tangled => \A q \in Callers : procs'[q].at = "connecting" =>
               \/ procs'[q].client = c /\ clients'[c].state = "connecting"
               \/ procs'[q] = procs[q] /\ procs[q].client \in ClientIds \ {c}
    PROVE  HandedInv'
  <1>1. SUFFICES ASSUME ~tangled
                 PROVE  /\ HandedKept'
                        /\ \A q \in Callers : procs'[q].at = "connecting"
                              => clients'[procs'[q].client].state = "connecting"
    BY DEF HandedInv
  <1>2. handed \in ClientOrNone /\ HandedKept
    BY <1>1 DEF ManagerInv, TypeInv, HandedInv
  <1>3. HandedKept'
    BY <1>1, <1>2 DEF HandedKept, ClientOrNone
  <1>4. \A q \in Callers : procs'[q].at = "connecting"
            => clients'[procs'[q].client].state = "connecting"
    BY <1>1 DEF HandedInv
  <1>5. QED
    BY <1>3, <1>4

\* While nothing overlaps, one at most is at work.
LEMMA NobodyElse ==
    ASSUME ManagerInv, ~tangled, NEW p \in Callers, Active(p)
    PROVE  \A q \in Callers : procs[q].at = "connecting" => q = p
  <1>1. \A q \in Callers : procs[q].at = "connecting" => Active(q)
    BY DEF ManagerInv, LookersSound, SoundProc, Active, Busy
  <1>2. QED
    BY <1>1 DEF ManagerInv, AccountedInv

\* A client is made for one that waits for the leader.
LEMMA CreateHands ==
    ASSUME ManagerInv, HandedInv, NEW p \in Callers, procs[p].waiting, NEW u, Create(p, u),
           handed' = handed
    PROVE  HandedInv'
  <1>1. PICK n \in ClientIds : n = NewClient /\ clients[n].state = "none"
    BY NewClientIsUnused DEF Create
  <1>2. /\ procs \in [Callers -> ProcType] /\ clients \in [ClientIds -> ClientType]
        /\ Active(p) /\ tangled' = tangled
    BY DEF ManagerInv, TypeInv, LookersSound, SoundProc, IdleProc, Active, Create
  <1>3. ~tangled => kvClient = NoClient
    BY DEF ManagerInv, AccountedInv
  <1>4. /\ \A d \in ClientIds \ {n} : clients'[d] = clients[d]
        /\ \A q \in Callers \ {p} : procs'[q] = procs[q]
        /\ procs'[p].at = "connecting"
               => procs'[p].client = n /\ clients'[n].state = "connecting"
    <2>1. CASE u \in legacy
      <3>1. /\ clients' = [clients EXCEPT ![n] = [of |-> u, state |-> "connecting"]]
            /\ procs' = [procs EXCEPT ![p].at = "connecting", ![p].client = n]
        BY <1>1, <2>1 DEF Create
      <3>2. procs[p] \in ProcType
        BY <1>2
      <3>3. procs'[p].client = n
        BY <1>2, <3>1, <3>2 DEF ProcType
      <3>4. QED
        BY <1>2, <3>1, <3>3
    <2>2. CASE u \notin legacy
      BY <1>1, <1>2, <2>2 DEF Create, Obtain, ToIdle, IdleProc
    <2>3. QED
      BY <2>1, <2>2
  <1>5. ~tangled => \A q \in Callers : procs'[q].at = "connecting" => q = p
    BY <1>2, <1>4, NobodyElse
  <1>6. QED
    BY <1>1, <1>2, <1>3, <1>4, <1>5, HandedChanges

\* A step of a look, of a reconnect or of start().
LEMMA HandedLook ==
    ASSUME ManagerInv, HandedInv, NEW p \in Callers,
           Read(p) \/ Answer(p) \/ NoAnswer(p) \/ Poll(p) \/ GiveUp(p)
    PROVE  HandedInv'
  <1>1. handed' = handed /\ procs \in [Callers -> ProcType]
    BY DEF Read, Answer, NoAnswer, Poll, GiveUp, lookFrame, clientVars, ManagerInv, TypeInv
  <1>2. ASSUME NEW u, Result(p, u)
        PROVE  HandedInv'
    <2>1. CASE procs[p].waiting /\ Create(p, u)
      BY <1>1, <2>1, CreateHands
    <2>2. CASE procs[p].waiting /\ procs' = [procs EXCEPT ![p].at = "pause"]
               /\ UNCHANGED <<clients, kvClient, tangled>>
      <3>1. procs'[p].at # "connecting" /\ \A q \in Callers \ {p} : procs'[q] = procs[q]
        BY <1>1, <2>2 DEF ProcType
      <3>2. QED
        BY <1>1, <2>2, <3>1, HandedStays
    <2>3. CASE Notify(p)
      <3>1. /\ UNCHANGED <<clients, kvClient>> /\ (~tangled' => ~tangled)
            /\ \A q \in Callers \ {p} : procs'[q] = procs[q]
        BY <1>1, <2>3 DEF Notify, ToIdle
      <3>2. procs'[p].at # "connecting"
        <4>1. procs[p] \in ProcType
          BY <1>1
        <4>2. CASE shuttingDown
          BY <1>1, <2>3, <4>2 DEF Notify, ToIdle, IdleProc
        <4>3. CASE ~shuttingDown /\ ClosesFirst(kvClient)
          <5>1. procs'[p] = [procs[p] EXCEPT !.at = "closing", !.client = kvClient]
            BY <1>1, <2>3, <4>3 DEF Notify
          <5>2. QED
            BY <4>1, <5>1 DEF ProcType
        <4>4. CASE ~shuttingDown /\ ~ClosesFirst(kvClient)
          <5>1. procs'[p] = [procs[p] EXCEPT !.at = "read", !.waiting = TRUE]
            BY <1>1, <2>3, <4>4 DEF Notify
          <5>2. QED
            BY <4>1, <5>1 DEF ProcType
        <4>5. QED
          BY <4>2, <4>3, <4>4
      <3>3. QED
        BY <1>1, <3>1, <3>2, HandedStays
    <2>4. CASE ToIdle(p) /\ UNCHANGED <<clients, kvClient, tangled>>
      <3>1. procs'[p].at # "connecting" /\ \A q \in Callers \ {p} : procs'[q] = procs[q]
        BY <1>1, <2>4 DEF ToIdle, IdleProc
      <3>2. QED
        BY <1>1, <2>4, <3>1, HandedStays
    <2>5. QED
      BY <1>2, <2>1, <2>2, <2>3, <2>4 DEF Result
  <1>3. CASE Read(p)
    <2>1. CASE leader # NoLeader /\ cached = NoLeader
      <3>1. /\ procs' = [procs EXCEPT ![p].at = "ask", ![p].of = leader]
            /\ UNCHANGED <<clients, kvClient, tangled>>
        BY <1>3, <2>1 DEF Read
      <3>2. procs'[p].at # "connecting" /\ \A q \in Callers \ {p} : procs'[q] = procs[q]
        BY <1>1, <3>1 DEF ProcType
      <3>3. QED
        BY <1>1, <3>1, <3>2, HandedStays
    <2>2. CASE ~(leader # NoLeader /\ cached = NoLeader)
      BY <1>2, <1>3, <2>2 DEF Read
    <2>3. QED
      BY <2>1, <2>2
  <1>4. CASE Answer(p) \/ NoAnswer(p)
    BY <1>2, <1>4 DEF Answer, NoAnswer
  <1>5. CASE Poll(p) \/ GiveUp(p)
    <2>1. UNCHANGED <<clients, kvClient>> /\ tangled' = tangled
      BY <1>5 DEF Poll, GiveUp, clientVars, ghostVars
    <2>2. procs'[p].at # "connecting" /\ \A q \in Callers \ {p} : procs'[q] = procs[q]
      BY <1>1, <1>5 DEF Poll, GiveUp, Failed, ToIdle, IdleProc, ProcType
    <2>3. QED
      BY <1>1, <2>1, <2>2, HandedStays
  <1>6. QED
    BY <1>3, <1>4, <1>5

\* The client in hand has its connection, has none, or is closed.
LEMMA HandedHand ==
    ASSUME ManagerInv, HandedInv, NEW p \in Callers,
           Connected(p) \/ ConnectFails(p) \/ ReconnectClosed(p) \/ ReconnectAborted(p)
    PROVE  HandedInv'
  <1>1. /\ procs \in [Callers -> ProcType] /\ clients \in [ClientIds -> ClientType]
        /\ procs[p].at \in {"connecting", "closing"} /\ Active(p)
        /\ procs[p].client \in ClientIds
        /\ procs[p].at = "connecting" => procs[p].waiting
    BY DEF ManagerInv, TypeInv, ProcType, ClientOrNone, LookersSound, SoundProc, Active, Busy,
           Connected, ConnectFails, ReconnectClosed, ReconnectAborted
  <1>2. PICK c \in ClientIds : c = procs[p].client
    BY <1>1
  <1>3. handed' = handed /\ tangled' = tangled
    BY DEF Connected, ConnectFails, ReconnectClosed, ReconnectAborted, lookFrame, ghostVars
  <1>4. procs'[p].at # "connecting" /\ \A q \in Callers \ {p} : procs'[q] = procs[q]
    BY <1>1 DEF Connected, ConnectFails, ReconnectClosed, ReconnectAborted, Obtain, Failed,
                ToIdle, IdleProc, ProcType
  <1>5. ~tangled => \A q \in Callers : procs'[q].at # "connecting"
    BY <1>1, <1>4, NobodyElse
  <1>6. \A d \in ClientIds \ {c} : clients'[d] = clients[d]
    BY <1>1, <1>2 DEF Connected, ConnectFails, ReconnectClosed, ReconnectAborted, CloseResolves,
                      CloseRejects
  <1>7. CASE Connected(p) \/ ConnectFails(p)
    <2>1. /\ ~tangled => kvClient = NoClient
          /\ ~tangled => clients[c].state = "connecting"
      BY <1>1, <1>2, <1>7 DEF ManagerInv, AccountedInv, HandedInv, Connected, ConnectFails
    <2>2. CASE tangled
      BY <1>3, <2>2 DEF HandedInv
    <2>3. CASE ~tangled
      BY <1>2, <1>3, <1>5, <1>6, <2>1, <2>3, HandedChanges
    <2>4. QED
      BY <2>2, <2>3
  <1>8. CASE ReconnectClosed(p)
    <2>1. ~tangled => c = kvClient
      BY <1>2, <1>8 DEF ManagerInv, AccountedInv, ReconnectClosed
    <2>2. clients' = [clients EXCEPT ![c].state = "closed"]
      BY <1>2, <1>8 DEF ReconnectClosed, CloseResolves
    <2>3. clients'[c].state = "closed"
      BY <1>1, <2>2 DEF ClientType
    <2>4. QED
      BY <1>2, <1>3, <1>5, <1>6, <2>1, <2>3, HandedChanges
  <1>9. CASE ReconnectAborted(p)
    <2>1. clients[c].state # "none"
      BY <1>1, <1>2 DEF ManagerInv, LookersSound, SoundProc, ProcType, ClientOrNone
    <2>2. clients'[c].state \in {clients[c].state, "cut off"} /\ kvClient' = kvClient
      BY <1>1, <1>2, <1>9, <2>1, RejectedCloseKeeps DEF ReconnectAborted
    <2>3. QED
      BY <1>2, <1>3, <1>5, <1>6, <2>2, HandedChanges
  <1>10. QED
    BY <1>7, <1>8, <1>9

\* stop() has closed the manager's client, or failed to.
LEMMA HandedStop ==
    ASSUME ManagerInv, HandedInv, StopClosed \/ StopAborted
    PROVE  HandedInv'
  <1>1. PICK c \in ClientIds : c = stopping.client /\ clients[c].state # "none"
    <2>1. stopping.at = "closing" /\ stopping \in StopType
      BY DEF StopClosed, StopAborted, ManagerInv, TypeInv
    <2>2. stopping.client # NoClient
      BY <2>1 DEF ManagerInv, PartingInv
    <2>3. QED
      BY <2>2, <2>1 DEF StopType, ClientOrNone, ManagerInv, LookersSound
  <1>2. /\ clients \in [ClientIds -> ClientType] /\ handed' = handed /\ tangled' = tangled
        /\ procs' = procs /\ stopping.at = "closing" /\ shuttingDown
    BY DEF StopClosed, StopAborted, ghostVars, ManagerInv, TypeInv, BootSound
  <1>3. ~tangled => c = kvClient /\ \A q \in Callers : procs'[q].at # "connecting"
    <2>1. ~tangled => c = kvClient /\ \A q \in Callers : ~Active(q)
      BY <1>1, <1>2 DEF ManagerInv, AccountedInv
    <2>2. \A q \in Callers : procs[q].at = "connecting" => Active(q)
      BY DEF ManagerInv, LookersSound, SoundProc, Active, Busy
    <2>3. QED
      BY <1>2, <2>1, <2>2
  <1>4. CASE StopClosed
    <2>1. clients' = [clients EXCEPT ![c].state = "closed"]
      BY <1>1, <1>4 DEF StopClosed, CloseResolves
    <2>2. clients'[c].state = "closed" /\ \A d \in ClientIds \ {c} : clients'[d] = clients[d]
      BY <1>2, <2>1 DEF ClientType
    <2>3. QED
      BY <1>2, <1>3, <2>2, HandedChanges
  <1>5. CASE StopAborted
    <2>1. CloseRejects(c) /\ kvClient' = kvClient
      BY <1>1, <1>5 DEF StopAborted
    <2>2. /\ clients'[c].state \in {clients[c].state, "cut off"}
          /\ \A d \in ClientIds \ {c} : clients'[d] = clients[d]
      BY <1>1, <1>2, <2>1, RejectedCloseKeeps
    <2>3. QED
      BY <1>2, <1>3, <2>1, <2>2, HandedChanges
  <1>6. QED
    BY <1>4, <1>5

\* The process ends, and its clients with it.
LEMMA HandedGone ==
    ASSUME NEW how, Gone(how)
    PROVE  HandedInv'
  BY DEF Gone, HandedInv, HandedKept, IdleProc

LEMMA HandedNext == ManagerInv /\ HandedInv /\ [Next]_vars => HandedInv'
  <1> SUFFICES ASSUME ManagerInv, HandedInv, [Next]_vars PROVE HandedInv'
    OBVIOUS
  <1>1. procs \in [Callers -> ProcType]
    BY DEF ManagerInv, TypeInv
  <1>2. CASE \/ NewLeader \/ Expire \/ NotRegistered \/ Heartbeat \/ HeartbeatFails
             \/ Removal \/ Unlink \/ UNCHANGED vars
    <2>1. /\ clients' = clients /\ kvClient' = kvClient /\ handed' = handed
          /\ tangled' = tangled /\ procs' = procs
      BY <1>2 DEF NewLeader, Expire, NotRegistered, Heartbeat, HeartbeatWritten,
                  HeartbeatFails, Removal, Unlink, vars, clientVars, ghostVars,
                  registrationFrame
    <2>2. QED
      BY <2>1, HandedStays
  <1>3. CASE Hear \/ Request
    <2>1. FreeLooker \in Callers
      BY <1>3, FreeLookerIsFree DEF Hear, Request
    <2>2. /\ UNCHANGED <<clients, kvClient, handed, tangled>>
          /\ procs'[FreeLooker].at = "read"
          /\ \A q \in Callers \ {FreeLooker} : procs'[q] = procs[q]
      BY <1>1, <1>3, <2>1 DEF Hear, Request, clientVars, ghostVars, IdleProc
    <2>3. QED
      BY <2>2, HandedStays
  <1>4. CASE StartUp
    <2>1. Starter \in Callers
      BY DEF Callers
    <2>2. /\ UNCHANGED <<clients, kvClient, handed, tangled>>
          /\ procs'[Starter].at = "read"
          /\ \A q \in Callers \ {Starter} : procs'[q] = procs[q]
      BY <1>1, <1>4, <2>1 DEF StartUp, clientVars, ghostVars, IdleProc
    <2>3. QED
      BY <2>2, HandedStays
  <1>5. CASE \E p \in Callers :
               Read(p) \/ Answer(p) \/ NoAnswer(p) \/ Poll(p) \/ GiveUp(p)
    BY <1>5, HandedLook
  <1>6. CASE \E p \in Callers : \/ Connected(p) \/ ConnectFails(p)
                               \/ ReconnectClosed(p) \/ ReconnectAborted(p)
    BY <1>6, HandedHand
  <1>7. CASE \E c \in ClientIds : ConnectsLate(c)
    <2>1. PICK c \in ClientIds : ConnectsLate(c)
      BY <1>7
    <2>2. /\ clients[c].state = "trying" /\ UNCHANGED <<handed, tangled, kvClient, procs>>
          /\ \A d \in ClientIds \ {c} : clients'[d] = clients[d]
      BY <2>1 DEF ConnectsLate, ghostVars, ManagerInv, TypeInv
    <2>3. \A q \in Callers : procs[q].at = "connecting" => procs[q].client \in ClientIds
      BY DEF ManagerInv, TypeInv, ProcType, ClientOrNone, LookersSound, SoundProc
    <2>4. ~tangled => \A q \in Callers : procs[q].at = "connecting" => procs[q].client # c
      BY <2>2 DEF HandedInv
    <2>5. QED
      BY <2>2, <2>3, <2>4, HandedChanges
  <1>8. CASE Registered
    <2>1. /\ UNCHANGED <<clients, kvClient, tangled, procs>> /\ handed' = kvClient
      BY <1>8 DEF Registered, ghostVars
    <2>2. QED
      BY <2>1 DEF HandedInv, HandedKept
  <1>9. CASE Crash \/ Exit
    BY <1>9, HandedGone DEF Crash, Exit
  <1>10. CASE Signal
    <2>1. CASE Gone("other")
      BY <2>1, HandedGone
    <2>2. CASE ~Gone("other")
      <3>1. /\ clients' = clients /\ kvClient' = kvClient /\ handed' = handed
            /\ procs' = procs /\ (~tangled' => ~tangled)
        BY <1>10, <2>2 DEF Signal, clientVars
      <3>2. QED
        BY <3>1, HandedStays
    <2>3. QED
      BY <2>1, <2>2
  <1>11. CASE StopClosed \/ StopAborted
    BY <1>11, HandedStop
  <1>12. QED
    BY <1>2, <1>3, <1>4, <1>5, <1>6, <1>7, <1>8, <1>9, <1>10, <1>11 DEF Next

\* The invariant that the theorems rest on.
THEOREM KVManagerInvariant == Spec => []ConnectionInv
  <1>1. Init => HandedInv
    BY DEF Init, HandedInv, HandedKept, IdleProc
  <1>2. Init => ConnectionInv
    BY <1>1, InitSound DEF ConnectionInv
  <1>3. ConnectionInv /\ [Next]_vars => ConnectionInv'
    BY ManagerNext, HandedNext DEF ConnectionInv
  <1>4. QED
    BY <1>2, <1>3, PTL DEF Spec

\* A step of the key-value storage is one of the manager, or changes nothing of it.
LEMMA ConnectionStep == [KVNext]_kvVars => [Next]_vars
  <1> SUFFICES ASSUME [KVNext]_kvVars PROVE [Next]_vars
    OBVIOUS
  <1>1. CASE ManagerStep
    BY <1>1 DEF ManagerStep
  <1>2. CASE OtherWriter
    BY <1>2 DEF OtherWriter
  <1>3. CASE \E w \in Writers : RouteBegins(w) \/ RouteGoesOn(w)
    BY <1>3 DEF RouteBegins, RouteGoesOn
  <1>4. CASE UNCHANGED kvVars
    BY <1>4 DEF kvVars
  <1>5. QED
    BY <1>1, <1>2, <1>3, <1>4 DEF KVNext

\* With the record and its requests beside it, the connection is what it is alone.
LEMMA KVIsManager == KVSpec => Spec
  <1>1. KVInit => Init
    BY DEF KVInit
  <1>2. QED
    BY <1>1, ConnectionStep, PTL DEF KVSpec, Spec

\* As long as no two reconnects overlapped, nor one and stop(): every client that is open,
\* or being opened, is the manager's or in the hands of a reconnect, the manager's client
\* is open, or was cut off by a close() that failed, and the client the program was handed
\* is the manager's or was closed.  A client whose connect() failed is none of these, and
\* may open late (KVManager.ts 79-89, 169-203, 208-234; RedisClient.ts 106-160).
THEOREM KVClientsAccounted == KVSpec => []ClientsAccounted
  <1>1. ConnectionInv => ClientsAccounted
    BY DEF ConnectionInv, ManagerInv, AccountedInv, HandedInv, ClientsAccounted
  <1>2. QED
    BY <1>1, KVManagerInvariant, KVIsManager, PTL

\* Once every change of the leader has been reported and its reconnect is over, the
\* client is the leader's, and the WebDAV URL too if the leader publishes one; not after
\* a change that no watcher could report (KVManager.ts 114-143, 169-203; LeaderClient.ts
\* 222-251).
THEOREM KVFollowsLeader == KVSpec => []FollowsLeader
  <1>1. ConnectionInv => FollowsLeader
    <2>1. SUFFICES ASSUME ManagerInv, Quiet, ~doubt
                   PROVE  /\ kvClient # NoClient /\ clients[kvClient].of = leader
                          /\ leader \in Published => webdav = leader
      BY DEF ConnectionInv, FollowsLeader
    <2>2. Following
      BY <2>1 DEF Quiet, Following
    <2>3. \A p \in Callers : ~Tracks(p)
      BY <2>1 DEF Quiet, Tracks, ManagerInv, LookersSound, SoundProc, IdleProc
    <2>4. QED
      BY <2>1, <2>2, <2>3 DEF ManagerInv, FollowInv
  <1>2. QED
    BY <1>1, KVManagerInvariant, KVIsManager, PTL

\* After a stop() that ran to its end, with no heartbeat under way then, the service's
\* file is gone and stays so until the next start (ServiceRegistration.ts 80-172).
THEOREM KVNothingLeft == KVSpec => []NothingLeft
  <1>1. ConnectionInv => NothingLeft
    BY DEF ConnectionInv, ManagerInv, PartingInv, NothingLeft
  <1>2. QED
    BY <1>1, KVManagerInvariant, KVIsManager, PTL
-----------------------------------------------------------------------------
(* The record of a file: what is read of it, and what is written back. *)

\* A record that can be read.
RecordSound(r) ==
    /\ IsFiniteSet(DOMAIN r)
    /\ \A path \in DOMAIN r : path \in Paths /\ r[path] \subseteq STRING

\* The values of a tree are the record's, read back.
LeavesSound(t, r) ==
    \A p \in DOMAIN t : t[p].kind = "value" => p \in DOMAIN r /\ t[p] = ParseValue(r[p])

\* The tree of some fields of the record: those at the paths in done have been inserted.
Built(t, r, done) ==
    t # Broken =>
        /\ <<>> \in DOMAIN t /\ t[<<>>].kind = "object"
        /\ LeavesSound(t, r)
        /\ \A p \in DOMAIN t : /\ p \in Seq(STRING)
                               /\ p # <<>> => \E path \in DOMAIN r : path[1] = p[1]
        /\ \A path \in done : <<path[1]>> \in DOMAIN t

\* The tree of the whole record.
ReadSound(t, r) ==
    /\ <<>> \in DOMAIN t
    /\ t[<<>>].kind = "array" => Listed(r)
    /\ LeavesSound(t, r)
    /\ \A p \in DOMAIN t : p \in Seq(STRING)
    /\ \A path \in DOMAIN r : <<path[1]>> \in DOMAIN t

\* A sequence of one.
LEMMA OneLong ==
    ASSUME NEW S, NEW s \in Seq(S), Len(s) = 1
    PROVE  s = <<s[1]>>
  <1>1. s[1] \in S
    BY LenProperties
  <1>2. <<s[1]>> \in Seq(S) /\ Len(<<s[1]>>) = 1 /\ <<s[1]>>[1] = s[1]
    BY <1>1
  <1>3. \A i \in 1..Len(s) : s[i] = <<s[1]>>[i]
    BY <1>2
  <1>4. QED
    BY <1>2, <1>3, SeqEqual

\* The nodes above a path begin with its first key.
LEMMA AbovePath ==
    ASSUME NEW path \in Paths
    PROVE  /\ <<>> \in Above(path)
           /\ \A p \in Above(path) : /\ p \in Seq(STRING) /\ p # path
                                     /\ p # <<>> => p[1] = path[1]
           /\ <<path[1]>> \in Above(path) \cup {path}
  <1>1. path \in Seq(STRING) /\ Len(path) \in Nat /\ Len(path) > 0
    BY DEF Paths
  <1>2. ASSUME NEW n \in 0..(Len(path) - 1)
        PROVE  /\ SubSeq(path, 1, n) \in Seq(STRING) /\ Len(SubSeq(path, 1, n)) = n
               /\ \A i \in 1..n : SubSeq(path, 1, n)[i] = path[i]
    <2>1. \A i \in 1..n : path[i] \in STRING
      BY <1>1, LenProperties
    <2>2. n \in Int /\ 1 \in Int
      OBVIOUS
    <2>3. /\ SubSeq(path, 1, n) \in Seq(STRING)
          /\ Len(SubSeq(path, 1, n)) = IF 1 <= n THEN n - 1 + 1 ELSE 0
          /\ \A i \in 1..(n - 1 + 1) : SubSeq(path, 1, n)[i] = path[1 + i - 1]
      BY <2>1, <2>2, SubSeqProperties
    <2>4. QED
      BY <2>3
  <1>3. <<>> \in Above(path)
    <2>1. 0 \in 0..(Len(path) - 1) /\ SubSeq(path, 1, 0) = <<>>
      BY <1>1, SubSeqEmpty
    <2>2. QED
      BY <2>1 DEF Above
  <1>4. ASSUME NEW p \in Above(path)
        PROVE  p \in Seq(STRING) /\ p # path /\ (p # <<>> => p[1] = path[1])
    <2>1. PICK n \in 0..(Len(path) - 1) : p = SubSeq(path, 1, n)
      BY DEF Above
    <2>2. p \in Seq(STRING) /\ Len(p) = n /\ \A i \in 1..n : p[i] = path[i]
      BY <1>2, <2>1
    <2>3. p # path
      BY <1>1, <2>2
    <2>4. ASSUME p # <<>> PROVE p[1] = path[1]
      <3>1. n # 0
        BY <2>2, <2>4
      <3>2. QED
        BY <2>2, <3>1
    <2>5. QED
      BY <2>2, <2>3, <2>4
  <1>5. <<path[1]>> \in Above(path) \cup {path}
    <2>1. CASE Len(path) = 1
      <3>1. path = <<path[1]>>
        BY <1>1, <2>1, OneLong
      <3>2. <<path[1]>> \in {path}
        BY <3>1, Zenon
      <3>3. QED
        BY <3>2, Zenon
    <2>2. CASE Len(path) # 1
      <3>1. 1 \in 0..(Len(path) - 1)
        <4>1. \A n \in Nat : n > 0 /\ n # 1 => 1 \in 0..(n - 1)
          OBVIOUS
        <4>2. QED
          BY <1>1, <2>2, <4>1
      <3>2. SubSeq(path, 1, 1) = <<path[1]>>
        <4>1. /\ SubSeq(path, 1, 1) \in Seq(STRING) /\ Len(SubSeq(path, 1, 1)) = 1
              /\ SubSeq(path, 1, 1)[1] = path[1]
          BY <1>2, <3>1
        <4>2. QED
          BY <4>1, OneLong
      <3>3. QED
        BY <3>1, <3>2 DEF Above
    <2>3. QED
      BY <2>1, <2>2
  <1>6. QED
    BY <1>3, <1>4, <1>5

\* What a path is a prefix of, at the top.
LEMMA PrefixAtTop ==
    ASSUME NEW path \in Paths
    PROVE  /\ ~IsPrefix(path, <<>>)
           /\ \A k : IsPrefix(path, <<k>>) => path = <<k>>
  <1>1. path \in Seq(STRING) /\ Len(path) \in Nat /\ Len(path) > 0
    BY DEF Paths
  <1>2. ~IsPrefix(path, <<>>)
    BY <1>1 DEF IsPrefix
  <1>3. ASSUME NEW k, IsPrefix(path, <<k>>) PROVE path = <<k>>
    <2>1. Len(path) = 1 /\ SubSeq(path, 1, 1) = SubSeq(<<k>>, 1, 1)
      BY <1>1, <1>3 DEF IsPrefix
    <2>2. SubSeq(path, 1, 1) = path
      BY <1>1, <2>1, SubSeqFull
    <2>3. SubSeq(<<k>>, 1, 1) = <<k>>
      <3>1. <<k>> \in Seq({k}) /\ Len(<<k>>) = 1
        OBVIOUS
      <3>2. QED
        BY <3>1, SubSeqFull
    <2>4. QED
      BY <2>1, <2>2, <2>3
  <1>4. QED
    BY <1>2, <1>3

\* One more field.
LEMMA InsertBuilds ==
    ASSUME NEW t, NEW r, RecordSound(r), NEW done, Built(t, r, done),
           NEW path \in DOMAIN r
    PROVE  Built(Insert(t, path, r[path]), r, done \cup {path})
  <1> DEFINE u == Insert(t, path, r[path])
             old == {q \in DOMAIN t : ~IsPrefix(path, q)}
             dom == old \cup Above(path) \cup {path}
  <1>1. path \in Paths
    BY DEF RecordSound
  <1>2. SUFFICES ASSUME u # Broken PROVE Built(u, r, done \cup {path})
    BY DEF Built
  <1>3. /\ t # Broken /\ \A p \in Above(path) \cap DOMAIN t : t[p].kind # "value"
        /\ u = [p \in dom |-> NodeAt(p, t, path, r[path])]
    BY <1>2 DEF Insert
  <1>4. DOMAIN u = dom /\ \A p \in dom : u[p] = NodeAt(p, t, path, r[path])
    BY <1>3
  <1> HIDE DEF u
  <1>5. /\ <<>> \in DOMAIN t /\ t[<<>>].kind = "object" /\ LeavesSound(t, r)
        /\ \A p \in DOMAIN t : p \in Seq(STRING)
        /\ \A p \in DOMAIN t : p # <<>> => \E q \in DOMAIN r : q[1] = p[1]
        /\ \A q \in done : <<q[1]>> \in DOMAIN t
    BY <1>3 DEF Built
  <1>6. <<>> \in DOMAIN u /\ u[<<>>].kind = "object"
    <2>1. <<>> \in dom /\ <<>> # path
      BY <1>1, AbovePath
    <2>2. QED
      BY <1>4, <1>5, <2>1 DEF NodeAt
  <1>7. LeavesSound(u, r)
    <2>1. SUFFICES ASSUME NEW p \in dom, u[p].kind = "value"
                   PROVE  p \in DOMAIN r /\ u[p] = ParseValue(r[p])
      BY <1>4 DEF LeavesSound
    <2>2. CASE p = path
      BY <1>4, <2>2 DEF NodeAt
    <2>3. CASE p # path /\ p \in DOMAIN t
      <3>1. u[p] = t[p]
        BY <1>4, <2>3 DEF NodeAt
      <3>2. QED
        BY <1>5, <2>1, <2>3, <3>1 DEF LeavesSound
    <2>4. CASE p # path /\ p \notin DOMAIN t
      <3>1. u[p] = Node(IF Numeric(KeyAfter(p, path)) THEN "array" ELSE "object")
        BY <1>4, <2>4 DEF NodeAt
      <3>2. \A kind : Node(kind).kind = kind
        BY DEF Node
      <3>3. u[p].kind = IF Numeric(KeyAfter(p, path)) THEN "array" ELSE "object"
        BY <3>1, <3>2, Zenon
      <3>4. QED
        BY <2>1, <3>3
    <2>5. QED
      BY <2>2, <2>3, <2>4
  <1>8. ASSUME NEW p \in dom
        PROVE  p \in Seq(STRING) /\ (p # <<>> => \E q \in DOMAIN r : q[1] = p[1])
    <2>1. CASE p \in old
      BY <1>5, <2>1
    <2>2. CASE p \in Above(path)
      BY <1>1, <2>2, AbovePath
    <2>3. CASE p = path
      BY <1>1, <2>3 DEF Paths
    <2>4. QED
      BY <2>1, <2>2, <2>3
  <1>9. ASSUME NEW q \in done \cup {path}
        PROVE  <<q[1]>> \in dom
    <2>1. CASE q = path
      BY <1>1, <2>1, AbovePath
    <2>2. CASE q # path
      <3>1. <<q[1]>> \in DOMAIN t
        BY <1>5, <2>2
      <3>2. CASE IsPrefix(path, <<q[1]>>)
        BY <1>1, <3>2, PrefixAtTop
      <3>3. QED
        BY <3>1, <3>2
    <2>3. QED
      BY <2>1, <2>2
  <1>10. QED
    BY <1>4, <1>6, <1>7, <1>8, <1>9 DEF Built

\* The loop of Reconstruct, and the tree it ends with.
Loop(pairs, after) ==
    /\ after[0] = EmptyTree
    /\ \A i \in 1..Len(pairs) : after[i] = Insert(after[i - 1], pairs[i][1], pairs[i][2])

\* The loop of Reconstruct is defined at every position.
LEMMA LoopRuns ==
    ASSUME NEW pairs, Len(pairs) \in Nat
    PROVE  \E after : /\ Loop(pairs, after)
                      /\ Reconstruct(pairs) = IF after[Len(pairs)] = Broken THEN Broken
                                              ELSE Converted(after[Len(pairs)])
  <1> DEFINE n == Len(pairs)
             next(f, i) == Insert(f[i - 1], pairs[i][1], pairs[i][2])
             run(f) == [i \in 0..n |-> IF i = 0 THEN EmptyTree ELSE next(f, i)]
             upTo(f, k) == \A i \in 0..n :
                               i <= k => f[i] = IF i = 0 THEN EmptyTree ELSE next(f, i)
             bad == {k \in Nat : ~\E f : upTo(f, k)}
  <1>1. bad = {}
    <2>1. SUFFICES ASSUME bad # {} PROVE FALSE
      OBVIOUS
    <2>2. PICK k \in bad : k \in Nat /\ \A j \in bad : k <= j
      <3>1. bad \subseteq Nat
        OBVIOUS
      <3> HIDE DEF bad
      <3>2. QED
        BY <2>1, <3>1, NatMin
    <2>3. CASE k = 0
      <3> DEFINE f == [i \in 0..n |-> EmptyTree]
      <3>1. upTo(f, k)
        BY <2>3
      <3> HIDE DEF f, upTo
      <3>2. QED
        BY <2>2, <3>1
    <2>4. CASE k # 0
      <3>1. k - 1 \in Nat /\ k - 1 \notin bad
        <4> HIDE DEF bad
        <4>1. QED
          BY <2>2, <2>4
      <3>2. PICK f : upTo(f, k - 1)
        BY <3>1
      <3> DEFINE g == run(f)
      <3>3. ASSUME NEW i \in 0..n, i <= k
            PROVE  g[i] = IF i = 0 THEN EmptyTree ELSE next(g, i)
        <4>1. CASE i = 0
          BY <4>1
        <4>2. CASE i # 0
          <5>1. i - 1 \in 0..n /\ i - 1 <= k - 1
            BY <3>3, <4>2
          <5>2. g[i - 1] = f[i - 1]
            BY <3>2, <5>1
          <5>3. g[i] = next(f, i)
            BY <4>2
          <5>4. QED
            BY <4>2, <5>2, <5>3
        <4>3. QED
          BY <4>1, <4>2
      <3>4. upTo(g, k)
        BY <3>3
      <3> HIDE DEF g, upTo
      <3>5. QED
        BY <2>2, <3>4
    <2>5. QED
      BY <2>3, <2>4
  <1>2. PICK f : upTo(f, n)
    BY <1>1
  <1> DEFINE g == run(f)
  <1>3. \A i \in 0..n : g[i] = f[i]
    BY <1>2
  <1>4. run(g) = g
    <2>1. \A i \in 1..n : i - 1 \in 0..n
      OBVIOUS
    <2>2. \A i \in 1..n : next(g, i) = next(f, i)
      <3> HIDE DEF g
      <3>1. QED
        BY <1>3, <2>1
    <2>3. \A i \in 0..n : i = 0 \/ i \in 1..n
      OBVIOUS
    <2>4. run(g) = run(f)
      <3> HIDE DEF g, next
      <3>1. QED
        BY <2>2, <2>3
    <2>5. QED
      BY <2>4
  <1> DEFINE a == CHOOSE h : h = run(h)
  <1>5. a = run(a)
    <2> HIDE DEF g
    <2>1. \E h : h = run(h)
      BY <1>4
    <2>2. QED
      BY <2>1
  <1>6. Reconstruct(pairs) = IF a[n] = Broken THEN Broken ELSE Converted(a[n])
    BY DEF Reconstruct
  <1>7. Loop(pairs, a)
    <2> HIDE DEF a
    <2>1. \A i \in 0..n : a[i] = IF i = 0 THEN EmptyTree ELSE next(a, i)
      <3>1. \A i \in 0..n : run(a)[i] = IF i = 0 THEN EmptyTree ELSE next(a, i)
        OBVIOUS
      <3>2. QED
        BY <1>5, <3>1
    <2>2. 0 \in 0..n /\ \A i \in 1..n : i \in 0..n /\ i # 0
      OBVIOUS
    <2>3. QED
      BY <2>1, <2>2 DEF Loop
  <1>8. QED
    BY <1>6, <1>7

\* The pairs that are read are the record's fields, each once.
LEMMA PairsAreFields ==
    ASSUME NEW r, RecordSound(r),
           NEW pairs \in SetToSeqs({<<path, r[path]>> : path \in DOMAIN r})
    PROVE  /\ Len(pairs) \in Nat
           /\ \A i \in 1..Len(pairs) : pairs[i][1] \in DOMAIN r /\ pairs[i][2] = r[pairs[i][1]]
           /\ \A path \in DOMAIN r : \E i \in 1..Len(pairs) : pairs[i][1] = path
  <1> DEFINE S == {<<path, r[path]>> : path \in DOMAIN r}
             n == Cardinality(S)
             f == [path \in DOMAIN r |-> <<path, r[path]>>]
  <1>1. IsFiniteSet(S)
    <2>1. f \in Surjection(DOMAIN r, S)
      BY DEF Surjection
    <2>2. IsFiniteSet(DOMAIN r)
      BY DEF RecordSound
    <2> HIDE DEF f, S
    <2>3. QED
      BY <2>1, <2>2, FS_Surjection
  <1>2. n \in Nat
    BY <1>1, FS_CardinalityType
  <1>3. pairs \in [1..n -> S] /\ \A i, j \in 1..n : i # j => pairs[i] # pairs[j]
    BY DEF SetToSeqs
  <1> HIDE DEF n
  <1>4. Len(pairs) = n
    <2> HIDE DEF S
    <2>1. pairs \in Seq(S)
      BY <1>2, <1>3
    <2>2. QED
      BY <1>2, <1>3, <2>1
  <1>5. ASSUME NEW x \in S PROVE \E i \in 1..n : pairs[i] = x
    <2> HIDE DEF S
    <2>1. pairs \in Injection(1..n, S)
      BY <1>3 DEF Injection, IsInjective
    <2>2. IsFiniteSet(1..n) /\ Cardinality(1..n) = n
      BY <1>2, FS_Interval
    <2>3. pairs \in Surjection(1..n, S)
      BY <1>1, <2>1, <2>2, FS_Injection DEF n
    <2>4. QED
      BY <2>3 DEF Surjection
  <1>6. ASSUME NEW i \in 1..n
        PROVE  pairs[i][1] \in DOMAIN r /\ pairs[i][2] = r[pairs[i][1]]
    BY <1>3
  <1>7. ASSUME NEW path \in DOMAIN r PROVE \E i \in 1..n : pairs[i][1] = path
    <2>1. PICK i \in 1..n : pairs[i] = <<path, r[path]>>
      BY <1>5
    <2>2. QED
      BY <2>1
  <1>8. QED
    BY <1>2, <1>4, <1>6, <1>7

\* The empty tree is the tree of no field.
LEMMA EmptyBuilt == ASSUME NEW r PROVE Built(EmptyTree, r, {})
  <1>1. DOMAIN EmptyTree = {<<>>} /\ EmptyTree[<<>>] = Node("object")
    BY DEF EmptyTree, Only
  <1>2. EmptyTree[<<>>].kind = "object"
    BY <1>1 DEF Node
  <1>3. LeavesSound(EmptyTree, r)
    BY <1>1, <1>2 DEF LeavesSound
  <1> HIDE DEF EmptyTree
  <1>4. <<>> \in Seq(STRING)
    OBVIOUS
  <1>5. QED
    BY <1>1, <1>2, <1>3, <1>4 DEF Built

Inserted(pairs, k) == {pairs[i][1] : i \in 1..k}

\* The loop builds the tree of the fields it has come to.
LEMMA LoopBuilds ==
    ASSUME NEW r, RecordSound(r), NEW pairs, NEW after, Len(pairs) \in Nat,
           Loop(pairs, after),
           \A i \in 1..Len(pairs) : pairs[i][1] \in DOMAIN r /\ pairs[i][2] = r[pairs[i][1]]
    PROVE  \A k \in 0..Len(pairs) : Built(after[k], r, Inserted(pairs, k))
  <1> DEFINE n == Len(pairs)
             done(k) == Inserted(pairs, k)
             bad == {k \in 0..n : ~Built(after[k], r, done(k))}
  <1>1. SUFFICES bad = {}
    OBVIOUS
  <1>2. SUFFICES ASSUME bad # {} PROVE FALSE
    OBVIOUS
  <1>3. PICK k \in 0..n : k \in bad /\ \A j \in bad : k <= j
    <2>1. bad \subseteq Nat /\ bad \subseteq 0..n
      OBVIOUS
    <2> HIDE DEF bad
    <2>2. QED
      BY <1>2, <2>1, NatMin
  <1>4. CASE k = 0
    <2>1. done(0) = {} /\ after[0] = EmptyTree
      BY DEF Loop, Inserted
    <2> HIDE DEF done
    <2>2. QED
      BY <1>3, <1>4, <2>1, EmptyBuilt
  <1>5. CASE k # 0
    <2>1. k \in 1..n /\ k - 1 \in 0..n /\ k - 1 \notin bad
      <3>1. k \in 1..n /\ k - 1 \in 0..n /\ ~(k <= k - 1)
        BY <1>5
      <3> HIDE DEF bad
      <3>2. QED
        BY <1>3, <3>1
    <2>2. Built(after[k - 1], r, done(k - 1))
      <3> HIDE DEF done
      <3>1. QED
        BY <2>1
    <2>3. after[k] = Insert(after[k - 1], pairs[k][1], r[pairs[k][1]]) /\ pairs[k][1] \in DOMAIN r
      BY <2>1 DEF Loop
    <2>4. done(k) = done(k - 1) \cup {pairs[k][1]}
      <3>1. 1..k = 1..(k - 1) \cup {k}
        BY <1>5
      <3>2. QED
        BY <3>1 DEF Inserted
    <2> HIDE DEF done
    <2>5. Built(after[k], r, done(k))
      BY <2>2, <2>3, <2>4, InsertBuilds
    <2>6. QED
      BY <1>3, <2>5
  <1>6. QED
    BY <1>4, <1>5

\* What convertNumericObjectsToArrays() leaves is the record's, and an array at the root
\* says that the record has numbered fields only.
LEMMA ConvertedSound ==
    ASSUME NEW r, RecordSound(r), NEW t, t # Broken, Built(t, r, DOMAIN r)
    PROVE  ReadSound(Converted(t), r)
  <1> DEFINE u == Converted(t)
             dom == {q \in DOMAIN t : \A p \in Above(q) :
                         t[p].kind = "array" => Numeric(KeyAfter(p, q))}
  <1>1. /\ DOMAIN u = dom
        /\ \A p \in dom : u[p] = IF t[p].kind = "object" /\ Sequential(KeysAt(t, p))
                                 THEN Node("array") ELSE t[p]
    BY DEF Converted
  <1> HIDE DEF u
  <1>2. /\ <<>> \in DOMAIN t /\ t[<<>>].kind = "object" /\ LeavesSound(t, r)
        /\ \A p \in DOMAIN t : p \in Seq(STRING)
        /\ \A p \in DOMAIN t : p # <<>> => \E q \in DOMAIN r : q[1] = p[1]
        /\ \A q \in DOMAIN r : <<q[1]>> \in DOMAIN t
    BY DEF Built
  <1>3. Above(<<>>) = {}
    BY DEF Above
  <1>4. <<>> \in dom
    BY <1>2, <1>3
  <1>5. LeavesSound(u, r)
    <2>1. SUFFICES ASSUME NEW p \in dom, u[p].kind = "value"
                   PROVE  p \in DOMAIN r /\ u[p] = ParseValue(r[p])
      BY <1>1 DEF LeavesSound
    <2>2. CASE t[p].kind = "object" /\ Sequential(KeysAt(t, p))
      BY <1>1, <2>1, <2>2 DEF Node
    <2>3. CASE ~(t[p].kind = "object" /\ Sequential(KeysAt(t, p)))
      <3>1. u[p] = t[p]
        BY <1>1, <2>3
      <3>2. QED
        BY <1>2, <2>1, <3>1 DEF LeavesSound
    <2>4. QED
      BY <2>2, <2>3
  <1>6. ASSUME NEW path \in DOMAIN r PROVE <<path[1]>> \in dom
    <2>1. \A k : Above(<<k>>) = {<<>>}
      <3>1. ASSUME NEW k PROVE Above(<<k>>) = {<<>>}
        <4>1. Len(<<k>>) = 1 /\ 0..(1 - 1) = {0}
          OBVIOUS
        <4>2. SubSeq(<<k>>, 1, 0) = <<>>
          BY SubSeqEmpty
        <4>3. Above(<<k>>) = {SubSeq(<<k>>, 1, n) : n \in {0}}
          BY <4>1 DEF Above
        <4>4. QED
          BY <4>2, <4>3
      <3>2. QED
        BY <3>1
    <2>2. QED
      BY <1>2, <2>1
  <1>7. ASSUME u[<<>>].kind = "array" PROVE Listed(r)
    <2>1. Sequential(KeysAt(t, <<>>))
      BY <1>1, <1>2, <1>4, <1>7
    <2>2. KeysAt(t, <<>>) = {path[1] : path \in DOMAIN r}
      <3>1. \A q : IsStrictPrefix(<<>>, q) <=> q # <<>> /\ 0 <= Len(q)
        <4>1. ASSUME NEW q PROVE IsPrefix(<<>>, q) <=> 0 <= Len(q)
          <5>1. SubSeq(<<>>, 1, 0) = <<>> /\ SubSeq(q, 1, 0) = <<>> /\ Len(<<>>) = 0
            BY SubSeqEmpty
          <5>2. QED
            BY <5>1 DEF IsPrefix
        <4>2. QED
          BY <4>1 DEF IsStrictPrefix
      <3>2. \A q \in DOMAIN t : 0 <= Len(q)
        BY <1>2
      <3>3. \A q : KeyAfter(<<>>, q) = q[1]
        BY DEF KeyAfter
      <3>4. KeysAt(t, <<>>) = {q[1] : q \in DOMAIN t \ {<<>>}}
        BY <3>1, <3>2, <3>3 DEF KeysAt
      <3>5. \A path \in DOMAIN r : \E p \in DOMAIN t \ {<<>>} : path[1] = p[1]
        <4>1. \A k : <<k>> # <<>> /\ <<k>>[1] = k
          OBVIOUS
        <4>2. QED
          BY <1>2, <4>1
      <3>6. \A p \in DOMAIN t \ {<<>>} : \E path \in DOMAIN r : path[1] = p[1]
        BY <1>2
      <3>7. QED
        BY <3>4, <3>5, <3>6
    <2>3. QED
      BY <2>1, <2>2 DEF Listed
  <1>8. QED
    BY <1>1, <1>2, <1>4, <1>5, <1>6, <1>7 DEF ReadSound, u

\* What is read of a record, in whatever order its fields come.
LEMMA ReadingSound ==
    ASSUME NEW r, RecordSound(r), NEW t \in Readings(r), t # Broken
    PROVE  ReadSound(t, r)
  <1>1. PICK pairs \in SetToSeqs({<<path, r[path]>> : path \in DOMAIN r}) :
            t = Reconstruct(pairs)
    BY DEF Readings
  <1>2. /\ Len(pairs) \in Nat
        /\ \A i \in 1..Len(pairs) : pairs[i][1] \in DOMAIN r /\ pairs[i][2] = r[pairs[i][1]]
        /\ \A path \in DOMAIN r : \E i \in 1..Len(pairs) : pairs[i][1] = path
    BY PairsAreFields
  <1>3. PICK after : /\ Loop(pairs, after)
                     /\ Reconstruct(pairs) = IF after[Len(pairs)] = Broken THEN Broken
                                             ELSE Converted(after[Len(pairs)])
    BY <1>2, LoopRuns
  <1>4. Built(after[Len(pairs)], r, Inserted(pairs, Len(pairs)))
    <2>1. Len(pairs) \in 0..Len(pairs)
      BY <1>2
    <2>2. QED
      BY <1>2, <1>3, <2>1, LoopBuilds
  <1>5. Inserted(pairs, Len(pairs)) = DOMAIN r
    BY <1>2 DEF Inserted
  <1>6. after[Len(pairs)] # Broken /\ t = Converted(after[Len(pairs)])
    BY <1>1, <1>3
  <1>7. QED
    BY <1>4, <1>5, <1>6, ConvertedSound

-----------------------------------------------------------------------------
(* Which records can be read, and written back as they were. *)

\* The nodes above a path, key by key.
LEMMA AboveMeans ==
    ASSUME NEW q \in Seq(STRING), NEW p
    PROVE  p \in Above(q) <=> /\ p \in Seq(STRING) /\ Len(p) < Len(q)
                              /\ \A i \in 1..Len(p) : p[i] = q[i]
  <1>1. Len(q) \in Nat /\ \A i \in 1..Len(q) : q[i] \in STRING
    BY LenProperties
  <1>2. ASSUME NEW n \in Nat, n < Len(q)
        PROVE  /\ SubSeq(q, 1, n) \in Seq(STRING) /\ Len(SubSeq(q, 1, n)) = n
               /\ \A i \in 1..n : SubSeq(q, 1, n)[i] = q[i]
    <2>1. /\ SubSeq(q, 1, n) \in Seq(STRING)
          /\ Len(SubSeq(q, 1, n)) = IF 1 <= n THEN n - 1 + 1 ELSE 0
          /\ \A i \in 1..(n - 1 + 1) : SubSeq(q, 1, n)[i] = q[1 + i - 1]
      BY <1>1, <1>2, SubSeqProperties
    <2>2. QED
      BY <2>1
  <1>3. ASSUME p \in Above(q)
        PROVE  p \in Seq(STRING) /\ Len(p) < Len(q) /\ \A i \in 1..Len(p) : p[i] = q[i]
    <2>1. PICK n \in 0..(Len(q) - 1) : p = SubSeq(q, 1, n)
      BY <1>3 DEF Above
    <2>2. n \in Nat /\ n < Len(q)
      BY <1>1
    <2>3. QED
      BY <1>2, <2>1, <2>2
  <1>4. ASSUME p \in Seq(STRING), Len(p) < Len(q), \A i \in 1..Len(p) : p[i] = q[i]
        PROVE  p \in Above(q)
    <2> DEFINE n == Len(p)
               s == SubSeq(q, 1, n)
    <2>1. n \in Nat /\ n \in 0..(Len(q) - 1)
      BY <1>1, <1>4, LenProperties
    <2>2. s \in Seq(STRING) /\ Len(s) = n /\ \A i \in 1..n : s[i] = q[i]
      BY <1>2, <1>4, <2>1
    <2>3. p = s
      <3> HIDE DEF s
      <3>1. \A i \in 1..Len(p) : p[i] = s[i]
        BY <1>4, <2>2
      <3>2. QED
        BY <1>4, <2>2, <3>1, SeqEqual
    <2>4. QED
      BY <2>1, <2>3 DEF Above
  <1>5. QED
    BY <1>3, <1>4

\* A prefix of a path is the path or a node above it.
LEMMA PrefixMeans ==
    ASSUME NEW q \in Seq(STRING), NEW p \in Seq(STRING)
    PROVE  /\ IsPrefix(p, q) <=> p = q \/ p \in Above(q)
           /\ IsStrictPrefix(p, q) <=> p \in Above(q)
  <1>1. Len(q) \in Nat /\ Len(p) \in Nat
    BY LenProperties
  <1>2. SubSeq(p, 1, Len(p)) = p /\ SubSeq(q, 1, Len(q)) = q
    BY SubSeqFull
  <1>3. ASSUME p \in Above(q)
        PROVE  IsPrefix(p, q) /\ p # q
    <2>1. PICK n \in 0..(Len(q) - 1) : p = SubSeq(q, 1, n)
      BY <1>3 DEF Above
    <2>2. \A i \in 1..Len(q) : q[i] \in STRING
      BY LenProperties
    <2>3. n \in Int /\ n < Len(q) /\ \A i \in 1..n : q[i] \in STRING
      BY <1>1, <2>2
    <2>4. Len(SubSeq(q, 1, n)) = IF 1 <= n THEN n - 1 + 1 ELSE 0
      BY <2>3, SubSeqProperties
    <2>5. Len(p) = n
      BY <2>1, <2>4
    <2>6. SubSeq(q, 1, Len(p)) = p
      BY <2>1, <2>5
    <2>7. Len(p) <= Len(q) /\ Len(p) # Len(q)
      BY <1>1, <2>3, <2>5
    <2>8. QED
      BY <1>2, <2>6, <2>7 DEF IsPrefix
  <1>4. ASSUME IsPrefix(p, q), p # q
        PROVE  p \in Above(q)
    <2>1. Len(p) <= Len(q) /\ p = SubSeq(q, 1, Len(p))
      BY <1>2, <1>4 DEF IsPrefix
    <2>2. Len(p) # Len(q)
      BY <1>2, <1>4, <2>1
    <2>3. Len(p) \in 0..(Len(q) - 1)
      BY <1>1, <2>1, <2>2
    <2>4. QED
      BY <2>1, <2>3 DEF Above
  <1>5. IsPrefix(q, q)
    BY <1>1 DEF IsPrefix
  <1>6. QED
    BY <1>3, <1>4, <1>5 DEF IsStrictPrefix

LEMMA AboveTransitive ==
    ASSUME NEW q \in Seq(STRING), NEW s \in Above(q), NEW p \in Above(s)
    PROVE  p \in Above(q)
  <1>1. /\ s \in Seq(STRING) /\ Len(s) < Len(q) /\ \A i \in 1..Len(s) : s[i] = q[i]
    BY AboveMeans
  <1>2. /\ p \in Seq(STRING) /\ Len(p) < Len(s) /\ \A i \in 1..Len(p) : p[i] = s[i]
    BY <1>1, AboveMeans
  <1>3. Len(p) \in Nat /\ Len(s) \in Nat /\ Len(q) \in Nat
    BY <1>1, <1>2, LenProperties
  <1>4. Len(p) < Len(q) /\ \A i \in 1..Len(p) : p[i] = q[i]
    BY <1>1, <1>2, <1>3
  <1>5. QED
    BY <1>2, <1>4, AboveMeans

\* Once the value of a path above q is in the tree, q cannot be set any more.
Blocked(t, q) ==
    t = Broken \/ \E a \in Above(q) \cap DOMAIN t : t[a].kind = "value"

LEMMA ClashBlocks ==
    ASSUME NEW t, NEW path \in Paths, NEW q \in Paths, NEW v,
           path \in Above(q) \/ Blocked(t, q),
           \A p \in DOMAIN t : p \in Seq(STRING)
    PROVE  Blocked(Insert(t, path, v), q)
  <1> DEFINE u == Insert(t, path, v)
             dom == {p \in DOMAIN t : ~IsPrefix(path, p)} \cup Above(path) \cup {path}
  <1>1. path \in Seq(STRING) /\ q \in Seq(STRING)
    BY DEF Paths
  <1>2. SUFFICES ASSUME u # Broken
                 PROVE  \E a \in Above(q) \cap DOMAIN u : u[a].kind = "value"
    BY DEF Blocked
  <1>3. /\ t # Broken /\ \A p \in Above(path) \cap DOMAIN t : t[p].kind # "value"
        /\ u = [p \in dom |-> NodeAt(p, t, path, v)]
    BY <1>2 DEF Insert
  <1>4. DOMAIN u = dom /\ \A p \in dom : u[p] = NodeAt(p, t, path, v)
    BY <1>3
  <1> HIDE DEF u
  <1>5. u[path].kind = "value" /\ path \in DOMAIN u
    BY <1>4 DEF NodeAt, ParseValue
  <1>6. CASE path \in Above(q)
    BY <1>5, <1>6
  <1>7. CASE path \notin Above(q)
    <2>1. PICK a \in Above(q) \cap DOMAIN t : t[a].kind = "value"
      BY <1>3, <1>7 DEF Blocked
    <2>2. ~IsPrefix(path, a)
      <3>1. ASSUME IsPrefix(path, a) PROVE FALSE
        <4>1. path = a \/ path \in Above(a)
          BY <1>1, <3>1, PrefixMeans
        <4>2. QED
          BY <1>1, <1>7, <4>1, AboveTransitive
      <3>2. QED
        BY <3>1
    <2>3. a \in dom /\ a # path
      BY <1>7, <2>2
    <2>4. u[a] = t[a]
      BY <1>4, <2>1, <2>3 DEF NodeAt
    <2>5. QED
      BY <1>4, <2>1, <2>3, <2>4
  <1>8. QED
    BY <1>6, <1>7

\* What holds at m and is passed on holds up to n.
LEMMA Upward ==
    ASSUME NEW T, NEW n \in Nat, NEW m \in 0..n, m \in T,
           \A k \in m..(n - 1) : k \in T => k + 1 \in T
    PROVE  \A k \in m..n : k \in T
  <1> DEFINE bad == {k \in m..n : k \notin T}
  <1>1. SUFFICES ASSUME bad # {} PROVE FALSE
    OBVIOUS
  <1>2. PICK k \in bad : \A j \in bad : k <= j
    <2>1. bad \subseteq Nat
      OBVIOUS
    <2> HIDE DEF bad
    <2>2. QED
      BY <1>1, <2>1, NatMin
  <1>3. k \in m..n /\ k \notin T /\ k # m
    OBVIOUS
  <1>4. k - 1 \in m..(n - 1) /\ k - 1 \notin bad
    BY <1>2, <1>3
  <1>5. k - 1 \in T
    BY <1>3, <1>4
  <1>6. k - 1 + 1 \in T
    BY <1>4, <1>5
  <1>7. QED
    BY <1>3, <1>6

\* The fields may come in an order in which p is before q.
LEMMA SomeOrder ==
    ASSUME NEW r, RecordSound(r), NEW p \in DOMAIN r, NEW q \in DOMAIN r, p # q
    PROVE  \E pairs \in SetToSeqs({<<path, r[path]>> : path \in DOMAIN r}) :
               \E i, j \in 1..Len(pairs) : i < j /\ pairs[i][1] = p /\ pairs[j][1] = q
  <1> DEFINE S == {<<path, r[path]>> : path \in DOMAIN r}
             n == Cardinality(S)
  <1>1. IsFiniteSet(S)
    <2> DEFINE f == [path \in DOMAIN r |-> <<path, r[path]>>]
    <2>1. f \in Surjection(DOMAIN r, S)
      BY DEF Surjection
    <2>2. IsFiniteSet(DOMAIN r)
      BY DEF RecordSound
    <2> HIDE DEF f, S
    <2>3. QED
      BY <2>1, <2>2, FS_Surjection
  <1>2. n \in Nat
    BY <1>1, FS_CardinalityType
  <1>3. <<p, r[p]>> \in S /\ <<q, r[q]>> \in S /\ <<p, r[p]>> # <<q, r[q]>>
    OBVIOUS
  <1> DEFINE x == <<p, r[p]>>
             y == <<q, r[q]>>
  <1>4. x[1] = p /\ y[1] = q
    OBVIOUS
  <1> HIDE DEF S, x, y
  <1>5. x \in S /\ y \in S /\ x # y
    BY <1>3 DEF x, y
  <1>6. PICK f : f \in Bijection(1..n, S)
    <2>1. IsFiniteSet(1..n) /\ Cardinality(1..n) = n
      BY <1>2, FS_Interval
    <2>2. ExistsBijection(1..n, S)
      BY <1>1, <2>1, FS_SameCardinalityBij
    <2>3. QED
      BY <2>2 DEF ExistsBijection
  <1> HIDE DEF n
  <1>7. /\ f \in [1..n -> S] /\ \A i, j \in 1..n : f[i] = f[j] => i = j
        /\ \A s \in S : \E i \in 1..n : f[i] = s
    BY <1>6 DEF Bijection, Injection, Surjection, IsInjective
  <1>8. PICK i \in 1..n, j \in 1..n : f[i] = x /\ f[j] = y /\ i # j
    BY <1>5, <1>7
  <1> DEFINE ordered(g) == \E k, l \in 1..n : k < l /\ g[k] = x /\ g[l] = y
  <1>9. \E g \in [1..n -> S] : /\ \A k, l \in 1..n : k # l => g[k] # g[l]
                               /\ ordered(g)
    <2>1. CASE i < j
      BY <1>7, <1>8, <2>1
    <2>2. CASE ~(i < j)
      <3> DEFINE at(k) == IF k = i THEN j ELSE IF k = j THEN i ELSE k
                 g == [k \in 1..n |-> f[at(k)]]
      <3>1. \A k \in 1..n : at(k) \in 1..n
        OBVIOUS
      <3>2. \A k, l \in 1..n : at(k) = at(l) => k = l
        BY <1>8
      <3>3. at(i) = j /\ at(j) = i
        BY <1>8
      <3> HIDE DEF at
      <3>4. g \in [1..n -> S] /\ \A k \in 1..n : g[k] = f[at(k)]
        BY <1>7, <3>1
      <3> HIDE DEF g
      <3>5. \A k, l \in 1..n : k # l => g[k] # g[l]
        BY <1>7, <3>1, <3>2, <3>4
      <3>6. g[j] = x /\ g[i] = y /\ j < i
        BY <1>8, <2>2, <3>3, <3>4
      <3>7. QED
        BY <3>4, <3>5, <3>6
    <2>3. QED
      BY <2>1, <2>2
  <1>10. PICK g \in [1..n -> S] : /\ \A k, l \in 1..n : k # l => g[k] # g[l]
                                  /\ ordered(g)
    BY <1>9
  <1>11. g \in SetToSeqs(S)
    BY <1>10 DEF SetToSeqs, n
  <1>12. Len(g) = n
    <2>1. g \in Seq(S)
      BY <1>2, <1>10
    <2>2. QED
      BY <1>2, <1>10, <2>1
  <1>13. PICK k \in 1..n, l \in 1..n : k < l /\ g[k] = x /\ g[l] = y
    BY <1>10
  <1>14. k \in 1..Len(g) /\ l \in 1..Len(g) /\ g[k][1] = p /\ g[l][1] = q
    BY <1>4, <1>12, <1>13
  <1>15. QED
    BY <1>11, <1>13, <1>14 DEF S

\* A field whose place is free of other values does not break the tree.
LEMMA InsertWorks ==
    ASSUME NEW t, NEW r, RecordSound(r), ~Clash(r), NEW done, Built(t, r, done), t # Broken,
           NEW path \in DOMAIN r
    PROVE  Insert(t, path, r[path]) # Broken
  <1>1. \A p \in DOMAIN r : p \in Seq(STRING) /\ p \in Paths
    BY DEF RecordSound, Paths
  <1>2. ASSUME NEW p \in Above(path) \cap DOMAIN t, t[p].kind = "value"
        PROVE  FALSE
    <2>1. p \in DOMAIN r
      BY <1>2 DEF Built, LeavesSound
    <2>2. IsStrictPrefix(p, path)
      BY <1>1, <1>2, <2>1, PrefixMeans
    <2>3. QED
      BY <2>1, <2>2 DEF Clash
  <1> DEFINE u == Insert(t, path, r[path])
             dom == {q \in DOMAIN t : ~IsPrefix(path, q)} \cup Above(path) \cup {path}
  <1>3. u = [p \in dom |-> NodeAt(p, t, path, r[path])]
    BY <1>2 DEF Insert
  <1>4. path \in DOMAIN u
    BY <1>3
  <1>5. DOMAIN Broken = {}
    BY DEF Broken
  <1>6. u # Broken
    <2> HIDE DEF u
    <2>1. QED
      BY <1>4, <1>5
  <1>7. QED
    BY <1>6

\* The tree is no tree any more once two fields clash in this order.
LEMMA ClashingFields ==
    ASSUME NEW r, RecordSound(r), NEW pairs, NEW after, Len(pairs) \in Nat,
           Loop(pairs, after),
           \A i \in 1..Len(pairs) : pairs[i][1] \in DOMAIN r /\ pairs[i][2] = r[pairs[i][1]],
           NEW i \in 1..Len(pairs), NEW j \in 1..Len(pairs), i < j,
           IsStrictPrefix(pairs[i][1], pairs[j][1])
    PROVE  after[Len(pairs)] = Broken
  <1> DEFINE n == Len(pairs)
             p == pairs[i][1]
             q == pairs[j][1]
             T == {k \in 0..n : Blocked(after[k], q)}
             U == {k \in 0..n : after[k] = Broken}
  <1>1. \A path \in DOMAIN r : path \in Seq(STRING) /\ path \in Paths
    BY DEF RecordSound, Paths
  <1>2. p \in Above(q) /\ p \in Paths /\ q \in Paths
    BY <1>1, PrefixMeans
  <1>3. \A k \in 0..n : Built(after[k], r, Inserted(pairs, k))
    BY LoopBuilds
  <1>4. ASSUME NEW k \in 0..n, NEW x \in DOMAIN after[k]
        PROVE  x \in Seq(STRING)
    <2>1. CASE after[k] = Broken
      BY <1>4, <2>1 DEF Broken
    <2>2. CASE after[k] # Broken
      BY <1>3, <1>4, <2>2 DEF Built
    <2>3. QED
      BY <2>1, <2>2
  <1>5. ASSUME NEW k \in 1..n
        PROVE  /\ k - 1 \in 0..n /\ pairs[k][1] \in Paths
               /\ after[k] = Insert(after[k - 1], pairs[k][1], pairs[k][2])
    BY <1>1 DEF Loop
  <1>6. ASSUME NEW k \in 1..n, pairs[k][1] \in Above(q) \/ k - 1 \in T
        PROVE  k \in T
    <2>1. Blocked(Insert(after[k - 1], pairs[k][1], pairs[k][2]), q)
      <3>1. pairs[k][1] \in Above(q) \/ Blocked(after[k - 1], q)
        BY <1>6
      <3>2. \A x \in DOMAIN after[k - 1] : x \in Seq(STRING)
        BY <1>4, <1>5
      <3>3. QED
        BY <1>2, <1>5, <3>1, <3>2, ClashBlocks
    <2>2. QED
      BY <1>5, <2>1
  <1>7. \A k \in i..n : k \in T
    <2>1. i \in T /\ i \in 0..n
      BY <1>2, <1>6
    <2>2. \A k \in i..(n - 1) : k \in T => k + 1 \in T
      <3> SUFFICES ASSUME NEW k \in i..(n - 1), k \in T PROVE k + 1 \in T
        OBVIOUS
      <3>1. k + 1 \in 1..n /\ k + 1 - 1 = k
        OBVIOUS
      <3> HIDE DEF T
      <3>2. QED
        BY <1>6, <3>1
    <2> HIDE DEF T
    <2>3. QED
      BY <2>1, <2>2, Upward
  <1>8. j \in U
    <2>1. j - 1 \in T
      <3>1. j - 1 \in i..n
        OBVIOUS
      <3>2. QED
        BY <1>7, <3>1
    <2>2. Blocked(after[j - 1], q) /\ after[j] = Insert(after[j - 1], q, pairs[j][2])
      BY <1>5, <2>1
    <2>3. QED
      BY <2>2 DEF Blocked, Insert
  <1>9. \A k \in j..n : k \in U
    <2>1. \A k \in j..(n - 1) : k \in U => k + 1 \in U
      <3> SUFFICES ASSUME NEW k \in j..(n - 1), k \in U PROVE k + 1 \in U
        OBVIOUS
      <3>1. k + 1 \in 1..n /\ k + 1 - 1 = k
        OBVIOUS
      <3>2. after[k + 1] = Insert(after[k], pairs[k + 1][1], pairs[k + 1][2])
        BY <1>5, <3>1
      <3>3. QED
        BY <3>1, <3>2 DEF Insert
    <2>2. j \in 0..n
      OBVIOUS
    <2> HIDE DEF U
    <2>3. QED
      BY <1>8, <2>1, <2>2, Upward
  <1>10. n \in j..n
    OBVIOUS
  <1>11. QED
    BY <1>9, <1>10

\* A record can be read in whatever order its fields come if, and only if, no field is
\* under the place of another's value (MetadataUtils.ts 154-174).
THEOREM RecordReadable ==
    ASSUME NEW r, RecordSound(r)
    PROVE  Broken \in Readings(r) <=> Clash(r)
  <1>1. ASSUME Clash(r)
        PROVE  Broken \in Readings(r)
    <2>1. PICK p \in DOMAIN r, q \in DOMAIN r : IsStrictPrefix(p, q)
      BY <1>1 DEF Clash
    <2>2. p # q
      BY <2>1 DEF IsStrictPrefix
    <2>3. PICK pairs \in SetToSeqs({<<path, r[path]>> : path \in DOMAIN r}) :
              \E i, j \in 1..Len(pairs) : i < j /\ pairs[i][1] = p /\ pairs[j][1] = q
      BY <2>2, SomeOrder
    <2>4. /\ Len(pairs) \in Nat
          /\ \A i \in 1..Len(pairs) : pairs[i][1] \in DOMAIN r /\ pairs[i][2] = r[pairs[i][1]]
      BY PairsAreFields
    <2>5. PICK after : /\ Loop(pairs, after)
                       /\ Reconstruct(pairs) = IF after[Len(pairs)] = Broken THEN Broken
                                               ELSE Converted(after[Len(pairs)])
      BY <2>4, LoopRuns
    <2>6. PICK i \in 1..Len(pairs), j \in 1..Len(pairs) :
              i < j /\ pairs[i][1] = p /\ pairs[j][1] = q
      BY <2>3
    <2>7. after[Len(pairs)] = Broken
      BY <2>1, <2>4, <2>5, <2>6, ClashingFields
    <2>8. QED
      BY <2>5, <2>7 DEF Readings
  <1>2. ASSUME ~Clash(r), NEW t \in Readings(r)
        PROVE  t # Broken
    <2>1. PICK pairs \in SetToSeqs({<<path, r[path]>> : path \in DOMAIN r}) :
              t = Reconstruct(pairs)
      BY DEF Readings
    <2> DEFINE n == Len(pairs)
               T(after) == {k \in 0..n : after[k] # Broken}
    <2>2. /\ n \in Nat
          /\ \A i \in 1..n : pairs[i][1] \in DOMAIN r /\ pairs[i][2] = r[pairs[i][1]]
          /\ \A path \in DOMAIN r : \E i \in 1..n : pairs[i][1] = path
      BY PairsAreFields
    <2>3. PICK after : /\ Loop(pairs, after)
                       /\ Reconstruct(pairs) = IF after[n] = Broken THEN Broken
                                               ELSE Converted(after[n])
      BY <2>2, LoopRuns
    <2>4. \A k \in 0..n : Built(after[k], r, Inserted(pairs, k))
      BY <2>2, <2>3, LoopBuilds
    <2>5. 0 \in T(after) /\ 0 \in 0..n
      <3>1. <<>> \in DOMAIN EmptyTree /\ DOMAIN Broken = {}
        BY DEF EmptyTree, Only, Broken
      <3>2. QED
        BY <2>2, <2>3, <3>1 DEF Loop
    <2>6. ASSUME NEW k \in 0..(n - 1), k \in T(after)
          PROVE  k + 1 \in T(after)
      <3>1. k + 1 \in 1..n /\ k + 1 - 1 = k /\ k \in 0..n /\ k + 1 \in 0..n
        BY <2>2
      <3>2. after[k + 1] = Insert(after[k], pairs[k + 1][1], r[pairs[k + 1][1]])
        BY <2>2, <2>3, <3>1 DEF Loop
      <3>3. after[k + 1] # Broken
        BY <1>2, <2>2, <2>4, <2>6, <3>1, <3>2, InsertWorks
      <3>4. QED
        BY <3>1, <3>3
    <2>7. \A k \in 0..n : k \in T(after)
      <3> HIDE DEF T
      <3>1. QED
        BY <2>2, <2>5, <2>6, Upward
    <2>8. n \in T(after) /\ after[n] # Broken
      BY <2>2, <2>7
    <2>9. ReadSound(Converted(after[n]), r)
      <3>1. Inserted(pairs, n) = DOMAIN r
        BY <2>2 DEF Inserted
      <3>2. Built(after[n], r, DOMAIN r)
        BY <2>2, <2>4, <3>1
      <3>3. QED
        BY <2>8, <3>2, ConvertedSound
    <2>10. <<>> \in DOMAIN t
      BY <2>1, <2>3, <2>8, <2>9 DEF ReadSound
    <2>11. QED
      BY <2>10 DEF Broken
  <1>3. QED
    BY <1>1, <1>2

\* The tree of some fields of a proper record: their values, and above them arrays where
\* the parts have numbers and objects elsewhere.
Whole(t, r, done) ==
    /\ <<>> \in DOMAIN t
    /\ \A path \in done : /\ path \in DOMAIN t /\ t[path] = ParseValue(r[path])
                          /\ Above(path) \subseteq DOMAIN t
    /\ \A p \in DOMAIN t \ done :
          /\ t[p].kind # "value"
          /\ p = <<>> => t[p].kind = "object"
          /\ p # <<>> => \E path \in done : p \in Above(path)
    /\ \A p \in DOMAIN t \ {<<>>} : \A path \in DOMAIN r :
          p \in Above(path) /\ t[p].kind = "array" => Numeric(KeyAfter(p, path))

LEMMA InsertWhole ==
    ASSUME NEW r, RecordSound(r), Proper(r), NEW done \in SUBSET DOMAIN r,
           NEW t, Whole(t, r, done), t # Broken, \A p \in DOMAIN t : p \in Seq(STRING),
           NEW path \in DOMAIN r, Insert(t, path, r[path]) # Broken
    PROVE  Whole(Insert(t, path, r[path]), r, done \cup {path})
  <1> DEFINE u == Insert(t, path, r[path])
             old == {q \in DOMAIN t : ~IsPrefix(path, q)}
             dom == old \cup Above(path) \cup {path}
  <1>1. \A p \in DOMAIN r : p \in Seq(STRING) /\ p \in Paths
    BY DEF RecordSound, Paths
  <1>2. u = [p \in dom |-> NodeAt(p, t, path, r[path])]
    BY DEF Insert
  <1>3. DOMAIN u = dom /\ \A p \in dom : u[p] = NodeAt(p, t, path, r[path])
    BY <1>2
  <1> HIDE DEF u
  <1>4. ASSUME NEW q \in DOMAIN r, q # path
        PROVE  /\ ~IsPrefix(path, q)
               /\ \A a \in Above(q) : a \in DOMAIN t => a \in old
    <2>1. path \notin Above(q)
      BY <1>1, PrefixMeans DEF Proper, Clash
    <2>2. ~IsPrefix(path, q)
      BY <1>1, <1>4, <2>1, PrefixMeans
    <2>3. ASSUME NEW a \in Above(q), a \in DOMAIN t, IsPrefix(path, a)
          PROVE  FALSE
      <3>1. path = a \/ path \in Above(a)
        BY <1>1, <2>3, PrefixMeans
      <3>2. QED
        BY <1>1, <2>1, <2>3, <3>1, AboveTransitive
    <2>4. QED
      BY <2>2, <2>3
  <1>5. <<>> \in dom
    BY <1>1, AbovePath
  <1>6. ASSUME NEW p \in dom, p # path, p \in DOMAIN t
        PROVE  u[p] = t[p]
    BY <1>3, <1>6 DEF NodeAt
  <1>7. ASSUME NEW p \in dom, p # path, p \notin DOMAIN t
        PROVE  /\ p \in Above(path)
               /\ u[p].kind = IF Numeric(KeyAfter(p, path)) THEN "array" ELSE "object"
    <2>1. u[p] = Node(IF Numeric(KeyAfter(p, path)) THEN "array" ELSE "object")
      BY <1>3, <1>7 DEF NodeAt
    <2>2. \A kind : Node(kind).kind = kind
      BY DEF Node
    <2>3. u[p].kind = IF Numeric(KeyAfter(p, path)) THEN "array" ELSE "object"
      BY <2>1, <2>2, Zenon
    <2>4. QED
      BY <1>7, <2>3
  <1>8. ASSUME NEW q \in done \cup {path}
        PROVE  q \in dom /\ u[q] = ParseValue(r[q]) /\ Above(q) \subseteq dom
    <2>1. CASE q = path
      BY <1>3, <2>1 DEF NodeAt
    <2>2. CASE q # path
      <3>1. q \in DOMAIN t /\ t[q] = ParseValue(r[q]) /\ Above(q) \subseteq DOMAIN t
        BY <2>2 DEF Whole
      <3>2. q \in old /\ Above(q) \subseteq old
        BY <1>4, <2>2, <3>1
      <3>3. QED
        BY <1>6, <2>2, <3>1, <3>2
    <2>3. QED
      BY <2>1, <2>2
  <1>9. ASSUME NEW p \in dom \ (done \cup {path})
        PROVE  /\ u[p].kind # "value"
               /\ p = <<>> => u[p].kind = "object"
               /\ p # <<>> => \E q \in done \cup {path} : p \in Above(q)
    <2>1. CASE p \in DOMAIN t
      <3>1. u[p] = t[p]
        BY <1>6, <1>9, <2>1
      <3>2. QED
        BY <1>9, <2>1, <3>1 DEF Whole
    <2>2. CASE p \notin DOMAIN t
      <3>1. p # <<>>
        BY <2>2 DEF Whole
      <3>2. QED
        BY <1>7, <1>9, <2>2, <3>1
    <2>3. QED
      BY <2>1, <2>2
  <1>10. ASSUME NEW p \in dom \ {<<>>}, NEW q \in DOMAIN r, p \in Above(q), u[p].kind = "array"
         PROVE  Numeric(KeyAfter(p, q))
    <2>1. p # path
      BY <1>3, <1>10 DEF NodeAt, ParseValue
    <2>2. CASE p \in DOMAIN t
      BY <1>6, <1>10, <2>1, <2>2 DEF Whole
    <2>3. CASE p \notin DOMAIN t
      <3>1. p \in Above(path) /\ Numeric(KeyAfter(p, path))
        BY <1>7, <1>10, <2>1, <2>3
      <3>2. QED
        BY <1>10, <3>1 DEF Proper
    <2>4. QED
      BY <2>2, <2>3
  <1>11. QED
    BY <1>3, <1>5, <1>8, <1>9, <1>10 DEF Whole, u

LEMMA EmptyWhole == ASSUME NEW r PROVE Whole(EmptyTree, r, {})
  <1>1. DOMAIN EmptyTree = {<<>>} /\ EmptyTree[<<>>] = Node("object")
    BY DEF EmptyTree, Only
  <1>2. EmptyTree[<<>>].kind = "object"
    BY <1>1 DEF Node
  <1> HIDE DEF EmptyTree
  <1>3. QED
    BY <1>1, <1>2 DEF Whole

\* No key of a proper path is one that is left out.
LEMMA KeyAfterIsKey ==
    ASSUME NEW q \in Seq(STRING), NEW p \in Above(q)
    PROVE  \E i \in 1..Len(q) : KeyAfter(p, q) = q[i]
  <1>1. p \in Seq(STRING) /\ Len(p) < Len(q)
    BY AboveMeans
  <1>2. Len(p) \in Nat /\ Len(q) \in Nat
    BY <1>1, LenProperties
  <1>3. Len(p) + 1 \in 1..Len(q)
    BY <1>1, <1>2
  <1>4. QED
    BY <1>3 DEF KeyAfter

\* The whole tree, its numbered objects made arrays, has the record's fields and no other.
LEMMA WholeConverted ==
    ASSUME NEW r, RecordSound(r), Proper(r), NEW t, Whole(t, r, DOMAIN r)
    PROVE  RecordFields(Converted(t), {}) = [path \in DOMAIN r |-> ReadBack(r[path])]
  <1> DEFINE u == Converted(t)
             dom == {q \in DOMAIN t : \A p \in Above(q) :
                         t[p].kind = "array" => Numeric(KeyAfter(p, q))}
             fields == Flatten(u, {} \cup StructuralFields)
  <1>1. /\ DOMAIN u = dom
        /\ \A p \in dom : u[p] = IF t[p].kind = "object" /\ Sequential(KeysAt(t, p))
                                 THEN Node("array") ELSE t[p]
    BY DEF Converted
  <1> HIDE DEF u
  <1>2. \A p \in DOMAIN r : p \in Seq(STRING) /\ p \in Paths /\ p # <<>>
    BY DEF RecordSound, Paths
  <1>3. ASSUME NEW q \in DOMAIN r
        PROVE  q \in dom /\ u[q].kind = "value" /\ u[q].at = ReadBack(r[q])
    <2>1. q \in DOMAIN t /\ t[q] = ParseValue(r[q]) /\ Above(q) \subseteq DOMAIN t
      BY DEF Whole
    <2>2. t[q].kind = "value" /\ t[q].at = ReadBack(r[q])
      BY <2>1 DEF ParseValue
    <2>3. ASSUME NEW p \in Above(q), t[p].kind = "array"
          PROVE  Numeric(KeyAfter(p, q))
      <3>1. p \in DOMAIN t /\ p # <<>>
        BY <2>1, <2>3, <1>2 DEF Whole
      <3>2. QED
        BY <2>3, <3>1 DEF Whole
    <2>4. q \in dom
      BY <2>1, <2>3
    <2>5. u[q] = t[q]
      BY <1>1, <2>2, <2>4
    <2>6. QED
      BY <2>2, <2>4, <2>5
  <1>4. ASSUME NEW p \in dom, p \notin DOMAIN r
        PROVE  u[p].kind # "value"
    <2>1. t[p].kind # "value"
      BY <1>4 DEF Whole
    <2>2. Node("array").kind = "array"
      BY DEF Node
    <2>3. u[p] = Node("array") \/ u[p] = t[p]
      BY <1>1
    <2>4. QED
      BY <2>1, <2>2, <2>3
  <1>5. ASSUME NEW q \in DOMAIN r, NEW p \in Above(q)
        PROVE  KeyAfter(p, q) \notin {} \cup StructuralFields
    <2>1. PICK i \in 1..Len(q) : KeyAfter(p, q) = q[i]
      BY <1>2, KeyAfterIsKey
    <2>2. QED
      BY <2>1 DEF Proper
  <1>6. /\ DOMAIN fields = DOMAIN r
        /\ \A q \in DOMAIN r : fields[q] = ReadBack(r[q])
    <2>1. DOMAIN fields = {q \in dom :
                              /\ u[q].kind = "value"
                              /\ \A p \in Above(q) : u[p].kind = "object"
                                     => KeyAfter(p, q) \notin {} \cup StructuralFields}
      BY <1>1 DEF Flatten
    <2>2. DOMAIN fields = DOMAIN r
      <3> HIDE DEF fields, dom
      <3>1. QED
        BY <1>3, <1>4, <1>5, <2>1
    <2>3. \A q \in DOMAIN fields : fields[q] = u[q].at
      BY DEF Flatten
    <2>4. QED
      BY <1>3, <2>2, <2>3
  <1>7. <<"cids">> \notin DOMAIN u
    <2>1. SUFFICES ASSUME <<"cids">> \in DOMAIN t PROVE FALSE
      BY <1>1
    <2>2. PICK c : c = <<"cids">>
      OBVIOUS
    <2>3. c # <<>> /\ Len(c) = 1 /\ c[1] = "cids"
      BY <2>2
    <2>4. PICK q \in DOMAIN r : c = q \/ c \in Above(q)
      BY <2>1, <2>2, <2>3 DEF Whole
    <2>5. q[1] = "cids" /\ 1 \in 1..Len(q)
      <3>1. Len(q) \in Nat /\ Len(q) > 0
        BY <1>2, EmptySeq DEF Paths
      <3>2. c \in Above(q) => c[1] = q[1]
        BY <1>2, <2>3, AbovePath
      <3>3. QED
        BY <2>3, <2>4, <3>1, <3>2
    <2>6. QED
      BY <2>5 DEF Proper, StructuralFields
  <1>8. DOMAIN CidFields(u) = {}
    <2>1. Cids(u) = {}
      BY <1>7 DEF Cids
    <2>2. QED
      BY <2>1 DEF CidFields
  <1>9. RecordFields(u, {}) = Over(CidFields(u), fields)
    BY DEF RecordFields
  <1>10. Over(CidFields(u), fields) = [path \in DOMAIN r |-> ReadBack(r[path])]
    <2> DEFINE none == CidFields(u)
    <2>1. DOMAIN none = {}
      BY <1>8
    <2> HIDE DEF none, fields
    <2>2. Over(none, fields) =
              [k \in DOMAIN none \cup DOMAIN fields |->
                   IF k \in DOMAIN none THEN none[k] ELSE fields[k]]
      BY DEF Over
    <2>3. DOMAIN none \cup DOMAIN fields = DOMAIN r
      BY <1>6, <2>1
    <2>4. Over(none, fields) = [k \in DOMAIN r |-> ReadBack(r[k])]
      BY <1>6, <2>1, <2>2, <2>3
    <2>5. QED
      BY <2>4 DEF none
  <1>11. QED
    BY <1>9, <1>10 DEF u

\* Flattening inverts rebuilding: a record of nested metadata, of any size and depth, is
\* read in whatever order its fields come, and written back as it is but for the values
\* that parseValue() spells anew (MetadataUtils.ts 40-120, 136-258).
THEOREM RecordRoundTrips ==
    ASSUME NEW r, RecordSound(r), Proper(r)
    PROVE  RoundTrips(r)
  <1> SUFFICES ASSUME NEW t \in Readings(r)
               PROVE  /\ t # Broken
                      /\ RecordFields(t, {}) = [path \in DOMAIN r |-> ReadBack(r[path])]
    BY DEF RoundTrips
  <1>1. t # Broken
    BY RecordReadable DEF Proper
  <1>2. PICK pairs \in SetToSeqs({<<path, r[path]>> : path \in DOMAIN r}) :
            t = Reconstruct(pairs)
    BY DEF Readings
  <1> DEFINE n == Len(pairs)
             done(k) == Inserted(pairs, k)
             T(after) == {k \in 0..n : after[k] # Broken => Whole(after[k], r, done(k))}
  <1>3. /\ n \in Nat
        /\ \A i \in 1..n : pairs[i][1] \in DOMAIN r /\ pairs[i][2] = r[pairs[i][1]]
        /\ \A path \in DOMAIN r : \E i \in 1..n : pairs[i][1] = path
    BY PairsAreFields
  <1>4. PICK after : /\ Loop(pairs, after)
                     /\ Reconstruct(pairs) = IF after[n] = Broken THEN Broken
                                             ELSE Converted(after[n])
    BY <1>3, LoopRuns
  <1>5. \A k \in 0..n : Built(after[k], r, done(k)) /\ done(k) \in SUBSET DOMAIN r
    <2>1. \A k \in 0..n : Built(after[k], r, done(k))
      BY <1>3, <1>4, LoopBuilds
    <2>2. \A k \in 0..n : done(k) \in SUBSET DOMAIN r
      BY <1>3 DEF Inserted
    <2>3. QED
      BY <2>1, <2>2
  <1>6. 0 \in T(after) /\ 0 \in 0..n
    <2>1. done(0) = {} /\ after[0] = EmptyTree /\ 0 \in 0..n
      BY <1>3, <1>4 DEF Loop, Inserted
    <2> HIDE DEF done
    <2>2. QED
      BY <2>1, EmptyWhole
  <1>7. ASSUME NEW k \in 0..(n - 1), k \in T(after)
        PROVE  k + 1 \in T(after)
    <2>1. k + 1 \in 1..n /\ k + 1 - 1 = k /\ k \in 0..n /\ k + 1 \in 0..n
      BY <1>3
    <2>2. SUFFICES ASSUME after[k + 1] # Broken
                   PROVE  Whole(after[k + 1], r, done(k + 1))
      BY <2>1
    <2>3. /\ after[k + 1] = Insert(after[k], pairs[k + 1][1], r[pairs[k + 1][1]])
          /\ pairs[k + 1][1] \in DOMAIN r
      BY <1>3, <1>4, <2>1 DEF Loop
    <2>4. after[k] # Broken
      BY <2>2, <2>3 DEF Insert
    <2>5. Whole(after[k], r, done(k)) /\ \A p \in DOMAIN after[k] : p \in Seq(STRING)
      BY <1>5, <1>7, <2>1, <2>4 DEF Built
    <2>6. done(k + 1) = done(k) \cup {pairs[k + 1][1]}
      <3>1. 1..(k + 1) = 1..k \cup {k + 1}
        OBVIOUS
      <3>2. QED
        BY <3>1 DEF Inserted
    <2>7. done(k) \in SUBSET DOMAIN r
      BY <1>5, <2>1
    <2> HIDE DEF done
    <2>8. Whole(Insert(after[k], pairs[k + 1][1], r[pairs[k + 1][1]]), r,
                done(k) \cup {pairs[k + 1][1]})
      BY <2>2, <2>3, <2>4, <2>5, <2>7, InsertWhole
    <2>9. QED
      BY <2>3, <2>6, <2>8
  <1>8. \A k \in 0..n : k \in T(after)
    <2> HIDE DEF T
    <2>1. QED
      BY <1>3, <1>6, <1>7, Upward
  <1>9. after[n] # Broken /\ t = Converted(after[n])
    BY <1>1, <1>2, <1>4
  <1>10. Whole(after[n], r, DOMAIN r)
    <2>1. done(n) = DOMAIN r
      BY <1>3 DEF Inserted
    <2>2. Whole(after[n], r, done(n))
      BY <1>3, <1>8, <1>9
    <2>3. QED
      BY <2>1, <2>2
  <1>11. QED
    BY <1>1, <1>9, <1>10, WholeConverted
-----------------------------------------------------------------------------
(* What a request writes back. *)

\* The values of a tree are the record's, read back, but for the one that a request set.
ChangeSound(t, r, key, v) ==
    \A p \in DOMAIN t :
        /\ p \in Seq(STRING)
        /\ t[p].kind = "value" =>
               \/ p = key /\ t[p].at = v
               \/ p \in DOMAIN r /\ t[p].at = ReadBack(r[p])

\* The fields that stand for the CIDs of a file.
CidKeys == {<<"cids", cid>> : cid \in STRING}

\* What is written back of the fields that the request does not name.
Untouched(fields, r, key) ==
    \A path \in DOMAIN fields \ {key} :
        path \in CidKeys \/ (path \in DOMAIN r /\ fields[path] = ReadBack(r[path]))

\* What is written back of the field that it names.
Written(fields, t, key, v) ==
    ~Structural(key) /\ t[<<>>].kind # "array" => key \in DOMAIN fields /\ fields[key] = v

\* A value that is read back, by what it is.
LEMMA ReadBackIs ==
    ASSUME NEW v
    PROVE  /\ v = {"null"} => ReadBack(v) = {}
           /\ \A n \in DOMAIN Spelling : v = {n} => ReadBack(v) = {Spelling[n]}
           /\ v # {"null"} /\ v \notin Numbers => ReadBack(v) = v
  <1>1. {"null"} \notin Numbers
    BY SpellingAssumption DEF Numbers
  <1>2. v = {"null"} => ReadBack(v) = {}
    BY <1>1 DEF ReadBack
  <1>3. ASSUME NEW n \in DOMAIN Spelling, v = {n}
        PROVE  ReadBack(v) = {Spelling[n]}
    <2>1. v \in Numbers /\ v # {"null"}
      BY <1>1, <1>3 DEF Numbers
    <2>2. ReadBack(v) = {Spelling[m] : m \in v}
      BY <2>1 DEF ReadBack
    <2>3. QED
      BY <1>3, <2>2
  <1>4. v # {"null"} /\ v \notin Numbers => ReadBack(v) = v
    BY DEF ReadBack
  <1>5. QED
    BY <1>2, <1>3, <1>4

\* What a value of each type was stored as.
LEMMA TypeOfIs ==
    ASSUME NEW v
    PROVE  /\ TypeOf(v) = "null" => v \in {{}, {"null"}}
           /\ TypeOf(v) = "boolean" => v \in {{"true"}, {"false"}}
           /\ TypeOf(v) = "number" => v \in Numbers
           /\ TypeOf(v) = "string" => v # {"null"} /\ v \notin Numbers
  BY DEF TypeOf

LEMMA ReadBackStrings == ASSUME NEW v, v \subseteq STRING PROVE ReadBack(v) \subseteq STRING
  <1>1. CASE v = {"null"}
    BY <1>1, ReadBackIs
  <1>2. CASE v \in Numbers
    <2>1. PICK n \in DOMAIN Spelling : v = {n}
      BY <1>2 DEF Numbers
    <2>2. ReadBack(v) = {Spelling[n]} /\ Spelling[n] \in STRING
      BY <2>1, ReadBackIs, SpellingAssumption
    <2>3. QED
      BY <2>2
  <1>3. CASE v # {"null"} /\ v \notin Numbers
    BY <1>3, ReadBackIs
  <1>4. QED
    BY <1>1, <1>2, <1>3

LEMMA OverSound ==
    ASSUME NEW f, NEW g, RecordSound(f), RecordSound(g)
    PROVE  RecordSound(Over(f, g))
  <1>1. /\ DOMAIN Over(f, g) = DOMAIN f \cup DOMAIN g
        /\ \A k \in DOMAIN f \cup DOMAIN g :
              Over(f, g)[k] = IF k \in DOMAIN f THEN f[k] ELSE g[k]
    BY DEF Over
  <1>2. IsFiniteSet(DOMAIN f \cup DOMAIN g)
    BY FS_Union DEF RecordSound
  <1>3. QED
    BY <1>1, <1>2 DEF RecordSound

LEMMA OnlySound ==
    ASSUME NEW key \in Paths, NEW v, v \subseteq STRING
    PROVE  RecordSound(Only(key, v))
  <1>1. DOMAIN Only(key, v) = {key} /\ Only(key, v)[key] = v
    BY DEF Only
  <1>2. IsFiniteSet({key})
    BY FS_Singleton
  <1>3. QED
    BY <1>1, <1>2 DEF RecordSound

\* The CIDs of a list are finitely many, and strings.
LEMMA CidFieldsSound ==
    ASSUME NEW t, NEW r, RecordSound(r), NEW key \in Paths, NEW v, v \subseteq STRING,
           ChangeSound(t, r, key, v)
    PROVE  /\ RecordSound(CidFields(t))
           /\ \A path \in DOMAIN CidFields(t) : path[1] = "cids" /\ path \in CidKeys
  <1> DEFINE at == {p \in DOMAIN t : /\ Len(p) = 2 /\ p[1] = "cids"
                                     /\ t[p].kind = "value" /\ t[p].type = "string"}
             dom == {<<"cids", cid>> : cid \in Cids(t)}
  <1>1. DOMAIN CidFields(t) = dom /\ \A path \in dom : CidFields(t)[path] = {"true"}
    BY DEF CidFields
  <1>2. \A cid \in Cids(t) : \E p \in at : t[p].at = {cid}
    BY DEF Cids
  <1>3. \A p \in at : p \in DOMAIN r \cup {key} /\ t[p].at \subseteq STRING
    BY ReadBackStrings DEF ChangeSound, RecordSound
  <1>4. \A cid \in Cids(t) : cid \in STRING
    BY <1>2, <1>3
  <1>5. IsFiniteSet(dom)
    <2> DEFINE from == {p \in at : \E cid \in Cids(t) : t[p].at = {cid}}
               f == [p \in from |-> <<"cids", CHOOSE cid \in Cids(t) : t[p].at = {cid}>>]
    <2>1. IsFiniteSet(from)
      <3>1. IsFiniteSet(DOMAIN r \cup {key})
        BY FS_AddElement DEF RecordSound
      <3>2. from \subseteq DOMAIN r \cup {key}
        <4> HIDE DEF at
        <4>1. QED
          BY <1>3
      <3> HIDE DEF from
      <3>3. QED
        BY <3>1, <3>2, FS_Subset
    <2>2. f \in [from -> dom]
      OBVIOUS
    <2>3. ASSUME NEW x \in dom PROVE \E p \in from : f[p] = x
      <3>1. PICK cid \in Cids(t) : x = <<"cids", cid>>
        OBVIOUS
      <3>2. PICK p \in at : t[p].at = {cid}
        BY <1>2
      <3>3. p \in from
        BY <3>1, <3>2
      <3>4. (CHOOSE c \in Cids(t) : t[p].at = {c}) = cid
        BY <3>1, <3>2
      <3>5. f[p] = x
        BY <3>1, <3>3, <3>4
      <3>6. QED
        BY <3>3, <3>5
    <2> HIDE DEF from, f, dom
    <2>4. f \in Surjection(from, dom)
      BY <2>2, <2>3 DEF Surjection
    <2>5. QED
      BY <2>1, <2>4, FS_Surjection
  <1>6. ASSUME NEW path \in dom
        PROVE  /\ path \in Paths /\ path[1] = "cids" /\ path \in CidKeys
               /\ {"true"} \subseteq STRING
    <2>1. PICK cid \in STRING : path = <<"cids", cid>>
      BY <1>4
    <2>2. \A c \in STRING : /\ <<"cids", c>> \in Seq(STRING) /\ <<"cids", c>> # <<>>
                            /\ <<"cids", c>>[1] = "cids"
      BY StringAssumption
    <2>3. {"true"} \subseteq STRING
      BY StringAssumption
    <2>4. QED
      BY <2>1, <2>2, <2>3 DEF Paths, CidKeys
  <1> HIDE DEF dom
  <1>7. QED
    BY <1>1, <1>5, <1>6 DEF RecordSound

LEMMA FlattenSound ==
    ASSUME NEW t, NEW r, RecordSound(r), NEW key \in Paths, NEW v, v \subseteq STRING,
           ChangeSound(t, r, key, v), NEW excluded
    PROVE  /\ RecordSound(Flatten(t, excluded))
           /\ Untouched(Flatten(t, excluded), r, key)
  <1> DEFINE f == Flatten(t, excluded)
  <1>1. ASSUME NEW path \in DOMAIN f
        PROVE  path \in DOMAIN t /\ t[path].kind = "value" /\ f[path] = t[path].at
    BY DEF Flatten
  <1> HIDE DEF f
  <1>2. IsFiniteSet(DOMAIN f)
    <2>1. IsFiniteSet(DOMAIN r \cup {key})
      BY FS_AddElement DEF RecordSound
    <2>2. DOMAIN f \subseteq DOMAIN r \cup {key}
      BY <1>1 DEF ChangeSound
    <2>3. QED
      BY <2>1, <2>2, FS_Subset
  <1>3. ASSUME NEW path \in DOMAIN f
        PROVE  path \in Paths /\ f[path] \subseteq STRING
    BY <1>1, ReadBackStrings DEF ChangeSound, RecordSound
  <1>4. Untouched(f, r, key)
    BY <1>1 DEF Untouched, ChangeSound
  <1>5. QED
    BY <1>2, <1>3, <1>4 DEF RecordSound, f

\* buildRecordFields() of a tree that a request has changed.
LEMMA RecordFieldsSound ==
    ASSUME NEW t, NEW r, RecordSound(r), NEW key \in Paths, NEW v, v \subseteq STRING,
           ChangeSound(t, r, key, v)
    PROVE  /\ RecordSound(RecordFields(t, {}))
           /\ Untouched(RecordFields(t, {}), r, key)
  <1> DEFINE c == CidFields(t)
             f == Flatten(t, {} \cup StructuralFields)
  <1>1. RecordSound(c) /\ \A path \in DOMAIN c : path[1] = "cids" /\ path \in CidKeys
    BY CidFieldsSound
  <1>2. RecordSound(f) /\ Untouched(f, r, key)
    BY FlattenSound
  <1>3. RecordFields(t, {}) = Over(c, f)
    BY DEF RecordFields
  <1> HIDE DEF c, f
  <1>4. Untouched(Over(c, f), r, key)
    <2>1. /\ DOMAIN Over(c, f) = DOMAIN c \cup DOMAIN f
          /\ \A k \in DOMAIN c \cup DOMAIN f :
                Over(c, f)[k] = IF k \in DOMAIN c THEN c[k] ELSE f[k]
      BY DEF Over
    <2>2. QED
      BY <1>1, <1>2, <2>1 DEF Untouched
  <1>5. QED
    BY <1>1, <1>2, <1>3, <1>4, OverSound

\* The fields of the metadata in which a request set one key: nothing else is touched,
\* and the key is there, unless buildRecordFields() or an array hides it.
LEMMA ChangedSound ==
    ASSUME NEW t, NEW r, RecordSound(r), ReadSound(t, r), NEW key \in Paths,
           NEW v, v \subseteq STRING
    PROVE  /\ RecordSound(Changed(t, key, v)) /\ Untouched(Changed(t, key, v), r, key)
           /\ Written(Changed(t, key, v), t, key, v)
  <1>1. ChangeSound(t, r, key, v)
    BY DEF ReadSound, LeavesSound, ChangeSound, ParseValue
  <1>3. key \in Seq(STRING) /\ Len(key) \in Nat /\ Len(key) # 0
    BY DEF Paths
  <1>4. CASE ~Nested(key)
    <2> DEFINE u == With(t, key, v)
    <2>1. Len(key) = 1 /\ key = <<key[1]>>
      <3>1. ~(Len(key) > 1)
        BY <1>4 DEF Nested
      <3>2. \A n \in Nat : n # 0 /\ ~(n > 1) => n = 1
        OBVIOUS
      <3>3. Len(key) = 1
        BY <1>3, <3>1, <3>2
      <3>4. QED
        BY <1>3, <3>3, OneLong
    <2>2. Changed(t, key, v) = RecordFields(u, {})
      BY <1>4 DEF Changed
    <2>3. /\ u = t
          \/ /\ DOMAIN u \subseteq DOMAIN t \cup {key} /\ u[key] = Leaf(v)
             /\ key \in DOMAIN u
             /\ \A p \in DOMAIN u \ {key} : p \in DOMAIN t /\ u[p] = t[p]
      <3>1. CASE t[<<>>].kind = "array" /\ ~Numeric(key[1])
        BY <3>1 DEF With
      <3>2. CASE ~(t[<<>>].kind = "array" /\ ~Numeric(key[1]))
        <4>1. u = Over(Only(key, Leaf(v)), Without(t, key))
          BY <3>2 DEF With
        <4>2. DOMAIN Only(key, Leaf(v)) = {key} /\ Only(key, Leaf(v))[key] = Leaf(v)
          BY DEF Only
        <4>3. /\ DOMAIN Without(t, key) \subseteq DOMAIN t
              /\ \A p \in DOMAIN Without(t, key) : Without(t, key)[p] = t[p]
          BY DEF Without, Restrict
        <4> HIDE DEF u
        <4>4. QED
          BY <4>1, <4>2, <4>3 DEF Over
      <3>3. QED
        BY <3>1, <3>2
    <2>4. ChangeSound(u, r, key, v)
      <3>1. CASE u = t
        BY <1>1, <3>1
      <3>2. CASE u # t
        <4>1. Leaf(v).at = v
          BY DEF Leaf
        <4> HIDE DEF u
        <4>2. QED
          BY <1>1, <1>3, <2>3, <3>2, <4>1 DEF ChangeSound
      <3>3. QED
        BY <3>1, <3>2
    <2>5. ASSUME ~Structural(key), t[<<>>].kind # "array"
          PROVE  key \in DOMAIN Changed(t, key, v) /\ Changed(t, key, v)[key] = v
      <3> DEFINE f == Flatten(u, {} \cup StructuralFields)
      <3>1. /\ u = Over(Only(key, Leaf(v)), Without(t, key))
            /\ key \in DOMAIN u /\ u[key] = Leaf(v)
        BY <2>5 DEF With, Over, Only
      <3>2. u[key].kind = "value" /\ u[key].at = v
        <4>1. Leaf(v).kind = "value" /\ Leaf(v).at = v
          BY DEF Leaf
        <4> HIDE DEF u
        <4>2. QED
          BY <3>1, <4>1
      <3>3. \A p \in Above(key) : KeyAfter(p, key) = key[1]
        <4>1. 0..(Len(key) - 1) = {0}
          BY <2>1
        <4>2. \A p \in Above(key) : p = <<>>
          <5>1. SubSeq(key, 1, 0) = <<>>
            BY SubSeqEmpty
          <5>2. Above(key) = {SubSeq(key, 1, n) : n \in {0}}
            BY <4>1 DEF Above
          <5>3. QED
            BY <5>1, <5>2
        <4>3. KeyAfter(<<>>, key) = key[1]
          BY DEF KeyAfter
        <4>4. QED
          BY <4>2, <4>3
      <3>4. key[1] \notin {} \cup StructuralFields
        <4>1. key[1] # "cids" /\ key # <<"hashId">>
          BY <2>5 DEF Structural
        <4>2. key[1] # "hashId"
          BY <2>1, <4>1
        <4>3. QED
          BY <4>1, <4>2 DEF StructuralFields
      <3> HIDE DEF u
      <3>5. key \in DOMAIN f /\ f[key] = v
        BY <3>1, <3>2, <3>3, <3>4 DEF Flatten
      <3>6. key \notin DOMAIN CidFields(u)
        BY <2>4, <2>5, CidFieldsSound DEF Structural
      <3> HIDE DEF f
      <3>7. key \in DOMAIN Over(CidFields(u), f) /\ Over(CidFields(u), f)[key] = v
        BY <3>5, <3>6 DEF Over
      <3>8. QED
        BY <2>2, <3>7 DEF RecordFields, f
    <2> HIDE DEF u
    <2>6. QED
      BY <2>2, <2>4, <2>5, RecordFieldsSound DEF Written
  <1>5. CASE Nested(key) /\ t[<<>>].kind = "array"
    <2>1. Changed(t, key, v) = RecordFields(t, {})
      BY <1>5 DEF Changed
    <2>2. QED
      BY <1>1, <1>5, <2>1, RecordFieldsSound DEF Written
  <1>6. CASE Nested(key) /\ t[<<>>].kind # "array"
    <2> DEFINE c == CidFields(t)
               o == Only(key, v)
               f == Flatten(t, StructuralFields)
    <2>1. Changed(t, key, v) = Over(c, Over(o, f))
      BY <1>6 DEF Changed
    <2>2. RecordSound(c) /\ \A path \in DOMAIN c : path[1] = "cids" /\ path \in CidKeys
      BY <1>1, CidFieldsSound
    <2>3. RecordSound(f) /\ Untouched(f, r, key)
      BY <1>1, FlattenSound
    <2>4. RecordSound(o) /\ DOMAIN o = {key} /\ o[key] = v
      BY OnlySound DEF Only
    <2> HIDE DEF c, o, f
    <2>5. /\ DOMAIN Over(o, f) = DOMAIN f \cup {key} /\ Over(o, f)[key] = v
          /\ \A k \in DOMAIN f \ {key} : Over(o, f)[k] = f[k]
      BY <2>4 DEF Over
    <2>6. /\ DOMAIN Over(c, Over(o, f)) = DOMAIN c \cup DOMAIN f \cup {key}
          /\ \A k \in DOMAIN c : Over(c, Over(o, f))[k] = c[k]
          /\ \A k \in (DOMAIN f \cup {key}) \ DOMAIN c :
                 Over(c, Over(o, f))[k] = Over(o, f)[k]
      BY <2>5 DEF Over
    <2>7. Untouched(Over(c, Over(o, f)), r, key)
      BY <2>2, <2>3, <2>5, <2>6 DEF Untouched
    <2>8. RecordSound(Over(c, Over(o, f)))
      BY <2>2, <2>3, <2>4, OverSound
    <2>9. ~Structural(key) => Over(c, Over(o, f))[key] = v
      BY <2>2, <2>5, <2>6 DEF Structural
    <2>10. QED
      BY <2>1, <2>6, <2>7, <2>8, <2>9 DEF Written
  <1>7. QED
    BY <1>4, <1>5, <1>6

\* What a request that has read the record will write back.
Fits(route, r) ==
    /\ Untouched(route.fields, r, route.key)
    /\ ~Structural(route.key) /\ (route.op = "patch" \/ ~Listed(r)) =>
          /\ route.op \in {"set", "patch"} =>
                 route.key \in DOMAIN route.fields /\ route.fields[route.key] = route.value
          /\ route.op = "add" =>
                 /\ route.key \in DOMAIN route.fields
                 /\ route.value \subseteq route.fields[route.key]
                 /\ ~Nested(route.key) /\ route.key \in DOMAIN r =>
                        \/ r[route.key] \subseteq route.fields[route.key]
                        \/ ReadAsNothing(r[route.key])

\* What _add finds at a key of the record: all of its parts, unless it takes it for nothing.
LEMMA CurrentSound ==
    ASSUME NEW t, NEW r, RecordSound(r), ReadSound(t, r), NEW key \in Paths,
           ~CannotAdd(t, key)
    PROVE  /\ Current(t, key) \subseteq STRING
           /\ ~Nested(key) /\ key \in DOMAIN r =>
                  r[key] \subseteq Current(t, key) \/ ReadAsNothing(r[key])
  <1>1. Current(t, key) \subseteq STRING
    <2>1. CASE Nested(key) \/ key \notin DOMAIN t \/ t[key].kind # "value" \/ Falsy(t[key])
      BY <2>1 DEF Current
    <2>2. CASE ~(\/ Nested(key) \/ key \notin DOMAIN t \/ t[key].kind # "value"
                 \/ Falsy(t[key]))
      <3>1. Current(t, key) = t[key].at
        BY <2>2 DEF Current
      <3>2. key \in DOMAIN r /\ t[key].at = ReadBack(r[key])
        BY <2>2 DEF ReadSound, LeavesSound, ParseValue
      <3>3. QED
        BY <3>1, <3>2, ReadBackStrings DEF RecordSound
    <2>3. QED
      BY <2>1, <2>2
  <1>2. ASSUME ~Nested(key), key \in DOMAIN r
        PROVE  r[key] \subseteq Current(t, key) \/ ReadAsNothing(r[key])
    <2>1. key = <<key[1]>>
      <3>1. key \in Seq(STRING) /\ Len(key) \in Nat /\ Len(key) # 0 /\ ~(Len(key) > 1)
        BY <1>2 DEF Paths, Nested
      <3>2. \A n \in Nat : n # 0 /\ ~(n > 1) => n = 1
        OBVIOUS
      <3>3. Len(key) = 1
        BY <3>1, <3>2
      <3>4. QED
        BY <3>1, <3>3, OneLong
    <2>2. key \in DOMAIN t
      BY <1>2, <2>1 DEF ReadSound
    <2>3. t[key].kind = "value" /\ (t[key].type = "string" \/ Falsy(t[key]))
      BY <1>2, <2>2 DEF CannotAdd
    <2>4. t[key].at = ReadBack(r[key]) /\ t[key].type = TypeOf(r[key])
      BY <1>2, <2>2, <2>3 DEF ReadSound, LeavesSound, ParseValue
    <2>5. CASE ~Falsy(t[key])
      <3>1. TypeOf(r[key]) = "string"
        BY <2>3, <2>4, <2>5
      <3>2. ReadBack(r[key]) = r[key]
        BY <3>1, TypeOfIs, ReadBackIs
      <3>3. Current(t, key) = t[key].at
        BY <1>2, <2>2, <2>3, <2>5 DEF Current
      <3>4. QED
        BY <2>4, <3>2, <3>3
    <2>6. CASE Falsy(t[key])
      <3>1. \/ TypeOf(r[key]) = "null"
            \/ TypeOf(r[key]) = "boolean" /\ ReadBack(r[key]) = {"false"}
            \/ TypeOf(r[key]) = "number" /\ ReadBack(r[key]) = {"0"}
        BY <2>4, <2>6 DEF Falsy
      <3>2. CASE TypeOf(r[key]) = "null"
        BY <3>2, TypeOfIs DEF ReadAsNothing
      <3>3. CASE TypeOf(r[key]) = "boolean" /\ ReadBack(r[key]) = {"false"}
        <4>1. r[key] \in {{"true"}, {"false"}}
          BY <3>3, TypeOfIs
        <4>2. {"true"} \notin Numbers
          BY SpellingAssumption DEF Numbers
        <4>3. {"true"} # {"null"} /\ {"true"} # {"false"}
          OBVIOUS
        <4>4. r[key] # {"true"}
          BY <3>3, <4>2, <4>3, ReadBackIs
        <4>5. QED
          BY <4>1, <4>4 DEF ReadAsNothing
      <3>4. CASE TypeOf(r[key]) = "number" /\ ReadBack(r[key]) = {"0"}
        <4>1. PICK n \in DOMAIN Spelling : r[key] = {n}
          BY <3>4, TypeOfIs DEF Numbers
        <4>2. {Spelling[n]} = {"0"}
          BY <3>4, <4>1, ReadBackIs
        <4>3. Spelling[n] = "0"
          BY <4>2
        <4>4. QED
          BY <4>1, <4>3 DEF ReadAsNothing
      <3>5. QED
        BY <3>1, <3>2, <3>3, <3>4
    <2>7. QED
      BY <2>5, <2>6
  <1>3. QED
    BY <1>1, <1>2

\* What RouteRead() leaves to be written.
LEMMA FieldsOfSound ==
    ASSUME NEW t, NEW r, RecordSound(r), ReadSound(t, r), NEW route,
           route.op \in {"set", "patch", "add", "delete"}, route.key \in Paths,
           route.value \subseteq STRING, route.op = "add" => ~CannotAdd(t, route.key),
           NEW written, written.op = route.op, written.key = route.key,
           written.value = route.value, written.fields = FieldsOf(route, t)
    PROVE  RecordSound(written.fields) /\ Fits(written, r)
  <1> DEFINE key == route.key
             fields == FieldsOf(route, t)
  <1>5. ~Listed(r) => t[<<>>].kind # "array"
    BY DEF ReadSound
  <1>1. CASE route.op = "set"
    <2>1. fields = Changed(t, key, route.value)
      BY <1>1 DEF FieldsOf
    <2>2. /\ RecordSound(fields) /\ Untouched(fields, r, key)
          /\ Written(fields, t, key, route.value)
      BY <2>1, ChangedSound
    <2> HIDE DEF fields
    <2>3. QED
      BY <1>1, <1>5, <2>2 DEF Fits, Written, fields
  <1>6. CASE route.op = "patch"
    <2> DEFINE u == Spread(t)
    <2>1. fields = Changed(u, key, route.value)
      BY <1>6 DEF FieldsOf
    <2>2. /\ DOMAIN u = DOMAIN t /\ u[<<>>] = Node("object")
          /\ \A p \in DOMAIN t \ {<<>>} : u[p] = t[p]
      BY DEF Spread, ReadSound
    <2>3. Node("object").kind = "object"
      BY DEF Node
    <2> HIDE DEF u
    <2>4. u[<<>>].kind = "object"
      BY <2>2, <2>3
    <2>5. ReadSound(u, r)
      BY <2>2, <2>4 DEF ReadSound, LeavesSound
    <2>6. /\ RecordSound(fields) /\ Untouched(fields, r, key)
          /\ Written(fields, u, key, route.value)
      BY <2>1, <2>5, ChangedSound
    <2> HIDE DEF fields
    <2>7. QED
      BY <1>6, <2>4, <2>6 DEF Fits, Written, fields
  <1>2. CASE route.op = "add"
    <2>1. PICK v : v = Current(t, key) \cup route.value
      OBVIOUS
    <2>2. /\ v \subseteq STRING /\ route.value \subseteq v
          /\ ~Nested(key) /\ key \in DOMAIN r => r[key] \subseteq v \/ ReadAsNothing(r[key])
      BY <1>2, <2>1, CurrentSound
    <2>3. /\ RecordSound(fields) /\ Untouched(fields, r, key)
          /\ Written(fields, t, key, v)
      <3>1. fields = Changed(t, key, v)
        BY <1>2, <2>1 DEF FieldsOf
      <3>2. v \subseteq STRING
        BY <2>2
      <3>3. QED
        BY <3>1, <3>2, ChangedSound
    <2> HIDE DEF fields
    <2>4. QED
      BY <1>2, <1>5, <2>2, <2>3 DEF Fits, Written, fields
  <1>3. CASE route.op = "delete"
    <2>1. PICK u : /\ fields = RecordFields(u, {})
                   /\ u = t \/ u = Without(t, key)
      BY <1>3 DEF FieldsOf
    <2>2. ChangeSound(u, r, key, {})
      <3>1. DOMAIN u \subseteq DOMAIN t /\ \A p \in DOMAIN u : u[p] = t[p]
        BY <2>1 DEF Without, Restrict
      <3>2. QED
        BY <3>1 DEF ReadSound, LeavesSound, ChangeSound, ParseValue
    <2>3. {} \subseteq STRING
      OBVIOUS
    <2>4. RecordSound(fields) /\ Untouched(fields, r, key)
      BY <2>1, <2>2, <2>3, RecordFieldsSound
    <2> HIDE DEF fields
    <2>5. QED
      BY <1>3, <2>4 DEF Fits, Written, fields
  <1>4. QED
    BY <1>1, <1>2, <1>3, <1>6

\* What a request may be at: while nobody overtakes it, what it will write fits the record.
RouteSound(route, r) ==
    /\ route.at \in {"idle", "read", "write"} /\ route.alone \in BOOLEAN
    /\ route.at # "idle" => /\ route.op \in {"set", "patch", "add", "delete"} /\ route.key \in Paths
                            /\ route.value \subseteq STRING
    /\ route.at = "write" => RecordSound(route.fields)
    /\ route.at = "write" /\ route.alone => Fits(route, r)

RecordInv ==
    /\ RecordSound(record)
    /\ DOMAIN routes = Writers
    /\ \A w \in Writers : RouteSound(routes[w], record)

LEMMA NoRouteSound == ASSUME NEW r PROVE RouteSound(NoRoute, r)
  <1>1. TRUE \in BOOLEAN
    OBVIOUS
  <1>2. QED
    BY <1>1 DEF NoRoute, RouteSound

LEMMA OvertakenSound ==
    ASSUME NEW route, NEW r, NEW q, RouteSound(route, r)
    PROVE  RouteSound(Overtaken(route), q)
  <1>1. CASE route.at = "write"
    <2>1. FALSE \in BOOLEAN
      OBVIOUS
    <2>2. QED
      BY <1>1, <2>1 DEF RouteSound, Overtaken, AtWrite
  <1>2. CASE route.at # "write"
    BY <1>2 DEF RouteSound, Overtaken
  <1>3. QED
    BY <1>1, <1>2

LEMMA RecordInitSound == KVInit => RecordInv
  <1> SUFFICES ASSUME KVInit PROVE RecordInv
    OBVIOUS
  <1>1. record = Stored /\ routes = [w \in Writers |-> NoRoute]
    BY DEF KVInit, RecordInit
  <1>2. RecordSound(Stored)
    BY RecordAssumption DEF RecordSound
  <1>3. QED
    BY <1>1, <1>2, NoRouteSound DEF RecordInv

\* A write puts a sound record in the place of a sound one.
LEMMA MergedSound ==
    ASSUME NEW r, NEW fields, RecordSound(r), RecordSound(fields)
    PROVE  RecordSound(Merged(r, fields))
  BY OverSound DEF Merged

LEMMA BeginKeeps ==
    ASSUME RecordInv, NEW w \in Writers, RouteBegins(w)
    PROVE  RecordInv'
  <1>1. PICK op \in {"set", "patch", "add", "delete"}, key \in Keys, v \in Values \cup {{}} :
           Begin(w, op, key, v)
    BY DEF RouteBegins
  <1> DEFINE new == [at |-> "read", op |-> op, key |-> key, value |-> v,
                     fields |-> <<>>, alone |-> TRUE]
  <1>3. record' = record /\ routes' = [routes EXCEPT ![w] = new]
    BY <1>1 DEF Begin
  <1>4. key \in Paths /\ v \subseteq STRING
    BY RecordAssumption
  <1>5. RouteSound(new, record)
    <2>1. TRUE \in BOOLEAN
      OBVIOUS
    <2>2. QED
      BY <1>4, <2>1 DEF RouteSound
  <1> HIDE DEF new
  <1>6. QED
    BY <1>3, <1>5 DEF RecordInv

\* A reply, and a read that fails.
LEMMA ReplyKeeps ==
    ASSUME RecordInv, NEW w \in Writers, Reply(w), record' = record
    PROVE  RecordInv'
  BY NoRouteSound DEF RecordInv, Reply

LEMMA ReadRouteKeeps ==
    ASSUME RecordInv, NEW w \in Writers, RouteRead(w)
    PROVE  RecordInv'
  <1> DEFINE route == routes[w]
  <1>1. PICK t \in Readings(record) :
           IF t = Broken \/ (route.op = "add" /\ CannotAdd(t, route.key))
           THEN Reply(w)
           ELSE routes' = [routes EXCEPT ![w] = AtWrite(route, FieldsOf(route, t), TRUE)]
    BY DEF RouteRead
  <1>2. route.at = "read" /\ record' = record
    BY DEF RouteRead
  <1>3. CASE t = Broken \/ (route.op = "add" /\ CannotAdd(t, route.key))
    BY <1>1, <1>2, <1>3, ReplyKeeps
  <1>4. CASE ~(t = Broken \/ (route.op = "add" /\ CannotAdd(t, route.key)))
    <2> DEFINE new == AtWrite(route, FieldsOf(route, t), TRUE)
    <2>1. RouteSound(route, record) /\ RecordSound(record) /\ DOMAIN routes = Writers
      BY DEF RecordInv
    <2>2. routes' = [routes EXCEPT ![w] = new]
      BY <1>1, <1>4
    <2>3. ReadSound(t, record)
      BY <1>4, <2>1, ReadingSound
    <2>4. RecordSound(new.fields) /\ Fits(new, record)
      <3>1. /\ new.op = route.op /\ new.key = route.key /\ new.value = route.value
            /\ new.fields = FieldsOf(route, t)
        BY DEF AtWrite
      <3>2. /\ route.op \in {"set", "patch", "add", "delete"} /\ route.key \in Paths
            /\ route.value \subseteq STRING
        BY <1>2, <2>1 DEF RouteSound
      <3> HIDE DEF new
      <3>3. QED
        BY <1>4, <2>1, <2>3, <3>1, <3>2, FieldsOfSound
    <2>5. RouteSound(new, record)
      <3>1. TRUE \in BOOLEAN
        OBVIOUS
      <3>2. QED
        BY <1>2, <2>1, <2>4, <3>1 DEF RouteSound, AtWrite
    <2> HIDE DEF new
    <2>6. QED
      BY <1>2, <2>1, <2>2, <2>5 DEF RecordInv
  <1>5. QED
    BY <1>3, <1>4

LEMMA WriteRouteKeeps ==
    ASSUME RecordInv, NEW w \in Writers, RouteWrite(w)
    PROVE  RecordInv'
  <1>1. /\ routes[w].at = "write" /\ record' = Merged(record, routes[w].fields)
        /\ routes' = [v \in Writers |-> IF v = w THEN NoRoute ELSE Overtaken(routes[v])]
    BY DEF RouteWrite, AllOvertaken
  <1>2. RecordSound(record')
    BY <1>1, MergedSound DEF RecordInv, RouteSound
  <1>3. ASSUME NEW v \in Writers PROVE RouteSound(routes'[v], record')
    BY <1>1, NoRouteSound, OvertakenSound DEF RecordInv
  <1>4. QED
    BY <1>1, <1>2, <1>3 DEF RecordInv

LEMMA OtherWriterKeeps ==
    ASSUME RecordInv, OtherWriter
    PROVE  RecordInv'
  <1>1. RecordSound(record') /\ routes' = [v \in Writers |-> Overtaken(routes[v])]
    <2>1. CASE DropRecord
      <3>1. record' = <<>> /\ DOMAIN <<>> = {} /\ IsFiniteSet({})
        BY <2>1, FS_EmptySet DEF DropRecord
      <3>2. QED
        BY <2>1, <3>1 DEF DropRecord, AllOvertaken, RecordSound
    <2>2. CASE \E key \in Keys, v \in Values : Store(key, v)
      <3>1. PICK key \in Keys, v \in Values : Store(key, v)
        BY <2>2
      <3>2. key \in Paths /\ v \subseteq STRING
        BY RecordAssumption
      <3>3. QED
        BY <3>1, <3>2, OnlySound, MergedSound DEF Store, AllOvertaken, RecordInv
    <2>3. QED
      BY <2>1, <2>2 DEF OtherWriter
  <1>2. ASSUME NEW v \in Writers PROVE RouteSound(routes'[v], record')
    BY <1>1, OvertakenSound DEF RecordInv
  <1>3. QED
    BY <1>1, <1>2 DEF RecordInv

LEMMA RecordStep == RecordInv /\ [KVNext]_kvVars => RecordInv'
  <1> SUFFICES ASSUME RecordInv, [KVNext]_kvVars PROVE RecordInv'
    OBVIOUS
  <1>1. CASE ManagerStep
    <2>1. /\ record' = record
          /\ routes' = [w \in Writers |-> NoRoute] \/ routes' = routes
      BY <1>1 DEF ManagerStep
    <2>2. QED
      BY <2>1, NoRouteSound DEF RecordInv
  <1>2. CASE OtherWriter
    BY <1>2, OtherWriterKeeps
  <1>3. CASE \E w \in Writers : RouteBegins(w)
    BY <1>3, BeginKeeps
  <1>4. CASE \E w \in Writers : RouteGoesOn(w)
    <2>1. PICK w \in Writers : RouteRead(w) \/ RouteWrite(w) \/ RouteFails(w)
      BY <1>4 DEF RouteGoesOn
    <2>2. CASE RouteFails(w)
      BY <2>2, ReplyKeeps DEF RouteFails
    <2>3. QED
      BY <2>1, <2>2, ReadRouteKeeps, WriteRouteKeeps
  <1>5. CASE UNCHANGED kvVars
    <2>1. record' = record /\ routes' = routes
      BY <1>5 DEF kvVars, recordVars
    <2>2. QED
      BY <2>1 DEF RecordInv
  <1>6. QED
    BY <1>1, <1>2, <1>3, <1>4, <1>5 DEF KVNext

\* The invariant of the record and its requests.
THEOREM KVRecordInvariant == KVSpec => []RecordInv
  <1>1. QED
    BY RecordInitSound, RecordStep, PTL DEF KVSpec

\* The one write that ends a request which nobody overtook.
LEMMA WriteKept ==
    ASSUME RecordInv, NEW w \in Writers, RouteWrite(w), routes[w].alone
    PROVE  Kept(w)
  <1> DEFINE key == routes[w].key
             fields == routes[w].fields
  <1>1. Fits(routes[w], record)
    BY DEF RecordInv, RouteSound, RouteWrite
  <1>2. /\ DOMAIN record' = DOMAIN fields \cup DOMAIN record
        /\ \A path \in DOMAIN fields \cup DOMAIN record :
              record'[path] = IF path \in DOMAIN fields THEN fields[path] ELSE record[path]
    BY DEF RouteWrite, Merged, Over
  <1>3. \A v : ReadBack(v) \in SameOrReadBack(v) /\ v \in SameOrReadBack(v)
    <2>1. ASSUME NEW v PROVE ReadBack(v) \in SameOrReadBack(v) /\ v \in SameOrReadBack(v)
      <3>1. CASE v \in Numbers
        <4>1. PICK n \in DOMAIN Spelling : v = {n}
          BY <3>1 DEF Numbers
        <4>2. ReadBack(v) = {Spelling[n]}
          BY <4>1, ReadBackIs
        <4>3. QED
          BY <4>1, <4>2 DEF SameOrReadBack
      <3>2. CASE v = {"null"}
        BY <3>2, ReadBackIs DEF SameOrReadBack
      <3>3. CASE v \notin Numbers /\ v # {"null"}
        BY <3>3, ReadBackIs DEF SameOrReadBack
      <3>4. QED
        BY <3>1, <3>2, <3>3
    <2>2. QED
      BY <2>1
  <1>4. ASSUME NEW path \in DOMAIN record' \ {key}
        PROVE  \/ path[1] = "cids"
               \/ path \in DOMAIN record /\ record'[path] \in SameOrReadBack(record[path])
    <2>1. path \in CidKeys => path[1] = "cids"
      BY DEF CidKeys
    <2>2. QED
      BY <1>1, <1>2, <1>3, <2>1 DEF Fits, Untouched
  <1>5. ASSUME ~Structural(key), routes[w].op = "patch" \/ ~Listed(record)
        PROVE  /\ routes[w].op \in {"set", "patch"} => record'[key] = routes[w].value
               /\ routes[w].op = "add" =>
                     /\ routes[w].value \subseteq record'[key]
                     /\ ~Nested(key) /\ key \in DOMAIN record =>
                            \/ record[key] \subseteq record'[key]
                            \/ ReadAsNothing(record[key])
    BY <1>1, <1>2, <1>5 DEF Fits
  <1>6. QED
    BY <1>2, <1>4, <1>5 DEF Kept

\* A request that nobody overtakes changes its own key of the record and no other, but for
\* the numbers, which come back as JavaScript spells them, whichever they are, and null; it
\* writes its value, and what _add puts it into stays unless it is null, false or a zero
\* (UnifiedAPIServer.ts 1302-1420, RedisClient.ts 323-395, MetadataUtils.ts 39-275).
THEOREM KVRecordsKept == KVSpec => RecordsKept
  <1>1. ASSUME RecordInv, [KVNext]_kvVars, NEW w \in Writers,
               routes[w].at = "write", routes'[w].at = "idle", routes[w].alone,
               record' # record
        PROVE  Kept(w)
    <2>1. CASE ManagerStep
      BY <1>1, <2>1 DEF ManagerStep
    <2>2. CASE OtherWriter
      <3>1. routes'[w] = Overtaken(routes[w])
        BY <2>2 DEF OtherWriter, DropRecord, Store, AllOvertaken
      <3>2. QED
        BY <1>1, <3>1 DEF Overtaken, AtWrite
    <2>3. CASE \E v \in Writers : RouteBegins(v)
      BY <1>1, <2>3 DEF RouteBegins, Begin
    <2>4. CASE \E v \in Writers : RouteGoesOn(v)
      <3>1. PICK v \in Writers : RouteWrite(v)
        BY <1>1, <2>4 DEF RouteGoesOn, RouteRead, RouteFails
      <3>2. v = w
        <4>1. v # w => routes'[w] = Overtaken(routes[w])
          BY <3>1 DEF RouteWrite, AllOvertaken
        <4>2. QED
          BY <1>1, <4>1 DEF Overtaken, AtWrite
      <3>3. QED
        BY <1>1, <3>1, <3>2, WriteKept
    <2>5. CASE UNCHANGED kvVars
      BY <1>1, <2>5 DEF kvVars, recordVars
    <2>6. QED
      BY <1>1, <2>1, <2>2, <2>3, <2>4, <2>5 DEF KVNext
  <1>2. RecordInv /\ [KVNext]_kvVars =>
            [\A w \in Writers :
                 routes[w].at = "write" /\ routes'[w].at = "idle" /\ routes[w].alone
                     /\ record' # record => Kept(w)]_recordVars
    BY <1>1
  <1>3. QED
    BY <1>2, KVRecordInvariant, PTL DEF KVSpec, RecordsKept
-----------------------------------------------------------------------------
(* When the record can always be read. *)

\* The fields that somebody names, or that stand for a CID.
Fields == Keys \cup DOMAIN Stored \cup CidKeys

FieldsClash == \E p, q \in Fields : IsStrictPrefix(p, q)

FieldsInv ==
    /\ DOMAIN record \subseteq Fields
    /\ \A w \in Writers :
           /\ routes[w].at # "idle" => routes[w].key \in Keys
           /\ routes[w].at = "write" => DOMAIN routes[w].fields \subseteq Fields

\* A read leaves nothing to be written but fields of the record, the key, and CIDs.
LEMMA FieldsRead ==
    ASSUME RecordInv, RecordInv', FieldsInv, NEW w \in Writers, RouteRead(w)
    PROVE  FieldsInv'
  <1> DEFINE route == routes[w]
  <1>1. PICK t \in Readings(record) :
           IF t = Broken \/ (route.op = "add" /\ CannotAdd(t, route.key))
           THEN Reply(w)
           ELSE routes' = [routes EXCEPT ![w] = AtWrite(route, FieldsOf(route, t), TRUE)]
    BY DEF RouteRead
  <1>2. route.at = "read" /\ record' = record /\ DOMAIN routes = Writers
    BY DEF RouteRead, RecordInv
  <1>3. CASE routes' = [routes EXCEPT ![w] = NoRoute]
    BY <1>2, <1>3 DEF FieldsInv, NoRoute
  <1>4. CASE routes' = [routes EXCEPT ![w] = AtWrite(route, FieldsOf(route, t), TRUE)]
    <2>1. /\ routes'[w] = AtWrite(route, FieldsOf(route, t), TRUE)
          /\ \A v \in Writers \ {w} : routes'[v] = routes[v]
      BY <1>2, <1>4
    <2>2. routes'[w].at = "write" /\ routes'[w].alone /\ routes'[w].key = route.key
      BY <2>1 DEF AtWrite
    <2>3. route.key \in Keys
      BY <1>2 DEF FieldsInv
    <2>4. Untouched(routes'[w].fields, record, route.key)
      BY <1>2, <2>2 DEF RecordInv, RouteSound, Fits
    <2>5. DOMAIN routes'[w].fields \subseteq Fields
      BY <2>3, <2>4 DEF Untouched, FieldsInv, Fields
    <2>6. QED
      BY <1>2, <2>1, <2>2, <2>3, <2>5 DEF FieldsInv
  <1>5. QED
    BY <1>1, <1>3, <1>4 DEF Reply

LEMMA FieldsStep == RecordInv /\ RecordInv' /\ FieldsInv /\ [KVNext]_kvVars => FieldsInv'
  <1> SUFFICES ASSUME RecordInv, RecordInv', FieldsInv, [KVNext]_kvVars PROVE FieldsInv'
    OBVIOUS
  <1>1. /\ NoRoute.at = "idle"
        /\ \A r : /\ Overtaken(r).at = r.at /\ Overtaken(r).key = r.key
                  /\ Overtaken(r).fields = r.fields
    BY DEF NoRoute, Overtaken, AtWrite
  <1>2. CASE ManagerStep
    <2>1. /\ record' = record
          /\ routes' = [w \in Writers |-> NoRoute] \/ routes' = routes
      BY <1>2 DEF ManagerStep
    <2>2. QED
      BY <1>1, <2>1 DEF FieldsInv
  <1>3. CASE OtherWriter
    <2>1. routes' = AllOvertaken
      BY <1>3 DEF OtherWriter, DropRecord, Store
    <2>2. DOMAIN record' \subseteq Fields
      <3>1. CASE DropRecord
        <4>1. record' = <<>> /\ DOMAIN <<>> = {}
          BY <3>1 DEF DropRecord
        <4>2. QED
          BY <4>1
      <3>2. CASE \E key \in Keys, v \in Values : Store(key, v)
        BY <3>2 DEF Store, Merged, Over, Only, FieldsInv, Fields
      <3>3. QED
        BY <1>3, <3>1, <3>2 DEF OtherWriter
    <2>3. QED
      BY <1>1, <2>1, <2>2 DEF FieldsInv, AllOvertaken
  <1>4. ASSUME NEW w \in Writers, RouteBegins(w)
        PROVE  FieldsInv'
    <2>1. PICK op \in {"set", "patch", "add", "delete"}, key \in Keys, v \in Values \cup {{}} :
             Begin(w, op, key, v)
      BY <1>4 DEF RouteBegins
    <2>2. QED
      BY <2>1 DEF Begin, FieldsInv, RecordInv
  <1>5. ASSUME NEW w \in Writers, RouteWrite(w)
        PROVE  FieldsInv'
    <2>1. DOMAIN record' \subseteq Fields
      BY <1>5 DEF RouteWrite, Merged, Over, FieldsInv
    <2>2. \A v \in Writers : routes'[v] = IF v = w THEN NoRoute ELSE Overtaken(routes[v])
      BY <1>5 DEF RouteWrite, AllOvertaken
    <2>3. QED
      BY <1>1, <2>1, <2>2 DEF FieldsInv
  <1>6. ASSUME NEW w \in Writers, RouteFails(w)
        PROVE  FieldsInv'
    BY <1>1, <1>6 DEF RouteFails, Reply, FieldsInv, RecordInv
  <1>7. CASE UNCHANGED kvVars
    BY <1>7 DEF kvVars, recordVars, FieldsInv
  <1>8. QED
    BY <1>2, <1>3, <1>4, <1>5, <1>6, <1>7, FieldsRead DEF KVNext, RouteGoesOn

\* Where no field that a request, a plugin, the processor or the record to begin with
\* names is under the place of another, nor of a CID, the record can be read in every
\* state, however requests, writes, deletions and changes of the leader interleave: the
\* routes make no clash of their own (UnifiedAPIServer.ts 1302-1420,
\* MetadataUtils.ts 154-174).
THEOREM KVStaysReadable ==
    ASSUME ~FieldsClash
    PROVE  KVSpec => [](Broken \notin Readings(record))
  <1>1. KVInit => FieldsInv
    BY DEF KVInit, RecordInit, FieldsInv, Fields, NoRoute
  <1>2. RecordInv /\ FieldsInv => Broken \notin Readings(record)
    <2>1. SUFFICES ASSUME RecordInv, FieldsInv PROVE ~Clash(record)
      BY RecordReadable DEF RecordInv
    <2>2. QED
      BY <2>1 DEF Clash, FieldsClash, FieldsInv
  <1>3. KVSpec => []FieldsInv
    BY <1>1, FieldsStep, KVRecordInvariant, PTL DEF KVSpec
  <1>4. QED
    BY <1>2, <1>3, KVRecordInvariant, PTL
=============================================================================
