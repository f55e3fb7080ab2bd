------------------------------ MODULE Enrolment ------------------------------
(***************************************************************************)
(* The server: whom it has enrolled and revoked, the invites it made, and  *)
(* the connections its service listener holds (ac-server/src/store.rs and  *)
(* daemon.rs, the commands of src/cmd, ops/join.rs of ac-node for the other *)
(* side).                                                                  *)
(*                                                                         *)
(* Time is in hours.  Nodes ask for different names, so no name is ever    *)
(* taken; a refusal that changes nothing is no step.                       *)
(*                                                                         *)
(* A longer-named definition just before the one it resembles is a mutated *)
(* form that nothing else uses.                                            *)
(***************************************************************************)
EXTENDS Naturals, FiniteSets

CONSTANTS
  Nodes, Codes,
  Members,      \* the nodes enrolled and joined at the start
  Ways,         \* connections a client has to the service listener
  LIFETIME,     \* hours an attestation is valid
  TTL,          \* hours an invite is
  MaxTime,
  MaxChanges    \* bounds the revocations, the connections made, and what is lost or killed

ASSUME EnrolmentAssumption ==
  /\ Members \subseteq Nodes /\ Ways \subseteq Nat \ {0} /\ 1 \in Ways
  /\ {LIFETIME, TTL, MaxTime} \subseteq Nat \ {0} /\ MaxChanges \in Nat

VARIABLES
  time,
  clients,    \* the table clients: who has a row, and revoked_at, 0 when not
  invites,    \* the table invites: when each expires, 0 before it is made, and who spent it
  service,    \* what the service listener holds of each client, and what it closes
  atGate,     \* the clients the enrolment listener has let in
  changes

tables == <<clients, invites>>
server == <<time, clients, invites, service, atGate>>
serverVars == <<server, changes>>

NoLinks == [open |-> {}, current |-> 0, closing |-> {}]

(* One connection per client: a new one has the one before it closed.      *)
Supersede(links, way) ==
  [open |-> links.open \union {way}, current |-> way,
   closing |-> links.closing \union ({links.current} \intersect links.open)]

EnrolmentInit ==
  /\ time = 1
  /\ clients = [n \in Nodes |-> [row |-> n \in Members, revoked |-> 0]]
  /\ invites = [c \in Codes |-> [expires |-> 0, by |-> {}]]
  /\ service = [n \in Nodes |-> IF n \in Members THEN Supersede(NoLinks, 1) ELSE NoLinks]
  /\ atGate = {} /\ changes = 0

(* The two listeners' policies: enrolled clients only, and all but revoked *)
(* ones.                                                                   *)
IsEnrolled(n) == clients[n].row /\ clients[n].revoked = 0
IsRevoked(n) == clients[n].row /\ clients[n].revoked # 0

Change == changes < MaxChanges /\ changes' = changes + 1

-----------------------------------------------------------------------------
Invite(c) ==
  /\ invites[c].expires = 0
  /\ invites' = [invites EXCEPT ![c].expires = time + TTL]
  /\ UNCHANGED <<time, clients, service, atGate, changes>>

Revoke(n) ==
  /\ Change
  /\ IsEnrolled(n)
  /\ clients' = [clients EXCEPT ![n].revoked = time]
  /\ UNCHANGED <<time, invites, service, atGate>>

Unrevoke(n) ==
  /\ IsRevoked(n)
  /\ clients' = [clients EXCEPT ![n].revoked = 0]
  /\ UNCHANGED <<time, invites, service, atGate, changes>>

Usable(c) == time < invites[c].expires /\ invites[c].by = {}

(* The command `ac join` reaches the enrolment listener...                 *)
EntersGate(n) ==
  /\ n \notin atGate
  /\ \E c \in Codes : Usable(c)
  /\ ~IsRevoked(n)
  /\ atGate' = atGate \union {n}
  /\ UNCHANGED <<time, tables, service, changes>>

(* ...and presents a code: spent, and the client enrolled, in one          *)
(* transaction; an attestation is issued for whoever spends it.            *)
Redeem(n, c) ==
  /\ n \in atGate
  /\ Usable(c)
  /\ invites' = [invites EXCEPT ![c].by = {n}]
  /\ clients' = [clients EXCEPT ![n].row = TRUE]
  /\ atGate' = atGate \ {n}
  /\ UNCHANGED <<time, service>>

LeavesGate(n) ==
  /\ n \in atGate
  /\ atGate' = atGate \ {n}
  /\ UNCHANGED <<time, tables, service, changes>>

-----------------------------------------------------------------------------
ClosedAnyway(links, way) ==
  [open |-> links.open \ {way}, current |-> 0, closing |-> links.closing \ {way}]

Closed(links, way) ==
  [open |-> links.open \ {way}, closing |-> links.closing \ {way},
   current |-> IF links.current = way THEN 0 ELSE links.current]

ServiceOpens(n, way) ==
  /\ IsEnrolled(n)
  /\ way \notin service[n].open /\ \A w \in 1 .. way - 1 : w \in service[n].open
  /\ service' = [service EXCEPT ![n] = Supersede(@, way)]
  /\ UNCHANGED <<time, tables, atGate>>

ServiceCloses(n, way) ==
  /\ way \in service[n].open
  /\ service' = [service EXCEPT ![n] = Closed(@, way)]
  /\ UNCHANGED <<time, tables, atGate>>

(* The tick of five seconds: whoever was revoked since connecting is cut   *)
(* off.                                                                    *)
DisconnectRevoked ==
  /\ \E n \in Nodes : IsRevoked(n) /\ service[n].open # service[n].closing
  /\ service' = [n \in Nodes |-> IF IsRevoked(n) THEN [service[n] EXCEPT !.closing = service[n].open]
                                 ELSE service[n]]
  /\ UNCHANGED <<time, tables, atGate, changes>>

(* An hour passes, and no tick of five seconds, no closing and no command  *)
(* takes that long.                                                        *)
ServerQuiet ==
  /\ atGate = {}
  /\ \A n \in Nodes : service[n].closing = {} /\ (IsRevoked(n) => service[n].open = {})

TimePasses ==
  /\ time < MaxTime
  /\ ServerQuiet
  /\ time' = time + 1
  /\ UNCHANGED <<tables, service, atGate, changes>>

-----------------------------------------------------------------------------
EnrolmentTypeOK ==
  /\ time \in 1 .. MaxTime
  /\ clients \in [Nodes -> [row : BOOLEAN, revoked : 0 .. MaxTime]]
  /\ invites \in [Codes -> [expires : 0 .. MaxTime + TTL, by : SUBSET Nodes]]
  /\ service \in [Nodes -> [open : SUBSET Ways, current : Ways \union {0},
                            closing : SUBSET Ways]]
  /\ atGate \subseteq Nodes
  /\ changes \in 0 .. MaxChanges

(* The listener has one way to each client, the latest, however late the   *)
(* ones before it are seen to end (supersede, closed), so that a circuit   *)
(* to the client reaches a live connection.                                *)
OneWayIn ==
  \A n \in Nodes : LET links == service[n] IN
    links.open \ links.closing \in {{}, {links.current}}
=============================================================================
