-------------------------- MODULE WhatsAppGateway --------------------------
(***************************************************************************)
(* The life of one WhatsApp instance in the gateway:                       *)
(* services/whatsapp-gateway/index.js (startInstance, its connection       *)
(* events, autoStartExisting, and the routes create, disconnect and        *)
(* delete).                                                                *)
(*                                                                         *)
(* A record of the map `instances` holds a socket, a state and the handle  *)
(* of a timer. startInstance awaits the credentials before it makes the    *)
(* socket, and the routes await the logout: other starts, the events of    *)
(* earlier sockets and other requests come in between, and everything      *)
(* started for a record goes on with that record after it was deleted.     *)
(* A closed socket arms one timer, which is named after it here. The       *)
(* library (Baileys) is external: a socket opens or closes at any time,    *)
(* and one that was ended or logged out reports that it has closed. One    *)
(* disconnect or delete request runs at a time. QR codes, the forwarding   *)
(* of messages and the sending routes, which keep no state, are left out.  *)
(***************************************************************************)
EXTENDS Naturals, FiniteSets

CONSTANTS
  Sockets,      \* the sockets that may be made
  Starts,       \* calls of startInstance that may be running
  NoSocket,
  MaxRecords,   \* bound on the records made for the name
  MaxRequests   \* bound on the requests

ASSUME GatewayAssumption == /\ NoSocket \notin Sockets
                            /\ MaxRecords \in Nat
                            /\ MaxRequests \in Nat

Records == 1..MaxRecords

VARIABLES
  mapped,    \* the record in the map, 0 if none
  made,       \* number of records made
  record,     \* Records -> socket, state and timer handle
  conn,       \* Sockets -> phase, record and the timer its closing armed
  start,      \* Starts -> the record a call of startInstance is loading for
  leaving,    \* the disconnect or delete request that awaits the logout
  paired,     \* creds.json exists
  wanted,     \* the operator's last request wants the instance to run (history)
  gaveUp,     \* a start has thrown and only a message was logged (history)
  requests    \* number of requests so far

gatewayVars == <<mapped, made, record, conn, start, leaving, paired, wanted,
                 gaveUp, requests>>

States == {"disconnected", "connecting", "open"}
Phases == {"unused", "connecting", "open", "ended", "loggingOut", "closed"}
Timers == {"none", "reconnect", "repair"}
NewRecord == [sock |-> NoSocket, state |-> "disconnected", timer |-> NoSocket]
NewConn == [phase |-> "unused", of |-> 0, timer |-> "none"]
NotStarting == [of |-> 0, by |-> "boot"]
NotLeaving == [of |-> 0, delete |-> FALSE]

GatewayInit ==
  /\ mapped = 0 /\ made = 0
  /\ record = [r \in Records |-> NewRecord]
  /\ conn = [s \in Sockets |-> NewConn]
  /\ start = [i \in Starts |-> NotStarting]
  /\ leaving = NotLeaving
  /\ paired \in BOOLEAN
  /\ wanted = FALSE
  /\ gaveUp = FALSE
  /\ requests = 0

-----------------------------------------------------------------------------
(***************************************************************************)
(* startInstance, up to its first await and after its last one.            *)
(***************************************************************************)

\* inst.sock.end(): the socket reports its closing later.
Ending(s, phase, conns) ==
  IF s = NoSocket \/ conns[s].phase \notin {"connecting", "open"} THEN conns
  ELSE [conns EXCEPT ![s].phase = phase]

AlreadyConnected(r) == record[r].state = "open" /\ record[r].sock # NoSocket

\* For the record r, on whose behalf the sockets are as given.
Loading(i, r, by, conns) ==
  /\ start[i] = NotStarting
  /\ IF AlreadyConnected(r)
     THEN /\ conn' = conns
          /\ UNCHANGED <<record, start>>
     ELSE /\ conn' = Ending(record[r].sock, "ended", conns)
          /\ record' = [record EXCEPT ![r].sock = NoSocket]
          /\ start' = [start EXCEPT ![i] = [of |-> r, by |-> by]]

StartInstance(i, by, conns) ==
  IF mapped # 0
  THEN Loading(i, mapped, by, conns) /\ UNCHANGED <<mapped, made>>
  ELSE /\ made < MaxRecords
       /\ made' = made + 1
       /\ mapped' = made + 1
       /\ Loading(i, made + 1, by, conns)

Loaded(i) ==
  LET r == start[i].of
  IN /\ r # 0
     /\ \E s \in Sockets :
          /\ conn[s].phase = "unused"
          /\ conn' = [conn EXCEPT ![s] = [phase |-> "connecting", of |-> r, timer |-> "none"]]
          /\ record' = [record EXCEPT ![r].sock = s, ![r].state = "connecting"]
     /\ start' = [start EXCEPT ![i] = NotStarting]
     /\ UNCHANGED <<mapped, made, leaving, paired, wanted, gaveUp, requests>>

\* Everything in memory is gone with the process.
Forgotten ==
  /\ mapped' = 0
  /\ record' = [r \in Records |-> NewRecord]
  /\ conn' = [s \in Sockets |-> NewConn]
  /\ start' = [i \in Starts |-> NotStarting]
  /\ leaving' = NotLeaving

\* A start throws. The reconnect timer does not catch it: the process ends
\* with an unhandled rejection and is run again.
StartThrows(i) ==
  /\ start[i].of # 0
  /\ IF start[i].by = "reconnect"
     THEN /\ Forgotten /\ made' = 0
          /\ gaveUp' = FALSE /\ wanted' = paired
     ELSE /\ start' = [start EXCEPT ![i] = NotStarting]
          /\ gaveUp' = TRUE
          /\ UNCHANGED <<mapped, made, record, conn, leaving, wanted>>
  /\ UNCHANGED <<paired, requests>>

(***************************************************************************)
(* Events of a socket. They change the record it was made for, whichever   *)
(* socket that record holds by now.                                        *)
(***************************************************************************)

Opens(s) ==
  /\ conn[s].phase = "connecting"
  /\ conn' = [conn EXCEPT ![s].phase = "open"]
  /\ record' = [record EXCEPT ![conn[s].of].state = "open"]
  /\ paired' = TRUE
  /\ UNCHANGED <<mapped, made, start, leaving, wanted, gaveUp, requests>>

\* Defect: a socket that was replaced by another one does not come back.
TimerOnlyIfHeld(s, loggedOut) ==
  IF loggedOut THEN "repair"
  ELSE IF conn[s].phase = "open" THEN "none" ELSE "reconnect"

TimerAfter(s, loggedOut) == IF loggedOut THEN "repair" ELSE "reconnect"

Closes(s, loggedOut) ==
  /\ conn[s].phase \in {"connecting", "open", "ended", "loggingOut"}
  /\ conn[s].phase = "ended" => ~loggedOut
  /\ conn' = [conn EXCEPT ![s].phase = "closed", ![s].timer = TimerAfter(s, loggedOut)]
  /\ record' = [record EXCEPT ![conn[s].of] =
                  [sock |-> NoSocket, state |-> "disconnected", timer |-> s]]
  /\ paired' = (paired /\ ~loggedOut)
  /\ UNCHANGED <<mapped, made, start, leaving, wanted, gaveUp, requests>>

\* The timer starts the name anew: the record in the map, not the one it is of.
TimerStarts(s, i) ==
  /\ conn[s].timer # "none"
  /\ StartInstance(i, conn[s].timer, [conn EXCEPT ![s].timer = "none"])
  /\ UNCHANGED <<leaving, paired, wanted, gaveUp, requests>>

(***************************************************************************)
(* Requests.                                                               *)
(***************************************************************************)

Requested == requests < MaxRequests /\ requests' = requests + 1

Create(i) ==
  /\ Requested
  /\ mapped # 0 => record[mapped].state # "open"
  /\ StartInstance(i, "create", conn)
  /\ wanted' = TRUE /\ gaveUp' = FALSE
  /\ UNCHANGED <<leaving, paired>>

\* Disconnect and delete, up to the logout: only the last timer is cleared.
Leave(delete) ==
  /\ Requested
  /\ mapped # 0 /\ leaving = NotLeaving
  /\ conn' = LET s == record[mapped].sock
                 t == record[mapped].timer
                 cleared == IF t = NoSocket THEN conn ELSE [conn EXCEPT ![t].timer = "none"]
             IN Ending(s, "loggingOut", cleared)
  /\ record' = IF delete THEN record ELSE [record EXCEPT ![mapped].timer = NoSocket]
  /\ leaving' = [of |-> mapped, delete |-> delete]
  /\ wanted' = FALSE
  /\ UNCHANGED <<mapped, made, start, paired, gaveUp>>

\* After the logout, whatever has become of the record meanwhile.
Left ==
  LET r == leaving.of
  IN /\ r # 0
     /\ conn' = Ending(record[r].sock, "ended", conn)
     /\ paired' = FALSE
     /\ IF leaving.delete
        THEN mapped' = 0 /\ UNCHANGED record
        ELSE /\ record' = [record EXCEPT ![r].sock = NoSocket, ![r].state = "disconnected"]
             /\ UNCHANGED mapped
     /\ leaving' = NotLeaving
     /\ UNCHANGED <<made, start, wanted, gaveUp, requests>>

\* autoStartExisting, once, after a start of the process.
AutoStart(i) ==
  /\ paired /\ made = 0
  /\ StartInstance(i, "boot", conn)
  /\ wanted' = TRUE
  /\ UNCHANGED <<leaving, paired, gaveUp, requests>>

GatewayRestart ==
  /\ Forgotten /\ made' = 0
  /\ gaveUp' = FALSE /\ wanted' = paired
  /\ UNCHANGED <<paired, requests>>

-----------------------------------------------------------------------------
GatewayStep ==
  \/ \E i \in Starts : Loaded(i) \/ StartThrows(i) \/ Create(i) \/ AutoStart(i)
  \/ \E s \in Sockets : \/ Opens(s)
                        \/ \E loggedOut \in BOOLEAN : Closes(s, loggedOut)
                        \/ \E i \in Starts : TimerStarts(s, i)
  \/ \E delete \in BOOLEAN : Leave(delete)
  \/ Left

GatewaySpec == GatewayInit /\ [][GatewayStep \/ GatewayRestart]_gatewayVars

-----------------------------------------------------------------------------
GatewayTypeOK ==
  /\ made \in 0..MaxRecords
  /\ mapped \in 0..made
  /\ record \in [Records -> [sock : Sockets \union {NoSocket}, state : States,
                             timer : Sockets \union {NoSocket}]]
  /\ conn \in [Sockets -> [phase : Phases, of : 0..MaxRecords, timer : Timers]]
  /\ start \in [Starts -> [of : 0..MaxRecords,
                           by : {"boot", "create", "reconnect", "repair"}]]
  /\ leaving \in [of : 0..MaxRecords, delete : BOOLEAN]
  /\ {paired, wanted, gaveUp} \subseteq BOOLEAN
  /\ requests \in 0..MaxRequests

\* An instance that is paired and that nobody asked to stop is never left
\* alone, however its starts, sockets and timers have overlapped: a socket of
\* it is alive or has yet to report its closing, a timer is armed, a start is
\* running, or the process is about to run them at its start.
InstanceIsTended ==
  paired /\ wanted /\ ~gaveUp =>
    \/ made = 0
    \/ \E i \in Starts : start[i].of # 0
    \/ \E s \in Sockets : \/ conn[s].phase \in {"connecting", "open", "ended", "loggingOut"}
                          \/ conn[s].timer # "none"
=============================================================================
