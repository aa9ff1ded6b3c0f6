--------------------------- MODULE DoipConnections ---------------------------
(***************************************************************************)
(* What the entity's TCP side promises a tester, connection by connection, *)
(* with no slots, buffers or timers: the TcpConnection lifecycle of the    *)
(* specification (created on accept in PendingActivation, Activated by a   *)
(* successful routing activation, destroyed on peer close, timer expiry    *)
(* or explicit close), the connection pool with backpressure (an accepted  *)
(* connection is closed at once only when every slot is in use), and UDS   *)
(* dispatch only on an Activated connection.  A re-activation may replace  *)
(* the source address, as app_doip_entity.c does (the specification's     *)
(* DiffSource answer is not implemented).  DoipEntity is checked to        *)
(* implement it.                                                           *)
(***************************************************************************)
EXTENDS Naturals, FiniteSets

CONSTANTS
  Conns,           \* the TCP connections testers may open
  MaxConnections,  \* the size of the connection pool
  TesterAddrs      \* the source addresses routing activation accepts

VARIABLES
  conn,    \* per connection: "Idle", "Queued", "Pending", "Activated", "Closed"
  source,  \* per connection: the source address it is activated with, or 0
  served   \* the connections a request was dispatched to UDS from

vars == <<conn, source, served>>

InUse == {c \in Conns : conn[c] \in {"Pending", "Activated"}}

Init ==
  /\ conn = [c \in Conns |-> "Idle"]
  /\ source = [c \in Conns |-> 0]
  /\ served = {}

(* A tester opens a connection; it waits to be accepted. *)
Arrive(c) ==
  /\ conn[c] = "Idle"
  /\ conn' = [conn EXCEPT ![c] = "Queued"]
  /\ UNCHANGED <<source, served>>

(* The connection is accepted into the pool while a slot is free ... *)
Admit(c) ==
  /\ conn[c] = "Queued"
  /\ Cardinality(InUse) < MaxConnections
  /\ conn' = [conn EXCEPT ![c] = "Pending"]
  /\ UNCHANGED <<source, served>>

(* ... and closed at once only when every slot is in use. *)
Refuse(c) ==
  /\ conn[c] = "Queued"
  /\ Cardinality(InUse) = MaxConnections
  /\ conn' = [conn EXCEPT ![c] = "Closed"]
  /\ UNCHANGED <<source, served>>

(* A routing activation with a tester address succeeds, on a pending     *)
(* connection or again on an activated one.                              *)
Activate(c, a) ==
  /\ conn[c] \in {"Pending", "Activated"}
  /\ a \in TesterAddrs
  /\ conn' = [conn EXCEPT ![c] = "Activated"]
  /\ source' = [source EXCEPT ![c] = a]
  /\ UNCHANGED served

(* A diagnostic request on an activated connection is dispatched to UDS. *)
Serve(c) ==
  /\ conn[c] = "Activated"
  /\ served' = served \cup {c}
  /\ UNCHANGED <<conn, source>>

(* Connections in the pool are destroyed: one by its peer's close, or    *)
(* every connection whose timer expired in one timer update.             *)
Drop(D) ==
  /\ D # {} /\ D \subseteq InUse
  /\ conn' = [c \in Conns |-> IF c \in D THEN "Closed" ELSE conn[c]]
  /\ source' = [c \in Conns |-> IF c \in D THEN 0 ELSE source[c]]
  /\ UNCHANGED served

Next ==
  \/ \E c \in Conns :
       \/ Arrive(c) \/ Admit(c) \/ Refuse(c) \/ Serve(c)
       \/ \E a \in TesterAddrs : Activate(c, a)
  \/ \E D \in SUBSET Conns : Drop(D)

Spec == Init /\ [][Next]_vars

=============================================================================
