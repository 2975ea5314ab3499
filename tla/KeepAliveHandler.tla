-------------------------- MODULE KeepAliveHandler --------------------------
(***************************************************************************)
(* ev::hub::KeepAliveHandler (hub/keep_alive_handler.cc) with its Redis    *)
(* device (redis/device.cc) and the server, for the one request that       *)
(* redis/subscriptions/manager.cc keeps in the hub.  There is one request, *)
(* so each map of the handler holds it or is empty.                        *)
(*                                                                         *)
(* The main thread writes the command of the request ("payload") and then  *)
(* sends the request; the hub reads the command when it executes the       *)
(* request.  No database is selected (database_index_ is -1).              *)
(***************************************************************************)
EXTENDS Naturals, Sequences, FiniteSets

CONSTANTS
  Channels,   \* names that are subscribed by SUBSCRIBE
  Patterns,   \* names that are subscribed by PSUBSCRIBE
  NoTopic,    \* the argument of PING
  MaxMessages,\* bounds the messages that others publish
  MaxLosses   \* bounds how often the connection breaks or cannot be made

Topics == Channels \cup Patterns

Ping == [op |-> "PING", topic |-> NoTopic]
Commands == [op : {"SUBSCRIBE", "UNSUBSCRIBE"}, topic : Topics] \cup {Ping}

\* What the hub tells the main thread.
EchoMessage == [kind |-> "echo"]
DisconnectedMessage == [kind |-> "disconnected"]
ReplyMessage(command) == [kind |-> "reply", command |-> command]
PublishedMessage(topic) == [kind |-> "message", topic |-> topic]
Uplink == {EchoMessage, DisconnectedMessage}
            \cup {ReplyMessage(c) : c \in Commands} \cup {PublishedMessage(t) : t \in Topics}

ASSUME KeepAliveAssumption ==
  /\ IsFiniteSet(Topics) /\ Channels \cap Patterns = {}
  /\ NoTopic \notin Topics
  /\ MaxLosses \in Nat /\ MaxMessages \in Nat

VARIABLES
  inbox,       \* messages to the hub: the echo of an id, or the request
  uplink,      \* messages to the main thread, in the order they were sent
  payload,     \* command of the request
  running,     \* the request is in running_requests_
  connection,  \* of the device: "down", "connecting" or "up"
  wire,        \* commands that were executed and are not answered
  server,      \* what the server has subscribed on this connection
  losses,      \* connections that were lost
  messages     \* messages that were published

hubVars == <<inbox, uplink, payload, running, connection, wire, server, losses,
             messages>>

HubTypeOK ==
  /\ inbox \in Seq({"echo", "request"})
  /\ uplink \in Seq(Uplink)
  /\ payload \in Commands
  /\ running \in BOOLEAN
  /\ connection \in {"down", "connecting", "up"}
  /\ wire \in Seq(Commands)
  /\ server \subseteq Topics
  /\ losses \in 0 .. MaxLosses /\ messages \in 0 .. MaxMessages

\* The handler is made with the hub; the request comes later.
HubInit ==
  /\ uplink = <<>>
  /\ payload = Ping
  /\ running = FALSE
  /\ connection = "down"
  /\ wire = <<>> /\ server = {}
  /\ losses = 0 /\ messages = 0

-----------------------------------------------------------------------------

\* The first message of a push is sent back as it is.
Echo ==
  /\ inbox # <<>> /\ Head(inbox) = "echo"
  /\ inbox' = Tail(inbox)
  /\ uplink' = Append(uplink, EchoMessage)
  /\ UNCHANGED <<payload, running, connection, wire, server, losses, messages>>

\* Push: the entry replaces the one that is there, and the device of the first
\* push is used.  Connect starts an attempt to connect or, when there is a
\* context already, calls back at once, even if it is still connecting.
Push ==
  /\ inbox # <<>> /\ Head(inbox) = "request"
  /\ inbox' = Tail(inbox)
  /\ running' = TRUE
  /\ \/ /\ connection = "down"
        /\ connection' = "connecting"
        /\ UNCHANGED wire
     \/ /\ connection # "down"
        /\ wire' = Append(wire, payload)
        /\ UNCHANGED connection
  /\ UNCHANGED <<uplink, payload, server, losses, messages>>

\* HiredisConnectCallback without an error: connected_callback_ is still there,
\* so the request is executed (again, if Push did it while connecting).
Connected ==
  /\ connection = "connecting"
  /\ connection' = "up"
  /\ wire' = Append(wire, payload)
  /\ UNCHANGED <<inbox, uplink, payload, running, server, losses, messages>>

\* Slip: the entry is reported and stays.
StatusReported ==
  /\ UNCHANGED running
  /\ uplink' = IF running THEN Append(uplink, DisconnectedMessage) ELSE uplink

\* OnConnectionStatusChanged: the entry moves to disconnected_requests_ and all
\* of these are reported and forgotten; the two maps keep request and device.
StatusChanged ==
  /\ running' = FALSE
  /\ uplink' = IF running THEN Append(uplink, DisconnectedMessage) ELSE uplink

\* HiredisConnectCallback with an error, or HiredisDisconnectCallback: commands
\* without an answer are dropped by the device.
Lost ==
  /\ connection # "down" /\ losses < MaxLosses
  /\ connection' = "down"
  /\ wire' = <<>> /\ server' = {}
  /\ losses' = losses + 1
  /\ StatusChanged
  /\ UNCHANGED <<inbox, payload, messages>>

\* The server runs the oldest command; the handler publishes the reply of a
\* request that is running.
Answered ==
  /\ connection = "up" /\ wire # <<>>
  /\ wire' = Tail(wire)
  /\ LET command == Head(wire) IN
       /\ server' = CASE command.op = "SUBSCRIBE" -> server \cup {command.topic}
                      [] command.op = "UNSUBSCRIBE" -> server \ {command.topic}
                      [] OTHER -> server
       /\ uplink' = IF running THEN Append(uplink, ReplyMessage(command)) ELSE uplink
  /\ UNCHANGED <<inbox, payload, running, connection, losses, messages>>

\* Somebody publishes what the server has subscribed.
Published(topic) ==
  /\ connection = "up" /\ topic \in server /\ running
  /\ messages < MaxMessages
  /\ messages' = messages + 1
  /\ uplink' = Append(uplink, PublishedMessage(topic))
  /\ UNCHANGED <<inbox, payload, running, connection, wire, server, losses>>

HubProgress == Echo \/ Push \/ Connected \/ Answered
HubNext == HubProgress \/ Lost \/ \E topic \in Topics : Published(topic)

-----------------------------------------------------------------------------

(* The maps of the handler follow the device: as long as there is a context,
   connecting or connected, the request has a running entry, and it has none
   after a disconnection.  Otherwise a disconnection would not be reported or
   replies would be thrown away. *)
RunningMatches == running <=> connection # "down"

=============================================================================
