------------------------------ MODULE LiveFeed ------------------------------
(***************************************************************************)
(* What the connection layer of bili-server promises to the rest of the    *)
(* program, without websocketpp, threads or locks: a numbered connection   *)
(* goes through a life of its own, publishes numbered live messages while  *)
(* it is Open, and hands every one of them over exactly once, in whole     *)
(* batches.  Connection implements this specification.                     *)
(***************************************************************************)
EXTENDS Naturals

CONSTANTS Ids,          \* the connection numbers
          MaxMessages   \* bound on the live messages of one connection

VARIABLES status,       \* what getStatus() says of each connection
          published,    \* how many live messages each has received
          delivered     \* the numbers of those already handed over

vars == <<status, published, delivered>>

Init ==
    /\ status = [i \in Ids |-> "None"]
    /\ published = [i \in Ids |-> 0]
    /\ delivered = [i \in Ids |-> {}]

(* A connection only ever moves forward along one of two paths. *)
Settles(from, to) ==
    /\ \E i \in Ids : status[i] = from /\ status' = [status EXCEPT ![i] = to]
    /\ UNCHANGED <<published, delivered>>

Start == Settles("None", "Connecting")
Open  == Settles("Connecting", "Open")
Fail  == Settles("Connecting", "Failed")
Close == Settles("Open", "Closed")

(* Messages arrive on an Open connection only: none before, none after. *)
Publish(i) ==
    /\ status[i] = "Open"
    /\ \E n \in published[i] .. MaxMessages :
          published' = [published EXCEPT ![i] = n]
    /\ UNCHANGED <<status, delivered>>

(* Whoever asks gets everything published and not yet handed over. *)
Deliver(i) ==
    /\ delivered' = [delivered EXCEPT ![i] = 1 .. published[i]]
    /\ UNCHANGED <<status, published>>

Next ==
    \/ Start \/ Open \/ Fail \/ Close
    \/ \E i \in Ids : Publish(i) \/ Deliver(i)

Safety == Init /\ [][Next]_vars

(* A connection that is being established gets an answer. *)
Answered == \A i \in Ids : status[i] = "Connecting" ~> status[i] # "Connecting"

Spec == Safety /\ Answered
=============================================================================
