---------------------------- MODULE Connections ----------------------------
(***************************************************************************)
(* The connections to the database server.  A device has one place for a   *)
(* connection, databaseConnection of its shared DatabaseConnector.  Every  *)
(* handler that talks to the server opens a connection of its own and      *)
(* empties the place when it is done.                                      *)
(*                                                                         *)
(* The wrapper is compiled without ARC and connectToServer: hands out an   *)
(* object it still owns, so dealloc, which would close the connection,     *)
(* never runs: emptying the place leaves the connection open.  It ends     *)
(* when the process ends, or when the server ends it.                      *)
(***************************************************************************)
EXTENDS Integers, FiniteSets

CONSTANTS
    Device,     \* the devices
    Conn,       \* the connections the server admits at a time
    NULL        \* nil

ASSUME NullAssumption == NULL \notin Device \cup Conn

VARIABLES
    slot,       \* databaseConnection of each device
    owner       \* the device that holds each connection, or NULL

connections == <<slot, owner>>

ConnTypeOK ==
    /\ slot \in [Device -> Conn \cup {NULL}]
    /\ owner \in [Conn -> Device \cup {NULL}]

ConnInit ==
    /\ slot = [d \in Device |-> NULL]
    /\ owner = [c \in Conn |-> NULL]

\* The connections a device holds, those it has no place for included.
Held(d) == {c \in Conn : owner[c] = d}

\* The server still serves the connection in the device's place.
Connected(d) == slot[d] # NULL /\ owner[slot[d]] = d

\* The connections the server can still give, and the one it gives next.
Free == {c \in Conn : owner[c] = NULL}
NextFree == CHOOSE c \in Free : TRUE

\* Mutant of Connect: the connection in the place is kept when there is one.
ConnectOnce(d) ==
    IF slot[d] # NULL
    THEN UNCHANGED connections
    ELSE /\ Free # {}
         /\ owner' = [owner EXCEPT ![NextFree] = d]
         /\ slot' = [slot EXCEPT ![d] = NextFree]

\* connectToDatabase: a new connection takes the place, whatever was there.
Connect(d) ==
    /\ Free # {}
    /\ owner' = [owner EXCEPT ![NextFree] = d]
    /\ slot' = [slot EXCEPT ![d] = NextFree]

\* databaseConnection = nil, which closes nothing.
Release(d) ==
    /\ slot' = [slot EXCEPT ![d] = NULL]
    /\ UNCHANGED owner

\* The process of the device ends and the sockets with it.
HangUp(d) ==
    /\ slot' = [slot EXCEPT ![d] = NULL]
    /\ owner' = [c \in Conn |-> IF owner[c] = d THEN NULL ELSE owner[c]]

\* The server ends a connection: its time is over, or the network broke.
Drop(c) ==
    /\ owner[c] # NULL
    /\ owner' = [owner EXCEPT ![c] = NULL]
    /\ UNCHANGED slot
=============================================================================
