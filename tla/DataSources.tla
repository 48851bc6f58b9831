------------------------------ MODULE DataSources ------------------------------
(* What the clipboard and the drag and drop sessions share: the data sources of *)
(* clients (RDataSource), their data devices and surfaces, and the events that  *)
(* a source was sent.                                                           *)
(*                                                                              *)
(* Abstractions: one seat, one data device and one surface per client; clients  *)
(* create the device when they connect and do not create it again; every object *)
(* has version 3 and every client a keyboard; a source belongs to a fixed       *)
(* client and is created again after it was destroyed; of the actions only that *)
(* there is one; file contents, serials and positions are left out.             *)
EXTENDS FiniteSets

CONSTANTS Clients, Sources, Mimes,
          None,
          Owner,       \* the client of a source
          Types,       \* the types that the client of a source may offer
          Leaving,     \* the clients that destroy surfaces and release devices
          Persistent   \* the types persistentMimeTypeFilter() accepts

ASSUME DataAssumption ==
  /\ None \notin Clients \cup Sources
  /\ Owner \in [Sources -> Clients]
  /\ Types \in [Sources -> SUBSET Mimes]
  /\ Leaving \subseteq Clients
  /\ Persistent \subseteq Mimes

VARIABLES surfaces,   \* the clients whose surface exists
          devices,    \* the clients that have a data device
          source,     \* the data sources
          told        \* the events that end the use of a source

objects == <<surfaces, devices, source, told>>

Usages == {"Undefined", "Clipboard", "DND"}

NoSource == [alive |-> FALSE, usage |-> "Undefined", mimes |-> {}, actions |-> FALSE]

ObjectsTypeOK ==
  /\ surfaces \subseteq Clients
  /\ devices \subseteq Clients
  /\ source \in [Sources -> [alive : BOOLEAN, usage : Usages, mimes : SUBSET Mimes, actions : BOOLEAN]]
  /\ told \in [Sources -> SUBSET {"cancelled", "dropPerformed", "finished"}]

ObjectsInit ==
  /\ surfaces = Clients
  /\ devices = Clients
  /\ source = [s \in Sources |-> NoSource]
  /\ told = [s \in Sources |-> {}]

(* Events reach the sources that exist. *)
Tell(s, events) ==
  IF s # None /\ source[s].alive THEN [told EXCEPT ![s] = @ \cup events] ELSE told
=============================================================================
