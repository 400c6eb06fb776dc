-------------------------------- MODULE Shelf --------------------------------
(***************************************************************************)
(* What the handlers that read one resource may rely on: an object is put  *)
(* away whole before the resource shows it, and stays while it is shown.   *)
(***************************************************************************)
CONSTANTS
  Contents, \* contents of the versions of the resource
  None      \* shown by a resource that has no row

VARIABLES
  resource, \* the content the resource shows, or None
  objects   \* contents whose object is stored whole

Init == resource = None /\ objects = {}

Store(c) == objects' = objects \cup {c} /\ UNCHANGED resource

Show(c) == c \in objects /\ resource' = c /\ UNCHANGED objects

Withdraw == resource' = None /\ UNCHANGED objects

Discard(c) == c # resource /\ objects' = objects \ {c} /\ UNCHANGED resource

Next == Withdraw \/ \E c \in Contents : Store(c) \/ Show(c) \/ Discard(c)

Spec == Init /\ [][Next]_<<resource, objects>>

\* What a reader of the row finds behind it.
ShownIsStored == resource # None => resource \in objects
=============================================================================
