------------------------------- MODULE Archive -------------------------------
(***************************************************************************)
(* What the server promises the owner of an account, with no files, no     *)
(* locks and no failures: uploads are opened and either accepted or turned *)
(* down, each slot shows one version, and a content is let go of only when *)
(* nothing shows it and no receipt stands for it.                          *)
(***************************************************************************)
EXTENDS Naturals

CONSTANTS
  Assets, Sources, Contents,
  Requests,   \* what an upload may ask for: records of asset, source, content
  MaxUploads, \* bound on the uploads of a behavior
  NoRequest

Upload == 1 .. MaxUploads
Slots == Assets \X Sources
Nothing == "nothing"

VARIABLES
  phase,  \* none, open, committed, rejected or deleted, of each upload
  wanted, \* what each upload asked for
  shows,  \* content each slot shows, or Nothing
  by,     \* the upload whose version the slot shows; 0: no upload's
  held    \* contents the archive keeps

avars == <<phase, wanted, shows, by, held>>

Slot(r) == <<r.asset, r.source>>
Newer(u) == {v \in Upload : v > u /\ phase[v] = "committed"
                              /\ Slot(wanted[v]) = Slot(wanted[u])}

Init ==
  /\ phase = [u \in Upload |-> "none"]
  /\ wanted = [u \in Upload |-> NoRequest]
  /\ shows = [s \in Slots |-> Nothing]
  /\ by = [s \in Slots |-> 0]
  /\ held = {}

Open(u, r) ==
  /\ phase[u] = "none"
  /\ phase' = [phase EXCEPT ![u] = "open"]
  /\ wanted' = [wanted EXCEPT ![u] = r]
  /\ UNCHANGED <<shows, by, held>>

\* The receipt, the version shown and the bytes kept, all at once, and never
\* over a newer upload.
Accept(u) ==
  /\ phase[u] = "open" /\ Newer(u) = {}
  /\ phase' = [phase EXCEPT ![u] = "committed"]
  /\ shows' = [shows EXCEPT ![Slot(wanted[u])] = wanted[u].content]
  /\ by' = [by EXCEPT ![Slot(wanted[u])] = u]
  /\ held' = held \cup {wanted[u].content}
  /\ UNCHANGED wanted

\* Failed, superseded or unknown; a receipt too may become unknown.
TurnDown(u) ==
  /\ phase[u] \in {"open", "committed"}
  /\ phase' = [phase EXCEPT ![u] = "rejected"]
  /\ held' \in {held, held \cup {wanted[u].content}}
  /\ UNCHANGED <<wanted, shows, by>>

\* A request for a content that is kept is answered without an upload.
Attach(r) ==
  /\ r.content \in held
  /\ shows' = [shows EXCEPT ![Slot(r)] = r.content]
  /\ by' = [by EXCEPT ![Slot(r)] =
                   IF shows[Slot(r)] = r.content THEN @ ELSE 0]
  /\ UNCHANGED <<phase, wanted, held>>

Delete(a) ==
  /\ \E s \in Sources : shows[<<a, s>>] # Nothing
  /\ phase' = [u \in Upload |->
                 IF phase[u] # "none" /\ wanted[u].asset = a
                   THEN "deleted" ELSE phase[u]]
  /\ shows' = [s \in Slots |-> IF s[1] = a THEN Nothing ELSE shows[s]]
  /\ by' = [s \in Slots |-> IF s[1] = a THEN 0 ELSE by[s]]
  /\ UNCHANGED <<wanted, held>>

\* Letting go of a content nobody was promised.
Release(c) ==
  /\ c \in held
  /\ \A s \in Slots : shows[s] # c
  /\ \A u \in Upload : phase[u] = "committed" => wanted[u].content # c
  /\ held' = held \ {c}
  /\ UNCHANGED <<phase, wanted, shows, by>>

Next ==
  \/ \E u \in Upload, r \in Requests : Open(u, r)
  \/ \E u \in Upload : Accept(u) \/ TurnDown(u)
  \/ \E r \in Requests : Attach(r)
  \/ \E a \in Assets : Delete(a)
  \/ \E c \in Contents : Release(c)

Spec == Init /\ [][Next]_avars

\* What the owner relies on: every version shown and every receipt is for a
\* content the archive keeps.
PromisesKept ==
  /\ \A s \in Slots : shows[s] # Nothing => shows[s] \in held
  /\ \A u \in Upload : phase[u] = "committed" => wanted[u].content \in held
=============================================================================
