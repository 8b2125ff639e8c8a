------------------------------ MODULE MCWindow ------------------------------
(***************************************************************************)
(* Histories for Window: three ways to open a conversation (no system      *)
(* turn, one, one that carries a note and is followed by a developer       *)
(* message) before four messages of the given roles.                       *)
(***************************************************************************)
EXTENDS Window, TLC

CONSTANTS c1, c2, h1, h2

\* Conversations, and handlers, may be exchanged.
Exchange == Permutations(Conversation) \cup Permutations(Handler)

\* A message of its kind at its place states a fact of its own.
Told(kind, at) ==
  [role |-> kind.role, size |-> kind.size, facts |-> <<kind.id + at>>, note |-> NoNote]
U == [role |-> "user", size |-> 2, id |-> 10]
A == [role |-> "assistant", size |-> 1, id |-> 20]
T == [role |-> "tool", size |-> 1, id |-> 30]
S == [role |-> "system", size |-> 1, id |-> 40]
D == [role |-> "developer", size |-> 1, id |-> 50]

Leads ==
  { <<>>, <<Told(S, 0)>>,
    <<[Told(S, 0) EXCEPT !.note = [size |-> 1, of |-> <<90>>]], Told(D, 0)>> }
Shapes == { <<U, A, T, U>>, <<U, A, U, S>>, <<U, S, A, T>> }

Histories ==
  { lead \o [i \in DOMAIN shape |-> Told(shape[i], i)] : lead \in Leads, shape \in Shapes }

\* Facts are numbered.
Numbers == 0..99
Roles == NOT_UNIT_START \cup {"user", "assistant"}
=============================================================================
