------------------------------ MODULE PagePool ------------------------------
(***************************************************************************)
(* What a reference-counted page allocator promises, without its counters, *)
(* queues and hash index: a page is free or has users; it goes from free   *)
(* to its first user, from there to further users, and is free again when, *)
(* and only when, the last user drops it.  One step touches one user.      *)
(***************************************************************************)
EXTENDS Integers

CONSTANTS Page, User

VARIABLES
  free,   \* the pages nobody uses
  uses    \* how many times a user has a page in its table

poolVars == <<free, uses>>

Init ==
  /\ free = Page
  /\ uses = [p \in Page |-> [u \in User |-> 0]]

Unused(p, use) == \A u \in User : use[p][u] = 0

\* The first use of a page.
Take(u, p) ==
  /\ p \in free
  /\ free' = free \ {p}
  /\ uses' = [uses EXCEPT ![p][u] = 1]

\* A further use of a page in use.
Share(u, p) ==
  /\ p \notin free
  /\ uses' = [uses EXCEPT ![p][u] = @ + 1]
  /\ UNCHANGED free

Drop(u, p) ==
  /\ uses[p][u] > 0
  /\ uses' = [uses EXCEPT ![p][u] = @ - 1]
  /\ free' = IF Unused(p, uses') THEN free \cup {p} ELSE free

\* A page in use by others too is replaced by a private copy.
Copy(u, p, q) ==
  /\ q \in free
  /\ uses[p][u] > 0
  /\ uses' = [uses EXCEPT ![p][u] = @ - 1, ![q][u] = 1]
  /\ ~Unused(p, uses')
  /\ free' = free \ {q}

Next ==
  \E u \in User, p \in Page :
    \/ Take(u, p) \/ Share(u, p) \/ Drop(u, p)
    \/ \E q \in Page \ {p} : Copy(u, p, q)

Spec == Init /\ [][Next]_poolVars

=============================================================================
