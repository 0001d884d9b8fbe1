--------------------------- MODULE HandleRegistry ---------------------------
(***************************************************************************)
(* What the owner of a coordinator handle arena is promised, with none of  *)
(* the arena's bookkeeping: a handle denotes one set of identity rows from *)
(* the call that issued it to the call that ends it, a view denotes a      *)
(* non-empty part of its data handle's rows and ends with it, and no       *)
(* handle is issued twice.                                                 *)
(***************************************************************************)
EXTENDS FiniteSets

CONSTANTS
  Handle,   \* handle values
  Row,      \* identity rows
  None      \* no parent (a data handle), or no rows (no relations)

VARIABLES
  live,     \* live[h] = [parent, rows] of a live handle
  issued    \* every handle ever issued

registryVars == <<live, issued>>

Init ==
  /\ live = << >>
  /\ issued = {}

\* A handle that was never issued is issued, and bound to an entry for good.
Issue(h) ==
  /\ h \notin issued
  /\ issued' = issued \cup {h}

Bind(h, entry) ==
  live' = [x \in DOMAIN live \cup {h} |-> IF x = h THEN entry ELSE live[x]]

Open(h) ==
  /\ Issue(h)
  /\ \E rows \in (SUBSET Row) \cup {None} :
        Bind(h, [parent |-> None, rows |-> rows])

Derive(h, d) ==
  /\ Issue(h)
  /\ live[d].parent = None
  /\ live[d].rows # None
  /\ \E rows \in (SUBSET live[d].rows) \ {{}} :
        Bind(h, [parent |-> d, rows |-> rows])

\* A handle ends together with the views taken of it, and with nothing else.
Close(h) ==
  /\ h \in DOMAIN live
  /\ live' = [x \in {y \in DOMAIN live : y # h /\ live[y].parent # h}
                |-> live[x]]
  /\ UNCHANGED issued

Next ==
  \E h \in Handle :
    \/ Open(h)
    \/ \E d \in DOMAIN live : Derive(h, d)
    \/ Close(h)

Spec == Init /\ [][Next]_registryVars
=============================================================================
