------------------------------- MODULE Catalog -------------------------------
(***************************************************************************)
(* What the module store promises its clients, without rows, ids and       *)
(* joins: which code is published as which version of which module, and    *)
(* which version of each module is active.                                 *)
(***************************************************************************)
EXTENDS Naturals

CONSTANTS Modules, Versions, Codes

VARIABLES
  published,   \* the versions that can be activated, with their code
  active       \* the active version of each module that has one

catalog == <<published, active>>

Release == [module : Modules, version : Versions, code : Codes]
Choice  == [module : Modules, version : Versions]

IsPublished(m, v) == \E r \in published : r.module = m /\ r.version = v
IsActive(m, v)    == \E a \in active : a.module = m /\ a.version = v

Init == published = {} /\ active = {}

\* A version is published once; its code does not change while it stays.
Publish(m, v, c) ==
  /\ ~IsPublished(m, v)
  /\ published' = published \cup {[module |-> m, version |-> v, code |-> c]}
  /\ UNCHANGED active

Activate(m, v) ==
  /\ IsPublished(m, v)
  /\ active' = {a \in active : a.module # m}
                 \cup {[module |-> m, version |-> v]}
  /\ UNCHANGED published

Deactivate(m) ==
  /\ active' = {a \in active : a.module # m}
  /\ UNCHANGED published

\* An active version cannot be withdrawn.
Withdraw(m, v) ==
  /\ ~IsActive(m, v)
  /\ published' = {r \in published : ~(r.module = m /\ r.version = v)}
  /\ UNCHANGED active

Remove(m) ==
  /\ published' = {r \in published : r.module # m}
  /\ active' = {a \in active : a.module # m}

Next ==
  \E m \in Modules :
    \/ Deactivate(m)
    \/ Remove(m)
    \/ \E v \in Versions :
         \/ Activate(m, v)
         \/ Withdraw(m, v)
         \/ \E c \in Codes : Publish(m, v, c)

Spec == Init /\ [][Next]_catalog
=============================================================================
