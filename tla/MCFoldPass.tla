----------------------------- MODULE MCFoldPass -----------------------------
(* Accounts that are opened, moved money between and closed. *)
EXTENDS FoldPass, TLC

CONSTANTS account, owner, x, y, Opened, Closed

\* A closing event has its account's number, where the tag has its digits.
MCDomainIds  == Opened :> {account, owner} @@ Closed :> {account}
MCTextFields == Opened :> {account, owner} @@ Closed :> {}

\* LatestEvent<Opened> by owner only, a derived fold that counts with a fixed owner,
\* and a toggle that keeps to the field both events have.
LastOpened   == [kind |-> "LatestEvent", fields |-> {owner}, required |-> {},
                 entries |-> <<event_domain_ids(Opened, {<<owner>>})>>]
OfOneOwner   == [kind |-> "EventCounter", fields |-> {account}, required |-> {account},
                 entries |-> <<event_domain_ids(Opened, {<<owner, x>>}),
                               event_domain_ids(Closed, {})>>]
OpenOrClosed == [kind |-> "EventToggle", fields |-> {account}, required |-> {},
                 entries |-> <<event_domain_ids(Opened, {<<account>>}),
                               event_domain_ids(Closed, {})>>]

\* Folds whose authors expect more than they get: two variants of one type, for a
\* fixed owner and for the bound account, and one fixed to an account that the data
\* holds as a number. Without Regular in FoldMeaning they violate it.
TwoVariants  == [kind |-> "EventFold", fields |-> {account}, required |-> {},
                 entries |-> <<event_domain_ids(Opened, {<<owner, x>>}),
                               event_domain_ids(Opened, {<<account>>})>>]
OneAccount   == [kind |-> "EventCounter", fields |-> {account}, required |-> {},
                 entries |-> <<event_domain_ids(Closed, {<<account, x>>})>>]

MCFoldTypes == {LastOpened, OfOneOwner, OpenOrClosed, TwoVariants, OneAccount}

Bound(a, o) == account :> a @@ owner :> o
MCDeclared  == {{account, owner}, {account}}
MCInputs    == {Bound(x, y)}

\* The last one is not of any command's ids.
MCGiven == {Bound(x, y), owner :> y, account :> y}
=============================================================================
