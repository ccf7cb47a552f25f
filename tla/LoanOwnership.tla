---------------------------- MODULE LoanOwnership ----------------------------
(***************************************************************************)
(* What the factory promises about who owns a Prime Account                *)
(* (SmartLoansFactory.sol:14-23): every account has one owner, a wallet    *)
(* owns at most one account, and an account changes hands only from an     *)
(* owner who offered it to a wallet that took it.                          *)
(***************************************************************************)
CONSTANTS Wallets, Loans, Nobody

VARIABLES ownerOf,  \* the owner of each account, Nobody before it exists
          offers    \* <<owner, account, wallet>>

Free(w) == \A l \in Loans : ownerOf[l] # w

Init ==
    /\ ownerOf = [l \in Loans |-> Nobody]
    /\ offers = {}

Create(l, w) ==
    /\ ownerOf[l] = Nobody
    /\ Free(w)
    /\ ownerOf' = [ownerOf EXCEPT ![l] = w]
    /\ UNCHANGED offers

OffersOf(l) == {o \in offers : o[2] = l}

\* An account is offered to at most one wallet at a time.
Offer(l, w) ==
    /\ ownerOf[l] \notin {Nobody, w}
    /\ Free(w)
    /\ offers' = (offers \ OffersOf(l)) \cup {<<ownerOf[l], l, w>>}
    /\ UNCHANGED ownerOf

Revoke(l) ==
    /\ offers' = offers \ OffersOf(l)
    /\ UNCHANGED ownerOf

HandOver(l, w) ==
    /\ <<ownerOf[l], l, w>> \in offers
    /\ Free(w)
    /\ ownerOf' = [ownerOf EXCEPT ![l] = w]
    /\ offers' = offers \ OffersOf(l)

Next ==
    \E l \in Loans :
        \/ Revoke(l)
        \/ \E w \in Wallets : Create(l, w) \/ Offer(l, w) \/ HandOver(l, w)

Spec == Init /\ [][Next]_<<ownerOf, offers>>
==============================================================================
