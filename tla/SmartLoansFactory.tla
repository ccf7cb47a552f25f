-------------------------- MODULE SmartLoansFactory --------------------------
(***************************************************************************)
(* The registry of Prime Accounts (SmartLoansFactory.sol, its restricted   *)
(* variant, and OwnershipFacet.sol): two mappings kept by the factory, and *)
(* in every account its own record of owner and proposed owner.  A         *)
(* transfer is proposed in one transaction and accepted in another, with   *)
(* any number of other transactions between them.                          *)
(***************************************************************************)
EXTENDS Naturals, Sequences, FiniteSets, TLAPS

CONSTANTS Wallets,
          Loans,        \* the addresses of accounts that are ever created
          Nobody,       \* the zero address
          Restricted    \* is it the factory with a whitelist of borrowers

ASSUME FactoryAssumption ==
    /\ Nobody \notin Wallets \cup Loans
    /\ Restricted \in BOOLEAN

VARIABLES ownersToLoans, loansToOwners, loans,
          contractOwner, proposedOwner,     \* in the storage of each account
          whitelist

registry == <<ownersToLoans, loansToOwners, loans>>
vars == <<registry, contractOwner, proposedOwner, whitelist>>

TypeOK ==
    /\ ownersToLoans \in [Wallets -> Loans \cup {Nobody}]
    /\ loansToOwners \in [Loans -> Wallets \cup {Nobody}]
    /\ loans \in Seq(Loans)
    /\ contractOwner \in [Loans -> Wallets \cup {Nobody}]
    /\ proposedOwner \in [Loans -> Wallets \cup {Nobody}]
    /\ whitelist \subseteq Wallets

Init ==
    /\ ownersToLoans = [w \in Wallets |-> Nobody]
    /\ loansToOwners = [l \in Loans |-> Nobody]
    /\ loans = <<>>
    /\ contractOwner = [l \in Loans |-> Nobody]
    /\ proposedOwner = [l \in Loans |-> Nobody]
    /\ whitelist = {}

-----------------------------------------------------------------------------
(* The factory *)

HasLoan(user) == user # Nobody /\ ownersToLoans[user] # Nobody

CanBorrow(account) == loansToOwners[account] # Nobody

\* Mutant of UpdateRegistry: the loan is not listed.
RegisterUnlisted(loan, owner) ==
    /\ ownersToLoans' = [ownersToLoans EXCEPT ![owner] = loan]
    /\ loansToOwners' = [loansToOwners EXCEPT ![loan] = owner]
    /\ UNCHANGED loans

UpdateRegistry(loan, owner) ==
    /\ ownersToLoans' = [ownersToLoans EXCEPT ![owner] = loan]
    /\ loansToOwners' = [loansToOwners EXCEPT ![loan] = owner]
    /\ loans' = Append(loans, loan)

\* createLoan and createAndFundLoan: a new proxy, never initialized before,
\* whose owner is the sender from its initializer on.
CreateLoan(sender, loan) ==
    /\ ~HasLoan(sender)
    /\ Restricted => sender \in whitelist
    /\ contractOwner[loan] = Nobody
    /\ contractOwner' = [contractOwner EXCEPT ![loan] = sender]
    /\ UpdateRegistry(loan, sender)
    /\ UNCHANGED <<proposedOwner, whitelist>>

\* Mutant of ChangeOwnership: a wallet that got a loan meanwhile is accepted.
AllowSecondLoan(loan, newOwner) ==
    /\ loansToOwners[loan] # Nobody
    /\ ownersToLoans' = [ownersToLoans EXCEPT ![loansToOwners[loan]] = Nobody,
                                              ![newOwner] = loan]
    /\ loansToOwners' = [loansToOwners EXCEPT ![loan] = newOwner]
    /\ UNCHANGED loans

\* changeOwnership, called by the loan.
ChangeOwnership(loan, newOwner) ==
    /\ loansToOwners[loan] # Nobody
    /\ ~HasLoan(newOwner)
    /\ ownersToLoans' = [ownersToLoans EXCEPT ![loansToOwners[loan]] = Nobody,
                                              ![newOwner] = loan]
    /\ loansToOwners' = [loansToOwners EXCEPT ![loan] = newOwner]
    /\ UNCHANGED loans

WhitelistBorrowers(borrowers) ==
    /\ Restricted
    /\ whitelist' = whitelist \cup borrowers
    /\ UNCHANGED <<registry, contractOwner, proposedOwner>>

DelistBorrowers(borrowers) ==
    /\ Restricted
    /\ whitelist' = whitelist \ borrowers
    /\ UNCHANGED <<registry, contractOwner, proposedOwner>>

-----------------------------------------------------------------------------
(* The ownership facet of an account *)

\* Proposing the zero address takes a proposal back.
ProposeOwnershipTransfer(sender, loan, newOwner) ==
    /\ sender = contractOwner[loan]
    /\ newOwner # sender
    /\ ~HasLoan(newOwner)
    /\ proposedOwner' = [proposedOwner EXCEPT ![loan] = newOwner]
    /\ UNCHANGED <<registry, contractOwner, whitelist>>

\* Mutant of AcceptOwnership: the proposal is not cleared.
AcceptAndKeepProposal(sender, loan) ==
    /\ sender = proposedOwner[loan]
    /\ contractOwner' = [contractOwner EXCEPT ![loan] = sender]
    /\ ChangeOwnership(loan, sender)
    /\ UNCHANGED <<proposedOwner, whitelist>>

AcceptOwnership(sender, loan) ==
    /\ sender = proposedOwner[loan]
    /\ contractOwner' = [contractOwner EXCEPT ![loan] = sender]
    /\ proposedOwner' = [proposedOwner EXCEPT ![loan] = Nobody]
    /\ ChangeOwnership(loan, sender)
    /\ UNCHANGED whitelist

-----------------------------------------------------------------------------

Next ==
    \/ \E w \in Wallets, l \in Loans :
          \/ CreateLoan(w, l)
          \/ AcceptOwnership(w, l)
          \/ \E v \in Wallets \cup {Nobody} : ProposeOwnershipTransfer(w, l, v)
    \/ \E w \in Wallets : WhitelistBorrowers({w}) \/ DelistBorrowers({w})

Spec == Init /\ [][Next]_vars

-----------------------------------------------------------------------------
(* Properties *)

\* The two mappings of the factory are inverse to each other, and the owner an
\* account obeys is the one the factory has on record, whatever happens between
\* a proposal and its acceptance (changeOwnership, SmartLoansFactory.sol:47-57,
\* against acceptOwnership, OwnershipFacet.sol:23-30).
RegistryAgrees ==
    \A l \in Loans :
        /\ contractOwner[l] = loansToOwners[l]
        /\ \A w \in Wallets : ownersToLoans[w] = l <=> loansToOwners[l] = w

\* getAllLoans names every account that may borrow, and each only once.
LoansListed ==
    /\ {loans[i] : i \in DOMAIN loans} = {l \in Loans : CanBorrow(l)}
    /\ \A i, j \in DOMAIN loans : loans[i] = loans[j] => i = j

\* The factory and the accounts implement LoanOwnership: one owner, one loan
\* per wallet, and no account changes hands without the offer of its present
\* owner.
PendingOffers ==
    {<<contractOwner[l], l, proposedOwner[l]>> :
        l \in {k \in Loans : proposedOwner[k] # Nobody}}

Ownership == INSTANCE LoanOwnership
                WITH ownerOf <- loansToOwners, offers <- PendingOffers

ImplementsOwnership == Ownership!Spec

-----------------------------------------------------------------------------
(* Proofs: the registry is consistent, and it implements LoanOwnership, for   *)
(* any sets of wallets and accounts and for both variants of the factory.     *)

\* Only an existing account has a proposal, and never to its own owner.
ProposalsPending ==
    \A l \in Loans : proposedOwner[l] # Nobody =>
        /\ contractOwner[l] # Nobody
        /\ proposedOwner[l] # contractOwner[l]

IInv == TypeOK /\ RegistryAgrees /\ LoansListed /\ ProposalsPending

LEMMA InitIInv == Init => IInv
BY FactoryAssumption
   DEF Init, IInv, TypeOK, RegistryAgrees, LoansListed, ProposalsPending, CanBorrow

-----------------------------------------------------------------------------

LEMMA CreateKeeps ==
    ASSUME IInv, NEW w \in Wallets, NEW l \in Loans, CreateLoan(w, l)
    PROVE  IInv'
<1>. USE FactoryAssumption
<1>1. /\ ownersToLoans[w] = Nobody /\ contractOwner[l] = Nobody
      /\ loansToOwners[l] = Nobody /\ l # Nobody /\ w # Nobody
      /\ contractOwner' = [contractOwner EXCEPT ![l] = w]
      /\ ownersToLoans' = [ownersToLoans EXCEPT ![w] = l]
      /\ loansToOwners' = [loansToOwners EXCEPT ![l] = w]
      /\ loans' = Append(loans, l)
      /\ UNCHANGED <<proposedOwner, whitelist>>
  BY DEF CreateLoan, UpdateRegistry, HasLoan, IInv, RegistryAgrees
<1>2. TypeOK'  BY <1>1 DEF IInv, TypeOK
<1>3. RegistryAgrees'  BY <1>1 DEF IInv, TypeOK, RegistryAgrees
<1>4. LoansListed'
  <2>1. DOMAIN loans = 1..Len(loans) /\ DOMAIN loans' = 1..(Len(loans) + 1)
        /\ Len(loans) \in Nat
    BY <1>1 DEF IInv, TypeOK
  <2>2. /\ \A i \in DOMAIN loans : loans'[i] = loans[i]
        /\ loans'[Len(loans) + 1] = l
    BY <1>1, <2>1 DEF IInv, TypeOK
  <2>3. \A i \in DOMAIN loans : loans[i] # l
    BY <1>1 DEF IInv, LoansListed, CanBorrow
  <2>4. {k \in Loans : CanBorrow(k)'} = {k \in Loans : CanBorrow(k)} \cup {l}
    BY <1>1 DEF IInv, TypeOK, CanBorrow
  <2>5. {loans'[i] : i \in DOMAIN loans'} = {loans[i] : i \in DOMAIN loans} \cup {l}
    BY <2>1, <2>2
  <2>6. \A i, j \in DOMAIN loans' : loans'[i] = loans'[j] => i = j
    BY <2>1, <2>2, <2>3 DEF IInv, LoansListed
  <2>. QED BY <2>4, <2>5, <2>6 DEF IInv, LoansListed
<1>5. ProposalsPending'
  BY <1>1 DEF IInv, TypeOK, ProposalsPending
<1>. QED BY <1>2, <1>3, <1>4, <1>5 DEF IInv

LEMMA AcceptKeeps ==
    ASSUME IInv, NEW w \in Wallets, NEW l \in Loans, AcceptOwnership(w, l)
    PROVE  IInv'
<1>. USE FactoryAssumption
<1>1. PICK old \in Wallets :
         /\ old = loansToOwners[l] /\ old = contractOwner[l]
         /\ ownersToLoans[old] = l
  BY DEF AcceptOwnership, ChangeOwnership, IInv, TypeOK, RegistryAgrees
<1>2. /\ ownersToLoans[w] = Nobody /\ w # old /\ l # Nobody /\ w # Nobody
      /\ contractOwner' = [contractOwner EXCEPT ![l] = w]
      /\ proposedOwner' = [proposedOwner EXCEPT ![l] = Nobody]
      /\ ownersToLoans' = [ownersToLoans EXCEPT ![old] = Nobody, ![w] = l]
      /\ loansToOwners' = [loansToOwners EXCEPT ![l] = w]
      /\ UNCHANGED <<loans, whitelist>>
  BY <1>1 DEF AcceptOwnership, ChangeOwnership, HasLoan
<1>3. TypeOK'  BY <1>2 DEF IInv, TypeOK
<1>4. RegistryAgrees'
  BY <1>1, <1>2 DEF IInv, TypeOK, RegistryAgrees
<1>5. \A k \in Loans : CanBorrow(k)' <=> CanBorrow(k)
  BY <1>1, <1>2 DEF IInv, TypeOK, CanBorrow
<1>6. LoansListed'  BY <1>2, <1>5 DEF IInv, LoansListed
<1>7. ProposalsPending'
  BY <1>2 DEF IInv, TypeOK, ProposalsPending
<1>. QED BY <1>3, <1>4, <1>6, <1>7 DEF IInv

LEMMA ProposeKeeps ==
    ASSUME IInv, NEW w \in Wallets, NEW l \in Loans, NEW v \in Wallets \cup {Nobody},
           ProposeOwnershipTransfer(w, l, v)
    PROVE  IInv'
<1>1. UNCHANGED <<registry, contractOwner, whitelist>>
  BY DEF ProposeOwnershipTransfer
<1>2. TypeOK'  BY <1>1 DEF ProposeOwnershipTransfer, IInv, TypeOK, registry
<1>3. RegistryAgrees' /\ LoansListed'
  BY <1>1 DEF IInv, RegistryAgrees, LoansListed, CanBorrow, registry
<1>4. ProposalsPending'
  BY FactoryAssumption DEF ProposeOwnershipTransfer, IInv, TypeOK, ProposalsPending
<1>. QED BY <1>2, <1>3, <1>4 DEF IInv

LEMMA WhitelistKeeps ==
    ASSUME IInv, NEW w \in Wallets, WhitelistBorrowers({w}) \/ DelistBorrowers({w})
    PROVE  IInv'
BY DEF WhitelistBorrowers, DelistBorrowers, registry, IInv, TypeOK,
       RegistryAgrees, LoansListed, CanBorrow, ProposalsPending

LEMMA NextKeepsIInv == IInv /\ [Next]_vars => IInv'
<1>. SUFFICES ASSUME IInv, [Next]_vars PROVE IInv'  OBVIOUS
<1>1. CASE UNCHANGED vars
  BY <1>1 DEF vars, registry, IInv, TypeOK, RegistryAgrees, LoansListed,
              CanBorrow, ProposalsPending
<1>2. CASE Next
  BY <1>2, CreateKeeps, AcceptKeeps, ProposeKeeps, WhitelistKeeps DEF Next
<1>. QED BY <1>1, <1>2

LEMMA Invariance == Spec => []IInv
BY InitIInv, NextKeepsIInv, PTL DEF Spec

\* The registry is well typed: nothing but wallets and accounts is listed.
THEOREM TypeCorrect == Spec => []TypeOK
<1>1. IInv => TypeOK  BY DEF IInv
<1>. QED BY <1>1, Invariance, PTL

\* The factory's mappings and the accounts' own records never disagree.
THEOREM RegistryConsistent == Spec => []RegistryAgrees
<1>1. IInv => RegistryAgrees  BY DEF IInv
<1>. QED BY <1>1, Invariance, PTL

\* The list of loans is exactly the set of accounts that may borrow.
THEOREM ListComplete == Spec => []LoansListed
<1>1. IInv => LoansListed  BY DEF IInv
<1>. QED BY <1>1, Invariance, PTL

-----------------------------------------------------------------------------
(* Refinement *)

LEMMA NoLoanIsFree ==
    ASSUME IInv, NEW w \in Wallets, ~HasLoan(w)
    PROVE  Ownership!Free(w)
BY FactoryAssumption DEF IInv, TypeOK, RegistryAgrees, HasLoan, Ownership!Free

LEMMA InitRefines == Init => Ownership!Init
BY DEF Init, Ownership!Init, PendingOffers

LEMMA CreateRefines ==
    ASSUME IInv, NEW w \in Wallets, NEW l \in Loans, CreateLoan(w, l)
    PROVE  Ownership!Create(l, w)
<1>1. loansToOwners[l] = Nobody
  BY DEF CreateLoan, IInv, RegistryAgrees
<1>2. Ownership!Free(w)  BY NoLoanIsFree DEF CreateLoan
<1>3. loansToOwners' = [loansToOwners EXCEPT ![l] = w]
  BY DEF CreateLoan, UpdateRegistry
<1>4. UNCHANGED PendingOffers
  <2>1. proposedOwner[l] = Nobody
    BY DEF CreateLoan, IInv, ProposalsPending
  <2>2. \A k \in Loans : k # l => contractOwner'[k] = contractOwner[k]
    BY DEF CreateLoan, IInv, TypeOK
  <2>3. proposedOwner' = proposedOwner  BY DEF CreateLoan
  <2>. QED BY <2>1, <2>2, <2>3 DEF PendingOffers
<1>. QED BY <1>1, <1>2, <1>3, <1>4 DEF Ownership!Create

LEMMA ProposeRefines ==
    ASSUME IInv, NEW w \in Wallets, NEW l \in Loans, NEW v \in Wallets \cup {Nobody},
           ProposeOwnershipTransfer(w, l, v)
    PROVE  IF v = Nobody THEN Ownership!Revoke(l) ELSE Ownership!Offer(l, v)
<1>1. /\ loansToOwners[l] = w /\ contractOwner[l] = w /\ v # w /\ w # Nobody
      /\ proposedOwner' = [proposedOwner EXCEPT ![l] = v]
      /\ UNCHANGED <<loansToOwners, contractOwner>>
  BY FactoryAssumption
     DEF ProposeOwnershipTransfer, IInv, RegistryAgrees, registry
<1>2. PendingOffers \ Ownership!OffersOf(l)
        = {<<contractOwner[k], k, proposedOwner[k]>> :
              k \in {j \in Loans : proposedOwner[j] # Nobody /\ j # l}}
  BY DEF PendingOffers, Ownership!OffersOf
<1>3. \A k \in Loans : k # l => proposedOwner'[k] = proposedOwner[k]
  BY <1>1 DEF IInv, TypeOK
<1>4. proposedOwner'[l] = v  BY <1>1 DEF IInv, TypeOK
<1>5. CASE v = Nobody
  <2>1. PendingOffers' = PendingOffers \ Ownership!OffersOf(l)
    BY <1>1, <1>2, <1>3, <1>4, <1>5 DEF PendingOffers
  <2>. QED BY <1>1, <1>5, <2>1 DEF Ownership!Revoke
<1>6. CASE v # Nobody
  <2>1. PendingOffers' = (PendingOffers \ Ownership!OffersOf(l)) \cup {<<w, l, v>>}
    BY <1>1, <1>2, <1>3, <1>4, <1>6 DEF PendingOffers
  <2>2. Ownership!Free(v)
    BY <1>6, NoLoanIsFree DEF ProposeOwnershipTransfer
  <2>. QED BY <1>1, <1>6, <2>1, <2>2 DEF Ownership!Offer
<1>. QED BY <1>5, <1>6

LEMMA AcceptRefines ==
    ASSUME IInv, NEW w \in Wallets, NEW l \in Loans, AcceptOwnership(w, l)
    PROVE  Ownership!HandOver(l, w)
<1>1. /\ w = proposedOwner[l] /\ w # Nobody
      /\ contractOwner[l] = loansToOwners[l]
      /\ contractOwner' = [contractOwner EXCEPT ![l] = w]
      /\ proposedOwner' = [proposedOwner EXCEPT ![l] = Nobody]
      /\ loansToOwners' = [loansToOwners EXCEPT ![l] = w]
  BY FactoryAssumption
     DEF AcceptOwnership, ChangeOwnership, IInv, RegistryAgrees
<1>2. <<loansToOwners[l], l, w>> \in PendingOffers  BY <1>1 DEF PendingOffers
<1>3. Ownership!Free(w)
  BY NoLoanIsFree DEF AcceptOwnership, ChangeOwnership
<1>4. PendingOffers' = PendingOffers \ Ownership!OffersOf(l)
  <2>1. \A k \in Loans : k # l => /\ proposedOwner'[k] = proposedOwner[k]
                                  /\ contractOwner'[k] = contractOwner[k]
    BY <1>1 DEF IInv, TypeOK
  <2>2. proposedOwner'[l] = Nobody  BY <1>1 DEF IInv, TypeOK
  <2>3. PendingOffers \ Ownership!OffersOf(l)
          = {<<contractOwner[k], k, proposedOwner[k]>> :
                k \in {j \in Loans : proposedOwner[j] # Nobody /\ j # l}}
    BY DEF PendingOffers, Ownership!OffersOf
  <2>. QED BY <2>1, <2>2, <2>3 DEF PendingOffers
<1>. QED BY <1>1, <1>2, <1>3, <1>4 DEF Ownership!HandOver

LEMMA NextRefines ==
    IInv /\ [Next]_vars => [Ownership!Next]_<<loansToOwners, PendingOffers>>
<1>. SUFFICES ASSUME IInv, [Next]_vars
              PROVE  Ownership!Next \/ UNCHANGED <<loansToOwners, PendingOffers>>
  OBVIOUS
<1>1. CASE UNCHANGED vars  BY <1>1 DEF vars, registry, PendingOffers
<1>2. ASSUME NEW w \in Wallets, NEW l \in Loans, CreateLoan(w, l)
      PROVE  Ownership!Next
  BY <1>2, CreateRefines DEF Ownership!Next
<1>3. ASSUME NEW w \in Wallets, NEW l \in Loans, AcceptOwnership(w, l)
      PROVE  Ownership!Next
  BY <1>3, AcceptRefines DEF Ownership!Next
<1>4. ASSUME NEW w \in Wallets, NEW l \in Loans, NEW v \in Wallets \cup {Nobody},
             ProposeOwnershipTransfer(w, l, v)
      PROVE  Ownership!Next
  BY <1>4, ProposeRefines DEF Ownership!Next
<1>5. ASSUME NEW w \in Wallets, WhitelistBorrowers({w}) \/ DelistBorrowers({w})
      PROVE  UNCHANGED <<loansToOwners, PendingOffers>>
  BY <1>5 DEF WhitelistBorrowers, DelistBorrowers, registry, PendingOffers
<1>. QED BY <1>1, <1>2, <1>3, <1>4, <1>5 DEF Next

\* Every behaviour of the factory and its accounts is one that LoanOwnership
\* allows.
THEOREM Refinement == Spec => ImplementsOwnership
BY InitRefines, NextRefines, Invariance, PTL DEF Spec, ImplementsOwnership, Ownership!Spec
==============================================================================
