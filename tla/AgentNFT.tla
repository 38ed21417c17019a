----------------------------- MODULE AgentNFT -----------------------------
(***************************************************************************)
(* StratumAgentNFT.sol: the ERC-721 that stands for an agent, with the     *)
(* ERC-7857 usage grants and iTransfer (contracts/src/nft).                *)
(*                                                                         *)
(* OpenZeppelin's ERC-721 (approve, transferFrom, _update) is not in the   *)
(* repository; it is modelled from how the contract overrides and calls    *)
(* it.  msg.sender is the parameter caller.  Metadata, sealed keys and     *)
(* transfer proofs carry no decision beyond being there and are left out.  *)
(***************************************************************************)
EXTENDS Integers, FiniteSets, Sums

CONSTANTS Person,     \* externally owned addresses
          Market,     \* the Marketplace contract's address
          Locker,     \* the Fractionalizer contract's address
          NoAccount,  \* address(0)
          Renter,     \* the addresses that usage is granted to
          Approvable, \* bound: the addresses that owners approve for a token
          Operator,   \* bound: the addresses that owners make operators of all they own
          MaxToken,   \* bound: how many tokens are minted
          MaxVersion, \* bound: iTransfers of one token
          MaxTime     \* bound: the last block.timestamp of a behaviour

Account == Person \cup {Market, Locker}

ASSUME AgentNFTAssumption ==
  /\ IsFiniteSet(Person)
  /\ Market # Locker
  /\ {Market, Locker, NoAccount} \cap Person = {}
  /\ NoAccount \notin {Market, Locker}
  /\ Approvable \subseteq Account /\ Operator \subseteq Account
  /\ MaxToken \in Nat /\ MaxVersion \in Nat /\ MaxTime \in Nat

VARIABLES nextId,           \* _nextId
          owner,            \* ERC-721 owners: NoAccount before mint and after a burn
          approved,         \* ERC-721 per-token approval
          approvedForAll,   \* ERC-721 operators: pairs <<owner, operator>>
          usageVersion,     \* usageVersion
          grantedAtVersion, \* _grantedAtVersion
          grantExpiresAt,   \* _grantExpiresAt
          now,              \* block.timestamp
          grantedSince      \* history: who was authorized since the token's last iTransfer

grantVars == <<usageVersion, grantedAtVersion, grantExpiresAt, grantedSince>>
nftVars == <<nextId, owner, approved, approvedForAll, grantVars, now>>

Token == 1 .. MaxToken

NFTTypeOK ==
  /\ nextId \in 0 .. MaxToken
  /\ owner \in [Token -> Account \cup {NoAccount}]
  /\ approved \in [Token -> Account \cup {NoAccount}]
  /\ approvedForAll \subseteq Account \X Account
  /\ usageVersion \in [Token -> Nat]
  /\ grantedAtVersion \in [Token -> [Renter -> Nat]]
  /\ grantExpiresAt \in [Token -> [Renter -> Nat]]
  /\ now \in Nat
  /\ grantedSince \in [Token -> SUBSET Renter]

---------------------------------------------------------------------------
\* The owner, an operator of the owner, or the address approved for the token: the condition
\* of iTransfer, of _checkApprovedOrOwner and of ERC-721's transferFrom.
ApprovedOrOwner(caller, t) ==
  /\ owner[t] # NoAccount
  /\ \/ caller = owner[t]
     \/ <<owner[t], caller>> \in approvedForAll
     \/ approved[t] = caller

IsAuthorized(t, user) ==
  /\ grantedAtVersion[t][user] = usageVersion[t]
  /\ grantExpiresAt[t][user] > now

NFTInit ==
  /\ nextId = 0
  /\ owner = [t \in Token |-> NoAccount]
  /\ approved = [t \in Token |-> NoAccount]
  /\ approvedForAll = {}
  /\ usageVersion = [t \in Token |-> 0]
  /\ grantedAtVersion = [t \in Token |-> [u \in Renter |-> 0]]
  /\ grantExpiresAt = [t \in Token |-> [u \in Renter |-> 0]]
  /\ now = 0
  /\ grantedSince = [t \in Token |-> {}]

\* mint: to anyone who can receive it (_safeMint refuses a contract that is no receiver).
Mint(to) ==
  /\ nextId < MaxToken
  /\ nextId' = nextId + 1
  /\ owner' = [owner EXCEPT ![nextId'] = to]
  /\ UNCHANGED <<approved, approvedForAll, grantVars, now>>

\* A plausible slip: ownership moves and the approval stays.
UpdateKeepingApproval(t, to) ==
  /\ owner' = [owner EXCEPT ![t] = to]
  /\ UNCHANGED approved

\* ERC-721 _update of a minted token: every transfer clears the token's approval.
Update(t, to) ==
  /\ owner' = [owner EXCEPT ![t] = to]
  /\ approved' = [approved EXCEPT ![t] = NoAccount]

\* A plausible slip: iTransfer without the version bump.
ITransferKeepingGrants(caller, t, to) ==
  /\ ApprovedOrOwner(caller, t)
  /\ grantedSince' = [grantedSince EXCEPT ![t] = {}]
  /\ Update(t, to)
  /\ UNCHANGED <<nextId, approvedForAll, usageVersion, grantedAtVersion, grantExpiresAt, now>>

\* iTransfer: the version bump ends all grants; _update without a receiver check even lets
\* the token go to address(0).
ITransfer(caller, t, to) ==
  /\ ApprovedOrOwner(caller, t)
  /\ usageVersion[t] < MaxVersion
  /\ usageVersion' = [usageVersion EXCEPT ![t] = @ + 1]
  /\ grantedSince' = [grantedSince EXCEPT ![t] = {}]
  /\ Update(t, to)
  /\ UNCHANGED <<nextId, approvedForAll, grantedAtVersion, grantExpiresAt, now>>

\* ERC-721 transferFrom and safeTransferFrom, which the contract inherits as they are.
TransferFrom(caller, t, to) ==
  /\ ApprovedOrOwner(caller, t)
  /\ to # NoAccount
  /\ Update(t, to)
  /\ UNCHANGED <<nextId, approvedForAll, grantVars, now>>

\* ERC-721 approve: by the owner or one of its operators, NoAccount to clear it.
Approve(caller, t, to) ==
  /\ owner[t] # NoAccount
  /\ caller = owner[t] \/ <<owner[t], caller>> \in approvedForAll
  /\ approved' = [approved EXCEPT ![t] = to]
  /\ UNCHANGED <<nextId, owner, approvedForAll, grantVars, now>>

\* ERC-721 setApprovalForAll.
SetApprovalForAll(caller, operator, on) ==
  /\ approvedForAll' = IF on THEN approvedForAll \cup {<<caller, operator>>}
                             ELSE approvedForAll \ {<<caller, operator>>}
  /\ UNCHANGED <<nextId, owner, approved, grantVars, now>>

\* authorizeUsage: the grant is stamped with the current version.
AuthorizeUsage(caller, t, user, expiresAt) ==
  /\ ApprovedOrOwner(caller, t)
  /\ grantedAtVersion' = [grantedAtVersion EXCEPT ![t][user] = usageVersion[t]]
  /\ grantExpiresAt' = [grantExpiresAt EXCEPT ![t][user] = expiresAt]
  /\ grantedSince' = [grantedSince EXCEPT ![t] = @ \cup {user}]
  /\ UNCHANGED <<nextId, owner, approved, approvedForAll, usageVersion, now>>

\* revokeUsage deletes both entries: version 0, which a fresh token is at, and expiry 0.
RevokeUsage(caller, t, user) ==
  /\ ApprovedOrOwner(caller, t)
  /\ grantedAtVersion' = [grantedAtVersion EXCEPT ![t][user] = 0]
  /\ grantExpiresAt' = [grantExpiresAt EXCEPT ![t][user] = 0]
  /\ UNCHANGED <<nextId, owner, approved, approvedForAll, usageVersion, now, grantedSince>>

\* block.timestamp advances.
Tick ==
  /\ now < MaxTime
  /\ now' = now + 1
  /\ UNCHANGED <<nextId, owner, approved, approvedForAll, grantVars>>

NFTNext ==
  \/ \E to \in Person \cup {Locker} : Mint(to)
  \/ \E caller \in Person, t \in Token :
       \/ \E to \in Account \cup {NoAccount} : ITransfer(caller, t, to)
       \/ \E to \in Account : TransferFrom(caller, t, to)
       \/ \E to \in Approvable \cup {NoAccount} : Approve(caller, t, to)
       \/ \E u \in Renter, e \in 0 .. MaxTime + 1 : AuthorizeUsage(caller, t, u, e)
       \/ \E u \in Renter : RevokeUsage(caller, t, u)
  \/ \E caller \in Person, operator \in Operator, on \in BOOLEAN :
       SetApprovalForAll(caller, operator, on)
  \/ Tick

---------------------------------------------------------------------------
(* A live grant was issued since the token's last iTransfer: an acquisition ends every grant *)
(* of the seller, whatever was granted, revoked and re-granted before (the version counter). *)
GrantsEndWithAcquisition ==
  \A t \in Token, u \in Renter : IsAuthorized(t, u) => u \in grantedSince[t]
===========================================================================
