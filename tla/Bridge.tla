------------------------------- MODULE Bridge -------------------------------
(***************************************************************************)
(* WXRP on several EVM chains: on each a WXRPToken (WXRP) and a            *)
(* WXRPMintBurnOFTAdapter with the roles grantRoles gives it, and between  *)
(* them the packets on their way.                                          *)
(*                                                                         *)
(* The adapter adds nothing but a constructor to LayerZero's               *)
(* MintBurnOFTAdapter, which is external and modelled from how it calls    *)
(* WXRPToken: a send burns from its caller without an approval, a delivery *)
(* mints; both have the token's 6 decimals, so the conversion rate is 1    *)
(* and only the u64 of the wire narrows an amount.  Packets are delivered  *)
(* in any order, each at most once; a delivery that reverts leaves the     *)
(* packet, and anyone may try it again.                                    *)
(***************************************************************************)
EXTENDS WXRP, Bags, Functions

CONSTANTS
    Chains,
    Adapter,            \* the adapter's address, on every chain
    DeadAddress,        \* 0x...dead
    Admin,              \* the roles of the token, the owner of the adapter
    U64Max,             \* the largest amount on the wire
    Recipients, Suspects,  \* to try: recipients, accounts to freeze
    MaxIssued,          \* bound on what is ever issued
    MaxSent             \* bound on the number of transfers

ASSUME BridgeAssumption ==
    /\ IsFiniteSet(Chains)
    /\ {Adapter, DeadAddress, Admin} \subseteq Accounts /\ Adapter # Admin
    /\ U64Max \in Uint256
    /\ Recipients \subseteq Addresses /\ Suspects \subseteq Accounts
    /\ MaxIssued \in Nat /\ MaxSent \in Nat

VARIABLES
    tokens,             \* the token's storage on each chain
    peers,              \* peers[c][d]: does c know d's adapter as its peer?
    packets,            \* the bag of packets under way
    sent, issued        \* history: transfers ever sent; issued less redeemed

vars == <<tokens, peers, packets, sent, issued>>

Packet == {p \in [src: Chains, dst: Chains, to: Recipients, amount: Amounts] :
             p.src # p.dst /\ p.amount <= U64Max}

(* Deployed, the admin holding every role and the adapters none yet.       *)
BridgeInit ==
    /\ tokens = [c \in Chains |-> [initialize(Admin) EXCEPT
                                     !.roles = [r \in Roles |-> {Admin}]]]
    /\ peers = [c \in Chains |-> [d \in Chains |-> FALSE]]
    /\ packets = EmptyBag
    /\ sent = 0 /\ issued = 0

-----------------------------------------------------------------------------
(* The adapters.                                                           *)

(* OFTCore.send: burn from the caller, then hand the packet to the         *)
(* endpoint, which needs a peer.                                           *)
Send(c, d, sender, to, amount) ==
    /\ c # d
    /\ can_burn(tokens[c], Adapter, sender, amount)
    /\ amount <= U64Max
    /\ peers[c][d]
    /\ sent < MaxSent
    /\ tokens' = [tokens EXCEPT ![c] = burn(@, sender, amount)]
    /\ packets' = packets (+) SetToBag({[src |-> c, dst |-> d, to |-> to, amount |-> amount]})
    /\ sent' = sent + 1
    /\ UNCHANGED <<peers, issued>>

(* Mutant: address(0) is credited as it stands.                            *)
recipient_itself(to) == to

(* _credit: the token does not mint to address(0).                         *)
recipient(to) == IF to = ZeroAddress THEN DeadAddress ELSE to

(* Mutant: the packet is not cleared.                                      *)
ReceiveAgain(p) ==
    /\ BagIn(p, packets)
    /\ peers[p.dst][p.src]
    /\ can_mint(tokens[p.dst], Adapter, recipient(p.to), p.amount)
    /\ tokens' = [tokens EXCEPT ![p.dst] = mint(@, recipient(p.to), p.amount)]
    /\ UNCHANGED <<peers, packets, sent, issued>>

(* Mutant: what is owed to a blacklisted account is put aside.             *)
ReceiveAside(p) ==
    LET to == IF tokens[p.dst].isBlacklisted[p.to] THEN DeadAddress ELSE recipient(p.to)
    IN  /\ BagIn(p, packets)
        /\ peers[p.dst][p.src]
        /\ can_mint(tokens[p.dst], Adapter, to, p.amount)
        /\ tokens' = [tokens EXCEPT ![p.dst] = mint(@, to, p.amount)]
        /\ packets' = packets (-) SetToBag({p})
        /\ UNCHANGED <<peers, sent, issued>>

(* lzReceive of a verified packet of the peer.                             *)
Receive(p) ==
    /\ BagIn(p, packets)
    /\ peers[p.dst][p.src]
    /\ can_mint(tokens[p.dst], Adapter, recipient(p.to), p.amount)
    /\ tokens' = [tokens EXCEPT ![p.dst] = mint(@, recipient(p.to), p.amount)]
    /\ packets' = packets (-) SetToBag({p})
    /\ UNCHANGED <<peers, sent, issued>>

SetPeer(c, d) ==
    /\ c # d
    /\ peers' = [peers EXCEPT ![c][d] = ~@]
    /\ UNCHANGED <<tokens, packets, sent, issued>>

-----------------------------------------------------------------------------
(* The tokens: the admin issues, redeems, freezes and hands out roles, and *)
(* holders pay each other.                                                 *)

Issue(c, to, amount) ==
    /\ can_mint(tokens[c], Admin, to, amount)
    /\ issued + amount <= MaxIssued
    /\ tokens' = [tokens EXCEPT ![c] = mint(@, to, amount)]
    /\ issued' = issued + amount
    /\ UNCHANGED <<peers, packets, sent>>

Redeem(c, from, amount) ==
    /\ can_burn(tokens[c], Admin, from, amount)
    /\ tokens' = [tokens EXCEPT ![c] = burn(@, from, amount)]
    /\ issued' = issued - amount
    /\ UNCHANGED <<peers, packets, sent>>

Pay(c, from, to, amount) ==
    /\ can_transfer(tokens[c], from, to, amount)
    /\ tokens' = [tokens EXCEPT ![c] = transfer(@, from, to, amount)]
    /\ UNCHANGED <<peers, packets, sent, issued>>

(* A pause, a blacklisting or their end.                                   *)
Freeze(c) ==
    LET t == tokens[c]
    IN  /\ \/ /\ can_pause(t, Admin) \/ can_unpause(t, Admin)
              /\ tokens' = [tokens EXCEPT ![c].paused = ~@]
           \/ \E a \in Suspects :
                 /\ can_addToBlacklist(t, Admin, a) \/ can_removeFromBlacklist(t, Admin, a)
                 /\ tokens' = [tokens EXCEPT ![c].isBlacklisted[a] = ~@]
        /\ UNCHANGED <<peers, packets, sent, issued>>

(* grantRole and revokeRole, for the adapter's two roles.                  *)
SetRoles(c) ==
    /\ \E role \in {"MINTER_ROLE", "BURNER_ROLE"} :
          /\ can_administer(tokens[c], Admin, role)
          /\ \E holders \in {{Admin}, {Admin, Adapter}} :
                tokens' = [tokens EXCEPT ![c].roles[role] = holders]
    /\ UNCHANGED <<peers, packets, sent, issued>>

-----------------------------------------------------------------------------
Cross == \/ \E c, d \in Chains, sender \in Accounts, to \in Recipients, amount \in Amounts :
               Send(c, d, sender, to, amount)
         \/ \E p \in BagToSet(packets) : Receive(p)

Holders == \E c \in Chains, a \in Accounts, amount \in Amounts :
              \/ Issue(c, a, amount)
              \/ Redeem(c, a, amount)
              \/ \E to \in Accounts : Pay(c, a, to, amount)

Administer == \/ \E c, d \in Chains : SetPeer(c, d)
              \/ \E c \in Chains : Freeze(c) \/ SetRoles(c)

BridgeNext == Cross \/ Holders \/ Administer

(* Deliveries are open to everyone, so someone tries each again and again. *)
Fairness == \A p \in Packet : WF_vars(Receive(p))

BridgeSpec == BridgeInit /\ [][BridgeNext]_vars
FairBridgeSpec == BridgeSpec /\ Fairness

-----------------------------------------------------------------------------
UnderWay == SumFunction([p \in BagToSet(packets) |-> packets[p] * p.amount])

(* Across all chains and the packets between them there is exactly what    *)
(* was issued: no order of sends, deliveries, failed deliveries, pauses,   *)
(* blacklistings and role changes makes or loses a token.                  *)
Conserved ==
    SumFunction([c \in Chains |-> tokens[c].totalSupply]) + UnderWay = issued

(* A delivery is never refused for the supply it would make: while what    *)
(* was issued fits the word, so does every supply with any packet that is  *)
(* still to come, and the recipient is never address(0).                   *)
AlwaysMintable ==
    issued \in Uint256 =>
        \A p \in BagToSet(packets) :
            hasRole(tokens[p.dst], "MINTER_ROLE", Adapter)
                => can_mint(tokens[p.dst], Adapter, recipient(p.to), p.amount)

(* What a packet will credit, and the packets that credit the same.        *)
arriving(p) == [p EXCEPT !.to = recipient(@)]
arrivingAs(t) == {p \in BagToSet(packets) : arriving(p) = t}

Balances == [c \in Chains |-> tokens[c].balances]
Flight == [t \in {arriving(p) : p \in BagToSet(packets)} |->
             SumFunctionOnSet(packets, arrivingAs(t))]

(* Every transfer leaves its sender once and arrives once, with its amount,*)
(* at the recipient it names (0x...dead for address(0)).                   *)
Transfers == INSTANCE Ledger
    WITH Holders <- Accounts, balance <- Balances, flight <- Flight

ImplementsLedger == Transfers!Spec

(* The adapter can mint the packet, and the rest of what is on its way.    *)
Receivable(p) ==
    /\ peers[p.dst][p.src]
    /\ hasRole(tokens[p.dst], "MINTER_ROLE", Adapter)
    /\ tokens[p.dst].totalSupply + UnderWay \in Uint256

(* What was burnt is minted: once the owner and the admin leave the peer   *)
(* and the role in place every packet arrives, whatever is paused and      *)
(* whoever is blacklisted, for ever if need be, on either side.            *)
Arrives ==
    \A p \in Packet :
        <>[]Receivable(p) => (BagIn(p, packets) ~> ~BagIn(p, packets))

=============================================================================
