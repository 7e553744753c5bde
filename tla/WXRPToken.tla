------------------------------ MODULE WXRPToken ------------------------------
(***************************************************************************)
(* One WXRPToken behind its proxy, initialized, called by any account in   *)
(* any order.  A transaction is atomic; one that reverts changes nothing.  *)
(***************************************************************************)
EXTENDS WXRP, Functions

CONSTANTS
    InitialAdmin,               \* _admin of initialize
    Grantees                    \* accounts to try in grantRole

ASSUME WXRPTokenAssumption ==
    /\ InitialAdmin \in Accounts
    /\ Grantees \subseteq Addresses

VARIABLE token

Init == token = initialize(InitialAdmin)

Mint(sender, to, amount) ==
    can_mint(token, sender, to, amount) /\ token' = mint(token, to, amount)

Burn(sender, from, amount) ==
    can_burn(token, sender, from, amount) /\ token' = burn(token, from, amount)

Transfer(sender, to, amount) ==
    /\ can_transfer(token, sender, to, amount)
    /\ token' = transfer(token, sender, to, amount)

TransferFrom(sender, from, to, amount) ==
    /\ can_transferFrom(token, sender, from, to, amount)
    /\ token' = transferFrom(token, sender, from, to, amount)

Approve(sender, spender, amount) ==
    token' = approve(token, sender, spender, amount)

AddToBlacklist(sender, address) ==
    /\ can_addToBlacklist(token, sender, address)
    /\ token' = [token EXCEPT !.isBlacklisted[address] = TRUE]

RemoveFromBlacklist(sender, address) ==
    /\ can_removeFromBlacklist(token, sender, address)
    /\ token' = [token EXCEPT !.isBlacklisted[address] = FALSE]

Pause(sender) == can_pause(token, sender) /\ token' = [token EXCEPT !.paused = TRUE]
Unpause(sender) == can_unpause(token, sender) /\ token' = [token EXCEPT !.paused = FALSE]

GrantRole(sender, role, account) ==
    /\ can_administer(token, sender, role)
    /\ token' = [token EXCEPT !.roles[role] = @ \cup {account}]

RevokeRole(sender, role, account) ==
    /\ can_administer(token, sender, role)
    /\ token' = [token EXCEPT !.roles[role] = @ \ {account}]

RenounceRole(sender, role) ==
    token' = [token EXCEPT !.roles[role] = @ \ {sender}]

MoveFunds(sender) ==
    \E amount \in Amounts :
       \/ \E to \in Addresses :
             \/ Mint(sender, to, amount)
             \/ Transfer(sender, to, amount)
             \/ \E from \in Accounts : TransferFrom(sender, from, to, amount)
       \/ \E from \in Accounts : Burn(sender, from, amount)
       \/ \E spender \in Accounts : Approve(sender, spender, amount)

Control(sender) ==
    \/ \E address \in Addresses :
          AddToBlacklist(sender, address) \/ RemoveFromBlacklist(sender, address)
    \/ Pause(sender) \/ Unpause(sender)
    \/ \E role \in Roles : RenounceRole(sender, role)
    \/ \E role \in Roles, account \in Grantees :
          GrantRole(sender, role, account) \/ RevokeRole(sender, role, account)

Next == \E sender \in Accounts : MoveFunds(sender) \/ Control(sender)

Spec == Init /\ [][Next]_token

-----------------------------------------------------------------------------
TypeOK == token \in Storage

(* The supply is the sum of the balances: minting, burning and moving, in  *)
(* any order, oneself included, never let an unchecked addition or         *)
(* subtraction of a balance or of the supply wrap around.                  *)
SupplyIsSum == token.totalSupply = SumFunction(token.balances)

(* "Funds cannot be debited in that state": nothing leaves an account that *)
(* is blacklisted, or any account during a pause, whoever calls, whatever  *)
(* allowances and roles were given out before; and all that can arrive     *)
(* there is newly minted.                                                  *)
FrozenFundsStay ==
    [][\A a \in Accounts :
          (token.isBlacklisted[a] \/ token.paused) =>
              /\ token'.balances[a] >= token.balances[a]
              /\ token'.balances[a] > token.balances[a] =>
                    token'.totalSupply - token.totalSupply
                        = token'.balances[a] - token.balances[a]]_token

Vacant(t, role) == t.roles[role] = {}

(* Without an administrator the powers over the supply are sealed: with    *)
(* the last minter gone too it can never grow, with the last burner gone   *)
(* never shrink, and no sequence of calls brings either back.              *)
SealedSupply ==
    [][Vacant(token, "DEFAULT_ADMIN_ROLE") =>
          /\ Vacant(token', "DEFAULT_ADMIN_ROLE")
          /\ Vacant(token, "MINTER_ROLE") =>
                /\ Vacant(token', "MINTER_ROLE")
                /\ token'.totalSupply <= token.totalSupply
          /\ Vacant(token, "BURNER_ROLE") =>
                /\ Vacant(token', "BURNER_ROLE")
                /\ token'.totalSupply >= token.totalSupply]_token

=============================================================================
