-------------------------------- MODULE WXRP --------------------------------
(***************************************************************************)
(* The WXRPToken contract (contracts/WXRPToken.sol) as operators on its    *)
(* storage, so that one token and a token on each of several chains are    *)
(* built from the same definitions.  An entry point is a guard (it does    *)
(* not revert) and an effect on the storage.                               *)
(*                                                                         *)
(* External, modelled from their use here: OpenZeppelin's ERC20 (the       *)
(* supply is checked, balances are added and subtracted unchecked, so      *)
(* modulo the word; an allowance of UintMax is never spent down),          *)
(* AccessControl (DEFAULT_ADMIN_ROLE administers every role; a role is     *)
(* renounced only for oneself) and Pausable.                               *)
(***************************************************************************)
EXTENDS Integers, FiniteSets

CONSTANTS
    UintMax,                    \* 2^256 - 1
    Accounts, ZeroAddress,      \* addresses; address(0)
    Amounts                     \* amounts to try

Uint256 == 0 .. UintMax

ASSUME WXRPAssumption ==
    /\ UintMax \in Nat \ {0}
    /\ IsFiniteSet(Accounts)
    /\ ZeroAddress \notin Accounts

ASSUME AmountsAssumption == Amounts \subseteq Uint256

unchecked(n) == n % (UintMax + 1)

Addresses == Accounts \cup {ZeroAddress}

Roles == {"DEFAULT_ADMIN_ROLE", "MINTER_ROLE", "BURNER_ROLE", "PAUSER_ROLE",
          "BLACKLISTER_ROLE"}

Storage == [balances: [Accounts -> Uint256], totalSupply: Uint256,
            allowances: [Accounts -> [Accounts -> Uint256]],
            roles: [Roles -> SUBSET Addresses],
            isBlacklisted: [Addresses -> BOOLEAN],
            paused: BOOLEAN]

(* What initialize(_admin) leaves behind the proxy.                        *)
initialize(admin) ==
    [balances |-> [a \in Accounts |-> 0], totalSupply |-> 0,
     allowances |-> [a \in Accounts |-> [b \in Accounts |-> 0]],
     roles |-> [r \in Roles |-> IF r = "DEFAULT_ADMIN_ROLE" THEN {admin} ELSE {}],
     isBlacklisted |-> [a \in Addresses |-> FALSE],
     paused |-> FALSE]

hasRole(t, role, account) == account \in t.roles[role]

-----------------------------------------------------------------------------
(* Minting and burning.                                                    *)

(* Mutant: the supply is added unchecked too.                              *)
can_mint_unbounded(t, sender, to, amount) ==
    hasRole(t, "MINTER_ROLE", sender) /\ to # ZeroAddress

(* Mutant: the pause stops minting too.                                    *)
can_mint_unpaused(t, sender, to, amount) ==
    /\ hasRole(t, "MINTER_ROLE", sender)
    /\ ~t.paused
    /\ to # ZeroAddress
    /\ t.totalSupply + amount \in Uint256

(* Not stopped by the pause or the recipient's blacklisting.               *)
can_mint(t, sender, to, amount) ==
    /\ hasRole(t, "MINTER_ROLE", sender)
    /\ to # ZeroAddress
    /\ t.totalSupply + amount \in Uint256

mint(t, to, amount) ==
    [t EXCEPT !.totalSupply = @ + amount,
              !.balances[to] = unchecked(@ + amount)]

can_burn(t, sender, from, amount) ==
    /\ hasRole(t, "BURNER_ROLE", sender)
    /\ ~t.isBlacklisted[from]
    /\ ~t.paused
    /\ from # ZeroAddress
    /\ t.balances[from] >= amount

burn(t, from, amount) ==
    [t EXCEPT !.balances[from] = @ - amount,
              !.totalSupply = unchecked(@ - amount)]

-----------------------------------------------------------------------------
(* Transfers.                                                              *)

(* Mutant: both balances are read before either is written.                *)
moved_stale(balances, from, to, amount) ==
    [balances EXCEPT ![from] = @ - amount,
                     ![to] = unchecked(balances[to] + amount)]

(* The sender's balance first, so that a transfer to oneself is none.      *)
moved(balances, from, to, amount) ==
    [balances EXCEPT ![from] = @ - amount, ![to] = unchecked(@ + amount)]

can_transfer(t, sender, to, amount) ==
    /\ ~t.isBlacklisted[sender]
    /\ ~t.isBlacklisted[to]
    /\ ~t.paused
    /\ to # ZeroAddress
    /\ t.balances[sender] >= amount

transfer(t, sender, to, amount) ==
    [t EXCEPT !.balances = moved(@, sender, to, amount)]

(* Mutant: the owner's blacklisting is not looked at.                      *)
can_transferFrom_spender_only(t, sender, from, to, amount) ==
    /\ ~t.isBlacklisted[sender]
    /\ ~t.isBlacklisted[to]
    /\ ~t.paused
    /\ from # ZeroAddress /\ to # ZeroAddress
    /\ t.allowances[from][sender] >= amount
    /\ t.balances[from] >= amount

can_transferFrom(t, sender, from, to, amount) ==
    /\ ~t.isBlacklisted[sender]
    /\ ~t.isBlacklisted[from]
    /\ ~t.isBlacklisted[to]
    /\ ~t.paused
    /\ from # ZeroAddress /\ to # ZeroAddress
    /\ t.allowances[from][sender] >= amount
    /\ t.balances[from] >= amount

transferFrom(t, sender, from, to, amount) ==
    [t EXCEPT !.allowances[from][sender] = IF @ = UintMax THEN @ ELSE @ - amount,
              !.balances = moved(@, from, to, amount)]

(* Not overridden: neither the pause nor the blacklist stops an approval.  *)
approve(t, owner, spender, amount) ==
    [t EXCEPT !.allowances[owner][spender] = amount]

-----------------------------------------------------------------------------
(* Blacklist, pause and roles.                                             *)

can_addToBlacklist(t, sender, address) ==
    hasRole(t, "BLACKLISTER_ROLE", sender) /\ ~t.isBlacklisted[address]

can_removeFromBlacklist(t, sender, address) ==
    hasRole(t, "BLACKLISTER_ROLE", sender) /\ t.isBlacklisted[address]

can_pause(t, sender) == hasRole(t, "PAUSER_ROLE", sender) /\ ~t.paused
can_unpause(t, sender) == hasRole(t, "PAUSER_ROLE", sender) /\ t.paused

(* Mutant: the pausers are made administrators of the other roles.         *)
can_administer_pauser(t, sender, role) ==
    \/ hasRole(t, "DEFAULT_ADMIN_ROLE", sender)
    \/ hasRole(t, "PAUSER_ROLE", sender)

(* getRoleAdmin(role) is DEFAULT_ADMIN_ROLE for every role.                *)
can_administer(t, sender, role) == hasRole(t, "DEFAULT_ADMIN_ROLE", sender)

=============================================================================
