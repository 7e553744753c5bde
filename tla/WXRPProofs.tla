----------------------------- MODULE WXRPProofs -----------------------------
(***************************************************************************)
(* Theorems of one token and of the tokens of several chains.  Both rest   *)
(* on the same lemmas: an entry point that does not revert keeps a storage *)
(* sound, because no balance exceeds the supply, and so no unchecked       *)
(* arithmetic wraps around.                                                *)
(***************************************************************************)
EXTENDS WXRPToken, Bridge, InductionProofs

Sound(t) == t \in Storage /\ t.totalSupply = SumFunction(t.balances)

(* A number that fits the word is not wrapped.                             *)
LEMMA NoWrap == ASSUME NEW n \in Uint256 PROVE unchecked(n) = n
BY WXRPAssumption, Z3 DEF Uint256, unchecked

(* The effects without the wrap-around.                                    *)
minted(t, to, amount) ==
    [t EXCEPT !.totalSupply = @ + amount, !.balances[to] = @ + amount]
burnt(t, from, amount) ==
    [t EXCEPT !.balances[from] = @ - amount, !.totalSupply = @ - amount]
paid(balances, from, to, amount) ==
    [balances EXCEPT ![from] = @ - amount, ![to] = @ + amount]

(* The storage's fields, and that the balances are added up over Accounts. *)
LEMMA SoundFields ==
    ASSUME NEW t, Sound(t)
    PROVE  /\ t.balances \in [Accounts -> Uint256] /\ t.totalSupply \in Uint256
           /\ t.totalSupply = SumFunctionOnSet(t.balances, Accounts)
           /\ \A a \in Accounts : t.balances[a] <= t.totalSupply
           /\ \A a, b \in Accounts :
                a # b => t.balances[a] + t.balances[b] <= t.totalSupply
<1>1. t.balances \in [Accounts -> Uint256] /\ t.totalSupply \in Uint256
  BY DEF Sound, Storage
<1>2. t.totalSupply = SumFunctionOnSet(t.balances, Accounts)
  BY <1>1 DEF Sound, SumFunction
<1>3. IsFiniteSet(Accounts) /\ \A a \in Accounts : t.balances[a] \in Nat
  BY <1>1, WXRPAssumption DEF Uint256
<1>4. \A a \in Accounts : t.balances[a] <= t.totalSupply
  BY <1>2, <1>3, SumAtLeast
<1>5. \A a, b \in Accounts :
        a # b => t.balances[a] + t.balances[b] <= t.totalSupply
  BY <1>2, <1>3, SumAtLeastTwo
<1> QED
  BY <1>1, <1>2, <1>4, <1>5

(* One balance changes, and the sum by as much.                            *)
LEMMA BalanceChange ==
    ASSUME NEW balances \in [Accounts -> Uint256],
           NEW changed \in [Accounts -> Uint256], NEW a \in Accounts,
           \A b \in Accounts \ {a} : changed[b] = balances[b]
    PROVE  SumFunctionOnSet(changed, Accounts)
             = SumFunctionOnSet(balances, Accounts) - balances[a] + changed[a]
<1>1. \A b \in Accounts : balances[b] \in Int /\ changed[b] \in Int
  BY WXRPAssumption DEF Uint256
<1> QED
  BY <1>1, WXRPAssumption, SumChange

(* _mint credits one balance and the supply alike.                         *)
LEMMA MintSound ==
    ASSUME NEW t, Sound(t), NEW sender, NEW to \in Addresses,
           NEW amount \in Amounts, can_mint(t, sender, to, amount)
    PROVE  /\ Sound(mint(t, to, amount))
           /\ to \in Accounts
           /\ mint(t, to, amount) = minted(t, to, amount)
<1> DEFINE total == t.totalSupply + amount
           credit == t.balances[to] + amount
           balances == [t.balances EXCEPT ![to] = credit]
<1>1. to \in Accounts /\ total \in Uint256
  BY DEF can_mint, Addresses
<1>2. credit \in Uint256
  BY <1>1, SoundFields, WXRPAssumption, AmountsAssumption DEF Uint256
<1>3. mint(t, to, amount) = [t EXCEPT !.totalSupply = total, !.balances = balances]
  BY <1>1, <1>2, NoWrap DEF mint, Sound, Storage
<1>4. /\ balances \in [Accounts -> Uint256]
      /\ SumFunctionOnSet(balances, Accounts)
           = SumFunctionOnSet(t.balances, Accounts) - t.balances[to] + credit
  <2>1. /\ balances \in [Accounts -> Uint256]
        /\ balances[to] = credit
        /\ \A b \in Accounts \ {to} : balances[b] = t.balances[b]
    BY <1>1, <1>2, SoundFields
  <2> HIDE DEF balances, credit
  <2> QED
    BY <1>1, <2>1, SoundFields, BalanceChange
<1>5. SumFunction(balances) = total
  <2>1. SumFunction(balances) = SumFunctionOnSet(balances, Accounts)
    BY <1>4 DEF SumFunction
  <2> QED
    BY <1>1, <1>4, <2>1, SoundFields, WXRPAssumption, AmountsAssumption DEF Uint256
<1>6. mint(t, to, amount) \in Storage
  <2> HIDE DEF balances, total
  <2> QED
    BY <1>1, <1>3, <1>4 DEF Sound, Storage
<1>7. /\ mint(t, to, amount).totalSupply = total
      /\ mint(t, to, amount).balances = balances
  <2> HIDE DEF balances, total
  <2> QED
    BY <1>3 DEF Sound, Storage
<1> QED
  BY <1>1, <1>3, <1>5, <1>6, <1>7 DEF Sound, Storage, minted

(* _burn debits one balance and the supply alike.                          *)
LEMMA BurnSound ==
    ASSUME NEW t, Sound(t), NEW sender, NEW from \in Accounts,
           NEW amount \in Amounts, can_burn(t, sender, from, amount)
    PROVE  /\ Sound(burn(t, from, amount))
           /\ burn(t, from, amount) = burnt(t, from, amount)
<1> DEFINE total == t.totalSupply - amount
           debit == t.balances[from] - amount
           balances == [t.balances EXCEPT ![from] = debit]
<1>1. amount <= t.balances[from] /\ t.balances[from] <= t.totalSupply
  BY SoundFields, WXRPAssumption, AmountsAssumption DEF can_burn, Uint256
<1>2. total \in Uint256 /\ debit \in Uint256
  BY <1>1, SoundFields, WXRPAssumption, AmountsAssumption DEF Uint256
<1>3. burn(t, from, amount) = [t EXCEPT !.balances = balances, !.totalSupply = total]
  BY <1>2, NoWrap DEF burn, Sound, Storage
<1>4. /\ balances \in [Accounts -> Uint256]
      /\ SumFunctionOnSet(balances, Accounts)
           = SumFunctionOnSet(t.balances, Accounts) - t.balances[from] + debit
  <2>1. /\ balances \in [Accounts -> Uint256]
        /\ balances[from] = debit
        /\ \A b \in Accounts \ {from} : balances[b] = t.balances[b]
    BY <1>2, SoundFields
  <2> HIDE DEF balances, debit
  <2> QED
    BY <2>1, SoundFields, BalanceChange
<1>5. SumFunction(balances) = total
  <2>1. SumFunction(balances) = SumFunctionOnSet(balances, Accounts)
    BY <1>4 DEF SumFunction
  <2> QED
    BY <1>4, <2>1, SoundFields, WXRPAssumption, AmountsAssumption DEF Uint256
<1>6. burn(t, from, amount) \in Storage
  <2> HIDE DEF balances, total
  <2> QED
    BY <1>2, <1>3, <1>4 DEF Sound, Storage
<1>7. /\ burn(t, from, amount).totalSupply = total
      /\ burn(t, from, amount).balances = balances
  <2> HIDE DEF balances, total
  <2> QED
    BY <1>3 DEF Sound, Storage
<1> QED
  BY <1>3, <1>5, <1>6, <1>7 DEF Sound, Storage, burnt

(* To oneself too: the sender's balance is written before the recipient's  *)
(* is read.                                                                *)
LEMMA MovedSound ==
    ASSUME NEW t, Sound(t), NEW from \in Accounts, NEW to \in Accounts,
           NEW amount \in Amounts, t.balances[from] >= amount
    PROVE  /\ moved(t.balances, from, to, amount) \in [Accounts -> Uint256]
           /\ SumFunction(moved(t.balances, from, to, amount)) = t.totalSupply
           /\ moved(t.balances, from, to, amount)
                = paid(t.balances, from, to, amount)
<1> DEFINE debit == t.balances[from] - amount
           after == [t.balances EXCEPT ![from] = debit]
           credit == after[to] + amount
           balances == [after EXCEPT ![to] = credit]
<1>1. debit \in Uint256
  BY SoundFields, WXRPAssumption, AmountsAssumption DEF Uint256
<1>2. /\ after \in [Accounts -> Uint256]
      /\ SumFunctionOnSet(after, Accounts)
           = SumFunctionOnSet(t.balances, Accounts) - t.balances[from] + debit
  <2>1. /\ after \in [Accounts -> Uint256]
        /\ after[from] = debit
        /\ \A b \in Accounts \ {from} : after[b] = t.balances[b]
    BY <1>1, SoundFields
  <2> HIDE DEF after, debit
  <2> QED
    BY <2>1, SoundFields, BalanceChange
<1>3. credit \in Uint256
  <2>1. CASE from = to
    BY <2>1, SoundFields, WXRPAssumption, AmountsAssumption DEF Uint256
  <2>2. CASE from # to
    <3>1. t.balances[from] + t.balances[to] <= t.totalSupply
      BY <2>2, SoundFields
    <3> QED
      BY <2>2, <3>1, SoundFields, WXRPAssumption, AmountsAssumption DEF Uint256
  <2> QED
    BY <2>1, <2>2
<1>4. /\ balances \in [Accounts -> Uint256]
      /\ SumFunctionOnSet(balances, Accounts)
           = SumFunctionOnSet(after, Accounts) - after[to] + credit
  <2>1. /\ after \in [Accounts -> Uint256]
        /\ balances \in [Accounts -> Uint256]
        /\ balances[to] = credit
        /\ \A b \in Accounts \ {to} : balances[b] = after[b]
    <3> HIDE DEF after, credit
    <3> QED
      BY <1>2, <1>3
  <2> HIDE DEF after, credit, balances
  <2> QED
    BY <2>1, BalanceChange
<1>5. moved(t.balances, from, to, amount) = balances
  BY <1>2, <1>3, SoundFields, NoWrap DEF moved
<1>6. SumFunction(balances) = t.totalSupply
  <2>1. SumFunction(balances) = SumFunctionOnSet(balances, Accounts)
    BY <1>4 DEF SumFunction
  <2>2. /\ after[to] \in Int /\ t.balances[from] \in Int
        /\ t.totalSupply \in Int /\ amount \in Int
    <3>1. after[to] \in Uint256
      <4> HIDE DEF after
      <4> QED
        BY <1>2
    <3>2. Uint256 \subseteq Int
      BY WXRPAssumption DEF Uint256
    <3>3. t.balances[from] \in Int /\ t.totalSupply \in Int
      BY <3>2, SoundFields
    <3>4. amount \in Int
      BY <3>2, AmountsAssumption
    <3> HIDE DEF after
    <3>5. after[to] \in Int
      BY <3>1, <3>2
    <3> QED
      BY <3>3, <3>4, <3>5
  <2>3. SumFunctionOnSet(after, Accounts) = t.totalSupply - amount
    BY <1>2, <2>2, SoundFields
  <2>4. SumFunctionOnSet(balances, Accounts)
          = SumFunctionOnSet(after, Accounts) + amount
    <3> HIDE DEF after, balances
    <3> QED
      BY <1>4, <2>2, <2>3
  <2> QED
    BY <2>1, <2>2, <2>3, <2>4
<1> QED
  BY <1>4, <1>5, <1>6, SoundFields DEF paid

(* initialize leaves no balance and no supply.                             *)
LEMMA InitializeSound ==
    ASSUME NEW admin \in Accounts, NEW roles \in [Roles -> SUBSET Addresses]
    PROVE  /\ Sound(initialize(admin))
           /\ Sound([initialize(admin) EXCEPT !.roles = roles])
<1> DEFINE none == [a \in Accounts |-> 0]
<1>1. SumFunction(none) = 0
  <2>1. SumFunctionOnSet(none, Accounts) = 0
    BY WXRPAssumption, SumZero
  <2> QED
    BY <2>1 DEF SumFunction
<1>2. 0 \in Uint256
  BY WXRPAssumption DEF Uint256
<1>3. initialize(admin) \in Storage
  BY <1>2 DEF initialize, Storage, Roles, Addresses
<1>4. [initialize(admin) EXCEPT !.roles = roles] \in Storage
  BY <1>2 DEF initialize, Storage, Addresses
<1> QED
  BY <1>1, <1>3, <1>4 DEF initialize, Sound

-----------------------------------------------------------------------------
(* One token.                                                              *)

(* The calls that leave balances and supply alone.                         *)
Quiet(t, u) == u.balances = t.balances /\ u.totalSupply = t.totalSupply

(* A storage with the same balances and supply is as sound.                *)
LEMMA QuietSound ==
    ASSUME NEW t, Sound(t), NEW u \in Storage, Quiet(t, u)
    PROVE  Sound(u)
BY DEF Sound, Quiet

(* Pauses, blacklistings and role changes move nothing.                    *)
LEMMA ControlQuiet ==
    ASSUME Sound(token), NEW sender \in Accounts, Control(sender)
    PROVE  token' \in Storage /\ Quiet(token, token')
<1> USE DEF Sound, Storage, Quiet
<1>1. ASSUME NEW address \in Addresses, AddToBlacklist(sender, address)
      PROVE  token' \in Storage /\ Quiet(token, token')
  BY <1>1 DEF AddToBlacklist
<1>2. ASSUME NEW address \in Addresses, RemoveFromBlacklist(sender, address)
      PROVE  token' \in Storage /\ Quiet(token, token')
  BY <1>2 DEF RemoveFromBlacklist
<1>3. ASSUME Pause(sender) PROVE token' \in Storage /\ Quiet(token, token')
  BY <1>3 DEF Pause
<1>4. ASSUME Unpause(sender) PROVE token' \in Storage /\ Quiet(token, token')
  BY <1>4 DEF Unpause
<1>5. ASSUME NEW role \in Roles, RenounceRole(sender, role)
      PROVE  token' \in Storage /\ Quiet(token, token')
  BY <1>5 DEF RenounceRole
<1>6. ASSUME NEW role \in Roles, NEW account \in Grantees,
             GrantRole(sender, role, account)
      PROVE  token' \in Storage /\ Quiet(token, token')
  BY <1>6, WXRPTokenAssumption DEF GrantRole
<1>7. ASSUME NEW role \in Roles, NEW account \in Grantees,
             RevokeRole(sender, role, account)
      PROVE  token' \in Storage /\ Quiet(token, token')
  BY <1>7 DEF RevokeRole
<1> QED
  BY <1>1, <1>2, <1>3, <1>4, <1>5, <1>6, <1>7 DEF Control

(* An approval moves nothing.                                              *)
LEMMA ApproveQuiet ==
    ASSUME Sound(token), NEW sender \in Accounts, NEW spender \in Accounts,
           NEW amount \in Amounts, Approve(sender, spender, amount)
    PROVE  token' \in Storage /\ Quiet(token, token')
BY AmountsAssumption DEF Approve, approve, Sound, Storage, Quiet

(* A transfer of one's own, or of another's with an allowance.             *)
LEMMA TransfersMove ==
    ASSUME Sound(token), NEW sender \in Accounts, NEW from \in Accounts,
           NEW to \in Addresses, NEW amount \in Amounts,
           \/ from = sender /\ Transfer(sender, to, amount)
           \/ TransferFrom(sender, from, to, amount)
    PROVE  /\ Sound(token')
           /\ to \in Accounts
           /\ token.balances[from] >= amount
           /\ ~token.isBlacklisted[from] /\ ~token.isBlacklisted[to]
           /\ ~token.paused
           /\ token'.totalSupply = token.totalSupply
           /\ token'.roles = token.roles
           /\ token'.balances = paid(token.balances, from, to, amount)
<1> DEFINE balances == moved(token.balances, from, to, amount)
<1>1. /\ to \in Accounts
      /\ token.balances[from] >= amount
      /\ ~token.isBlacklisted[from] /\ ~token.isBlacklisted[to]
      /\ ~token.paused
  BY DEF Transfer, can_transfer, TransferFrom, can_transferFrom, Addresses
<1>2. /\ balances \in [Accounts -> Uint256]
      /\ SumFunction(balances) = token.totalSupply
      /\ balances = paid(token.balances, from, to, amount)
  BY <1>1, MovedSound
<1>3. /\ token' \in Storage
      /\ token'.balances = balances
      /\ token'.totalSupply = token.totalSupply
      /\ token'.roles = token.roles
  <2> HIDE DEF balances
  <2>1. CASE from = sender /\ Transfer(sender, to, amount)
    <3>1. token' = [token EXCEPT !.balances = balances]
      BY <2>1 DEF Transfer, transfer, balances, Sound, Storage
    <3> QED
      BY <3>1, <1>2 DEF Sound, Storage
  <2>2. CASE TransferFrom(sender, from, to, amount)
    <3> DEFINE left == IF token.allowances[from][sender] = UintMax
                       THEN token.allowances[from][sender]
                       ELSE token.allowances[from][sender] - amount
    <3>1. left \in Uint256
      BY <2>2, WXRPAssumption, AmountsAssumption
         DEF TransferFrom, can_transferFrom, Sound, Storage, Uint256
    <3>2. token' = [token EXCEPT !.allowances[from][sender] = left,
                                 !.balances = balances]
      BY <2>2 DEF TransferFrom, transferFrom, balances, Sound, Storage
    <3> HIDE DEF left
    <3> QED
      BY <3>1, <3>2, <1>2 DEF Sound, Storage
  <2> QED
    BY <2>1, <2>2
<1> QED
  BY <1>1, <1>2, <1>3 DEF Sound

(* One step per function of the token.                                     *)
LEMMA TokenStep == Sound(token) /\ [Next]_token => Sound(token')
<1> SUFFICES ASSUME Sound(token), [Next]_token PROVE Sound(token')
  OBVIOUS
<1>1. CASE UNCHANGED token
  BY <1>1
<1>2. ASSUME NEW sender \in Accounts, MoveFunds(sender) PROVE Sound(token')
  <2>1. PICK amount \in Amounts :
           \/ \E to \in Addresses :
                 \/ Mint(sender, to, amount)
                 \/ Transfer(sender, to, amount)
                 \/ \E from \in Accounts : TransferFrom(sender, from, to, amount)
           \/ \E from \in Accounts : Burn(sender, from, amount)
           \/ \E spender \in Accounts : Approve(sender, spender, amount)
    BY <1>2 DEF MoveFunds
  <2>2. ASSUME NEW to \in Addresses, Mint(sender, to, amount) PROVE Sound(token')
    BY <2>2, MintSound DEF Mint
  <2>3. ASSUME NEW to \in Addresses, Transfer(sender, to, amount)
        PROVE  Sound(token')
    BY <2>3, TransfersMove
  <2>4. ASSUME NEW to \in Addresses, NEW from \in Accounts,
               TransferFrom(sender, from, to, amount)
        PROVE  Sound(token')
    BY <2>4, TransfersMove
  <2>5. ASSUME NEW from \in Accounts, Burn(sender, from, amount)
        PROVE  Sound(token')
    BY <2>5, BurnSound DEF Burn
  <2>6. ASSUME NEW spender \in Accounts, Approve(sender, spender, amount)
        PROVE  Sound(token')
    BY <2>6, ApproveQuiet, QuietSound
  <2> QED
    BY <2>1, <2>2, <2>3, <2>4, <2>5, <2>6
<1>3. ASSUME NEW sender \in Accounts, Control(sender) PROVE Sound(token')
  BY <1>3, ControlQuiet, QuietSound
<1> QED
  BY <1>1, <1>2, <1>3 DEF Next

TokenInv == Sound(token)

(* In every reachable storage.                                             *)
LEMMA TokenSound == Spec => []TokenInv
<1>1. Init => TokenInv
  <2>1. [r \in Roles |-> {InitialAdmin}] \in [Roles -> SUBSET Addresses]
    BY WXRPTokenAssumption DEF Addresses
  <2> QED
    BY <2>1, WXRPTokenAssumption, InitializeSound DEF Init, TokenInv
<1>2. TokenInv /\ [Next]_token => TokenInv'
  BY TokenStep DEF TokenInv
<1> QED
  BY <1>1, <1>2, PTL DEF Spec

(* The storage keeps its types: the supply and every balance and allowance *)
(* fit the word.                                                           *)
THEOREM TokenTypes == Spec => []TypeOK
<1>1. TokenInv => TypeOK
  BY DEF TokenInv, Sound, TypeOK
<1> QED
  BY <1>1, TokenSound, PTL

(* The supply is the sum of the balances.                                  *)
THEOREM SupplyAddsUp == Spec => []SupplyIsSum
<1>1. TokenInv => SupplyIsSum
  BY DEF TokenInv, Sound, SupplyIsSum
<1> QED
  BY <1>1, TokenSound, PTL

(* What a frozen account may see in a step.                                *)
Stays(a) ==
    /\ token'.balances[a] >= token.balances[a]
    /\ token'.balances[a] > token.balances[a] =>
          token'.totalSupply - token.totalSupply
              = token'.balances[a] - token.balances[a]

(* A step that moves nothing takes nothing from anybody.                   *)
LEMMA QuietStays ==
    ASSUME Sound(token), Quiet(token, token'), NEW a \in Accounts
    PROVE  Stays(a)
<1>1. token.balances[a] \in Int
  BY SoundFields, WXRPAssumption DEF Uint256
<1> QED
  BY <1>1 DEF Quiet, Stays

(* One step per function: none debits a frozen or paused account.          *)
LEMMA FrozenStep ==
    ASSUME TokenInv, [Next]_token, NEW a \in Accounts,
           token.isBlacklisted[a] \/ token.paused
    PROVE  Stays(a)
<1>0. Sound(token)
  BY DEF TokenInv
<1>1. /\ token.balances \in [Accounts -> Uint256] /\ token.totalSupply \in Int
      /\ \A b \in Accounts : token.balances[b] \in Int
      /\ Amounts \subseteq Nat
  BY <1>0, SoundFields, WXRPAssumption, AmountsAssumption DEF Uint256
<1>2. CASE UNCHANGED token
  BY <1>0, <1>2, QuietStays DEF Quiet
<1>3. ASSUME NEW sender \in Accounts, NEW to \in Addresses, NEW amount \in Amounts,
             Mint(sender, to, amount)
      PROVE  Stays(a)
  <2>1. token' = minted(token, to, amount)
    BY <1>0, <1>3, MintSound DEF Mint
  <2>2. /\ token'.totalSupply = token.totalSupply + amount
        /\ token'.balances[a] = IF a = to THEN token.balances[a] + amount
                                ELSE token.balances[a]
    BY <1>0, <1>1, <2>1 DEF Sound, Storage, minted
  <2> QED
    BY <1>1, <2>2 DEF Stays
<1>4. ASSUME NEW sender \in Accounts, NEW from \in Accounts, NEW amount \in Amounts,
             Burn(sender, from, amount)
      PROVE  Stays(a)
  <2>1. token' = burnt(token, from, amount) /\ from # a
    BY <1>0, <1>4, BurnSound DEF Burn, can_burn
  <2>2. token'.balances[a] = token.balances[a]
    BY <1>0, <1>1, <2>1 DEF Sound, Storage, burnt
  <2> QED
    BY <1>1, <2>2 DEF Stays
<1>5. ASSUME NEW sender \in Accounts, NEW from \in Accounts, NEW to \in Addresses,
             NEW amount \in Amounts,
             \/ from = sender /\ Transfer(sender, to, amount)
             \/ TransferFrom(sender, from, to, amount)
      PROVE  Stays(a)
  <2>1. /\ a # from /\ a # to
        /\ token'.balances = paid(token.balances, from, to, amount)
    BY <1>0, <1>5, TransfersMove
  <2>2. token'.balances[a] = token.balances[a]
    BY <1>1, <2>1 DEF paid
  <2> QED
    BY <1>1, <2>2 DEF Stays
<1>6. ASSUME NEW sender \in Accounts, NEW spender \in Accounts,
             NEW amount \in Amounts, Approve(sender, spender, amount)
      PROVE  Stays(a)
  BY <1>0, <1>6, ApproveQuiet, QuietStays
<1>7. ASSUME NEW sender \in Accounts, Control(sender) PROVE Stays(a)
  BY <1>0, <1>7, ControlQuiet, QuietStays
<1> QED
  BY <1>2, <1>3, <1>4, <1>5, <1>6, <1>7 DEF Next, MoveFunds

(* Nothing leaves a frozen account, and all that arrives is minted.        *)
THEOREM FrozenStays == Spec => FrozenFundsStay
<1>1. TokenInv /\ [Next]_token =>
        [\A a \in Accounts :
           (token.isBlacklisted[a] \/ token.paused) =>
              /\ token'.balances[a] >= token.balances[a]
              /\ token'.balances[a] > token.balances[a] =>
                    token'.totalSupply - token.totalSupply
                        = token'.balances[a] - token.balances[a]]_token
  BY FrozenStep DEF Stays
<1> QED
  BY <1>1, TokenSound, PTL DEF Spec, FrozenFundsStay

-----------------------------------------------------------------------------
(* Roles that nobody holds.                                                *)

(* With no administrator a role only loses holders.                        *)
LEMMA RolesShrink ==
    ASSUME TokenInv, [Next]_token, Vacant(token, "DEFAULT_ADMIN_ROLE"),
           NEW role \in Roles
    PROVE  token'.roles[role] \subseteq token.roles[role]
<1>0. Sound(token) /\ token.roles \in [Roles -> SUBSET Addresses]
  BY DEF TokenInv, Sound, Storage
<1>1. ASSUME NEW sender \in Accounts, NEW to \in Addresses, NEW amount \in Amounts,
             Mint(sender, to, amount)
      PROVE  token'.roles = token.roles
  BY <1>0, <1>1 DEF Mint, mint, Sound, Storage
<1>2. ASSUME NEW sender \in Accounts, NEW from \in Accounts, NEW amount \in Amounts,
             Burn(sender, from, amount)
      PROVE  token'.roles = token.roles
  BY <1>0, <1>2 DEF Burn, burn, Sound, Storage
<1>3. ASSUME NEW sender \in Accounts, NEW from \in Accounts, NEW to \in Addresses,
             NEW amount \in Amounts,
             \/ from = sender /\ Transfer(sender, to, amount)
             \/ TransferFrom(sender, from, to, amount)
      PROVE  token'.roles = token.roles
  BY <1>0, <1>3, TransfersMove
<1>4. ASSUME NEW sender \in Accounts, NEW spender \in Accounts,
             NEW amount \in Amounts, Approve(sender, spender, amount)
      PROVE  token'.roles = token.roles
  BY <1>0, <1>4 DEF Approve, approve, Sound, Storage
<1>5. ASSUME NEW sender \in Accounts, Control(sender)
      PROVE  token'.roles[role] \subseteq token.roles[role]
  <2>1. \A r \in Roles, account \in Grantees : ~GrantRole(sender, r, account)
    BY DEF GrantRole, can_administer, hasRole, Vacant
  <2>2. \A r \in Roles, account \in Grantees :
           RevokeRole(sender, r, account) =>
              token'.roles[role] \subseteq token.roles[role]
    BY <1>0 DEF RevokeRole, Sound, Storage
  <2>3. \A r \in Roles : RenounceRole(sender, r) =>
              token'.roles[role] \subseteq token.roles[role]
    BY <1>0 DEF RenounceRole, Sound, Storage
  <2>4. \A address \in Addresses :
           AddToBlacklist(sender, address) \/ RemoveFromBlacklist(sender, address) =>
              token'.roles = token.roles
    BY <1>0 DEF AddToBlacklist, RemoveFromBlacklist, Sound, Storage
  <2>5. Pause(sender) \/ Unpause(sender) => token'.roles = token.roles
    BY <1>0 DEF Pause, Unpause, Sound, Storage
  <2> QED
    BY <1>5, <2>1, <2>2, <2>3, <2>4, <2>5 DEF Control
<1>6. CASE UNCHANGED token
  BY <1>6
<1> QED
  BY <1>1, <1>2, <1>3, <1>4, <1>5, <1>6 DEF Next, MoveFunds

(* The supply grows by a minter's call and shrinks by a burner's.          *)
LEMMA SupplyStep ==
    ASSUME TokenInv, [Next]_token
    PROVE  /\ Vacant(token, "MINTER_ROLE") => token'.totalSupply <= token.totalSupply
           /\ Vacant(token, "BURNER_ROLE") => token'.totalSupply >= token.totalSupply
<1> DEFINE Goal ==
      /\ Vacant(token, "MINTER_ROLE") => token'.totalSupply <= token.totalSupply
      /\ Vacant(token, "BURNER_ROLE") => token'.totalSupply >= token.totalSupply
<1>0. Sound(token) /\ token.totalSupply \in Int /\ Amounts \subseteq Nat
  BY SoundFields, WXRPAssumption, AmountsAssumption DEF TokenInv, Uint256
<1>1. ASSUME NEW sender \in Accounts, NEW to \in Addresses, NEW amount \in Amounts,
             Mint(sender, to, amount)
      PROVE  Goal
  <2>1. ~Vacant(token, "MINTER_ROLE")
    BY <1>1 DEF Mint, can_mint, hasRole, Vacant
  <2>2. token'.totalSupply = token.totalSupply + amount
    BY <1>0, <1>1 DEF Mint, mint, Sound, Storage
  <2> QED
    BY <1>0, <2>1, <2>2
<1>2. ASSUME NEW sender \in Accounts, NEW from \in Accounts, NEW amount \in Amounts,
             Burn(sender, from, amount)
      PROVE  Goal
  <2>1. ~Vacant(token, "BURNER_ROLE")
    BY <1>2 DEF Burn, can_burn, hasRole, Vacant
  <2>2. token' = burnt(token, from, amount)
    BY <1>0, <1>2, BurnSound DEF Burn
  <2>3. token'.totalSupply = token.totalSupply - amount
    BY <1>0, <2>2 DEF Sound, Storage, burnt
  <2> QED
    BY <1>0, <2>1, <2>3
<1>3. ASSUME NEW sender \in Accounts, NEW from \in Accounts, NEW to \in Addresses,
             NEW amount \in Amounts,
             \/ from = sender /\ Transfer(sender, to, amount)
             \/ TransferFrom(sender, from, to, amount)
      PROVE  Goal
  <2>1. token'.totalSupply = token.totalSupply
    BY <1>0, <1>3, TransfersMove
  <2> QED
    BY <1>0, <2>1
<1>4. ASSUME NEW sender \in Accounts, NEW spender \in Accounts,
             NEW amount \in Amounts, Approve(sender, spender, amount)
      PROVE  Goal
  BY <1>0, <1>4, ApproveQuiet DEF Quiet
<1>5. ASSUME NEW sender \in Accounts, Control(sender) PROVE Goal
  BY <1>0, <1>5, ControlQuiet DEF Quiet
<1>6. CASE UNCHANGED token
  BY <1>0, <1>6
<1> QED
  BY <1>1, <1>2, <1>3, <1>4, <1>5, <1>6 DEF Next, MoveFunds

(* Without an administrator a power nobody holds never comes back, and the *)
(* supply moves no more in the direction it allowed.                       *)
THEOREM Sealed == Spec => SealedSupply
<1> DEFINE Seal ==
      Vacant(token, "DEFAULT_ADMIN_ROLE") =>
          /\ Vacant(token', "DEFAULT_ADMIN_ROLE")
          /\ Vacant(token, "MINTER_ROLE") =>
                /\ Vacant(token', "MINTER_ROLE")
                /\ token'.totalSupply <= token.totalSupply
          /\ Vacant(token, "BURNER_ROLE") =>
                /\ Vacant(token', "BURNER_ROLE")
                /\ token'.totalSupply >= token.totalSupply
<1>1. TokenInv /\ [Next]_token => [Seal]_token
  <2> SUFFICES ASSUME TokenInv, [Next]_token,
                      Vacant(token, "DEFAULT_ADMIN_ROLE")
               PROVE  Seal
    OBVIOUS
  <2>1. \A role \in Roles : Vacant(token, role) => Vacant(token', role)
    BY RolesShrink DEF Vacant
  <2> QED
    BY <2>1, SupplyStep DEF Roles
<1> QED
  BY <1>1, TokenSound, PTL DEF Spec, SealedSupply

-----------------------------------------------------------------------------
(* The bag of packets under way, and what it weighs.                       *)

Counts(B) == IsABag(B) /\ IsFiniteSet(DOMAIN B)
OneMore(C, B, q) ==
    /\ DOMAIN C = DOMAIN B \cup {q}
    /\ C[q] = IF q \in DOMAIN B THEN B[q] + 1 ELSE 1
    /\ \A p \in DOMAIN B \ {q} : C[p] = B[p]

weight(B) == SumFunctionOnSet([p \in DOMAIN B |-> B[p] * p.amount], DOMAIN B)

(* To put one packet in a bag is to add one to its count.                  *)
LEMMA BagAdds ==
    ASSUME NEW B, Counts(B), NEW q
    PROVE  Counts(B (+) SetToBag({q})) /\ OneMore(B (+) SetToBag({q}), B, q)
<1> DEFINE C == B (+) SetToBag({q})
<1>1. /\ IsFiniteSet(DOMAIN B \cup {q})
      /\ \A p \in DOMAIN B : B[p] \in Nat /\ B[p] > 0
  BY FS_AddElement DEF Counts, IsABag
<1>2. C = [p \in DOMAIN B \cup {q} |-> (IF p \in DOMAIN B THEN B[p] ELSE 0)
                                     + (IF p \in {q} THEN 1 ELSE 0)]
  BY DEF (+), SetToBag
<1>3. /\ C = [p \in DOMAIN C |-> C[p]]
      /\ DOMAIN C = DOMAIN B \cup {q}
      /\ C[q] = IF q \in DOMAIN B THEN B[q] + 1 ELSE 1
      /\ \A p \in DOMAIN B \ {q} : C[p] = B[p]
  BY <1>1, <1>2
<1> HIDE DEF C
<1>4. \A p \in DOMAIN C : C[p] \in Nat /\ C[p] > 0
  BY <1>1, <1>3
<1>5. C \in [DOMAIN C -> {n \in Nat : n > 0}]
  BY <1>3, <1>4
<1>6. Counts(C) /\ OneMore(C, B, q)
  BY <1>1, <1>3, <1>5 DEF Counts, IsABag, OneMore
<1> QED
  BY <1>6 DEF C

(* Taking one is undoing to add one.                                       *)
LEMMA BagTakes ==
    ASSUME NEW B, Counts(B), NEW q \in DOMAIN B
    PROVE  Counts(B (-) SetToBag({q})) /\ OneMore(B, B (-) SetToBag({q}), q)
<1> DEFINE C == B (-) SetToBag({q})
           less == [p \in DOMAIN B |-> IF p \in DOMAIN SetToBag({q})
                                      THEN B[p] - SetToBag({q})[p] ELSE B[p]]
           D == {d \in DOMAIN less : less[d] > 0}
<1>1. \A p \in DOMAIN B : B[p] \in Nat /\ B[p] > 0
  BY DEF Counts, IsABag
<1>2. C = [d \in D |-> less[d]]
  BY DEF (-)
<1>3. /\ DOMAIN less = DOMAIN B
      /\ less[q] = B[q] - 1
      /\ \A p \in DOMAIN B \ {q} : less[p] = B[p]
  BY DEF SetToBag
<1> HIDE DEF C, less
<1>4. /\ DOMAIN C \subseteq DOMAIN B
      /\ C = [p \in DOMAIN C |-> C[p]]
      /\ \A p \in DOMAIN C : C[p] \in Nat /\ C[p] > 0
      /\ \A p \in DOMAIN B \ {q} : p \in DOMAIN C /\ C[p] = B[p]
      /\ q \in DOMAIN C => B[q] = C[q] + 1
      /\ q \notin DOMAIN C => B[q] = 1
  BY <1>1, <1>2, <1>3
<1>5. IsFiniteSet(DOMAIN C)
  BY <1>4, FS_Subset DEF Counts
<1>6. C \in [DOMAIN C -> {n \in Nat : n > 0}]
  BY <1>4
<1>7. Counts(C) /\ OneMore(B, C, q)
  BY <1>4, <1>5, <1>6 DEF Counts, IsABag, OneMore
<1> QED
  BY <1>7 DEF C

(* One packet more weighs its amount more.                                 *)
LEMMA OneWeighs ==
    ASSUME NEW B, NEW C, NEW q, Counts(B), Counts(C), OneMore(C, B, q),
           \A p \in DOMAIN C : p.amount \in Nat
    PROVE  weight(C) = weight(B) + q.amount
<1> DEFINE f == [p \in DOMAIN B |-> B[p] * p.amount]
           g == [p \in DOMAIN C |-> C[p] * p.amount]
<1>1. /\ \A p \in DOMAIN B : B[p] \in Nat /\ p.amount \in Nat
      /\ \A p \in DOMAIN C : C[p] \in Nat /\ p.amount \in Nat
      /\ q \in DOMAIN C /\ q.amount \in Nat
  BY DEF Counts, IsABag, OneMore
<1>2. \A m, n \in Nat : m * n \in Nat /\ (m + 1) * n = m * n + n /\ 1 * n = n
  OBVIOUS
<1>3. /\ \A p \in DOMAIN B : f[p] \in Int
      /\ \A p \in DOMAIN C : g[p] \in Int
      /\ \A p \in DOMAIN B \ {q} : g[p] = f[p]
      /\ g[q] = IF q \in DOMAIN B THEN f[q] + q.amount ELSE q.amount
  BY <1>1, <1>2 DEF OneMore
<1>4. /\ weight(B) = SumFunctionOnSet(f, DOMAIN B)
      /\ weight(C) = SumFunctionOnSet(g, DOMAIN C)
      /\ IsFiniteSet(DOMAIN B)
      /\ DOMAIN C = DOMAIN B \cup {q}
  BY DEF weight, Counts, OneMore
<1> HIDE DEF f, g
<1>5. CASE q \in DOMAIN B
  <2>1. DOMAIN C = DOMAIN B
    BY <1>4, <1>5
  <2>2. SumFunctionOnSet(g, DOMAIN B)
          = SumFunctionOnSet(f, DOMAIN B) - f[q] + g[q]
    BY <1>3, <1>4, <1>5, <2>1, SumChange
  <2>3. SumFunctionOnSet(f, DOMAIN B) \in Int
    BY <1>3, <1>4, SumInt
  <2> QED
    BY <1>1, <1>3, <1>4, <1>5, <2>1, <2>2, <2>3
<1>6. CASE q \notin DOMAIN B
  <2>1. SumFunctionOnSet(g, DOMAIN C) = g[q] + SumFunctionOnSet(g, DOMAIN B)
    BY <1>3, <1>4, <1>6, SumInsert
  <2>2. SumFunctionOnSet(g, DOMAIN B) = SumFunctionOnSet(f, DOMAIN B)
    BY <1>3, <1>4, <1>6, SumSame
  <2>3. SumFunctionOnSet(f, DOMAIN B) \in Int
    BY <1>3, <1>4, SumInt
  <2> QED
    BY <1>1, <1>3, <1>4, <1>6, <2>1, <2>2, <2>3
<1> QED
  BY <1>5, <1>6

-----------------------------------------------------------------------------
(* The tokens of several chains, and the packets between them.             *)

BridgeInv ==
    /\ tokens \in [Chains -> Storage]
    /\ \A c \in Chains : Sound(tokens[c])
    /\ Counts(packets) /\ DOMAIN packets \subseteq Packet
    /\ issued \in Int
    /\ Conserved

total(ts) == SumFunctionOnSet([c \in Chains |-> ts[c].totalSupply], Chains)

(* Conserved, in terms of the sums above; and in the next state.           *)
LEMMA ConservedIs == Conserved <=> total(tokens) + weight(packets) = issued
BY DEF Conserved, UnderWay, SumFunction, total, weight, BagToSet

(* The same in the next state.                                             *)
LEMMA ConservedIsNext == Conserved' <=> total(tokens') + weight(packets') = issued'
BY DEF Conserved, UnderWay, SumFunction, total, weight, BagToSet

(* What a packet is made of.                                               *)
LEMMA PacketFields ==
    ASSUME NEW p \in Packet
    PROVE  /\ p.src \in Chains /\ p.dst \in Chains /\ p.src # p.dst
           /\ p.to \in Addresses /\ p.amount \in Amounts /\ p.amount \in Nat
<1>1. /\ p \in [src: Chains, dst: Chains, to: Recipients, amount: Amounts]
      /\ p.src # p.dst
  BY DEF Packet
<1>2. Recipients \subseteq Addresses /\ Amounts \subseteq Nat
  BY BridgeAssumption, AmountsAssumption, WXRPAssumption DEF Uint256
<1> QED
  BY <1>1, <1>2

(* One token changes, and the sum of the supplies by as much.              *)
LEMMA TotalChange ==
    ASSUME NEW ts \in [Chains -> Storage], NEW us \in [Chains -> Storage],
           NEW c \in Chains, \A d \in Chains \ {c} : us[d] = ts[d]
    PROVE  /\ total(us) = total(ts) - ts[c].totalSupply + us[c].totalSupply
           /\ total(us) \in Int /\ total(ts) \in Int
<1> DEFINE f == [d \in Chains |-> ts[d].totalSupply]
           g == [d \in Chains |-> us[d].totalSupply]
<1>1. /\ \A d \in Chains : f[d] \in Int /\ g[d] \in Int
      /\ \A d \in Chains \ {c} : g[d] = f[d]
      /\ f[c] = ts[c].totalSupply /\ g[c] = us[c].totalSupply
      /\ total(ts) = SumFunctionOnSet(f, Chains)
      /\ total(us) = SumFunctionOnSet(g, Chains)
      /\ IsFiniteSet(Chains)
  BY WXRPAssumption, BridgeAssumption DEF Storage, Uint256, total
<1> HIDE DEF f, g
<1>2. SumFunctionOnSet(g, Chains) = SumFunctionOnSet(f, Chains) - f[c] + g[c]
  BY <1>1, SumChange
<1>3. SumFunctionOnSet(f, Chains) \in Int /\ SumFunctionOnSet(g, Chains) \in Int
  BY <1>1, SumInt
<1> QED
  BY <1>1, <1>2, <1>3

(* What a step on one chain has to balance.                                *)
ChainSet(c, u) == tokens' = [tokens EXCEPT ![c] = u]

(* A step of one token keeps the invariant when what its supply gains was  *)
(* issued or was under way.                                                *)
LEMMA OnOneChain ==
    ASSUME BridgeInv, NEW c \in Chains, NEW u, Sound(u), ChainSet(c, u),
           Counts(packets'), DOMAIN packets' \subseteq Packet, issued' \in Int,
           u.totalSupply - tokens[c].totalSupply
             = (issued' - issued) - (weight(packets') - weight(packets)),
           weight(packets) \in Int, weight(packets') \in Int
    PROVE  BridgeInv'
<1>1. /\ u \in Storage
      /\ tokens' \in [Chains -> Storage]
      /\ tokens \in [Chains -> Storage]
      /\ tokens'[c] = u
      /\ \A d \in Chains \ {c} : tokens'[d] = tokens[d]
      /\ \A d \in Chains : Sound(tokens[d])
      /\ issued \in Int
  BY DEF BridgeInv, Sound, ChainSet
<1>2. \A d \in Chains : Sound(tokens'[d])
  BY <1>1
<1>3. /\ total(tokens') = total(tokens) - tokens[c].totalSupply + u.totalSupply
      /\ total(tokens') \in Int /\ total(tokens) \in Int
  BY <1>1, TotalChange
<1>4. tokens[c].totalSupply \in Int /\ u.totalSupply \in Int
  BY <1>1, WXRPAssumption DEF Storage, Uint256
<1>5. total(tokens) + weight(packets) = issued
  BY ConservedIs DEF BridgeInv
<1>6. total(tokens') + weight(packets') = issued'
  BY <1>1, <1>3, <1>4, <1>5
<1> QED
  BY <1>1, <1>2, <1>6, ConservedIsNext DEF BridgeInv

(* What is under way is a natural number.                                  *)
LEMMA WeightType ==
    ASSUME NEW B, Counts(B), DOMAIN B \subseteq Packet
    PROVE  weight(B) \in Nat
<1> DEFINE f == [p \in DOMAIN B |-> B[p] * p.amount]
<1>1. \A p \in DOMAIN B : B[p] \in Nat /\ p.amount \in Nat
  BY PacketFields DEF Counts, IsABag
<1>2. \A m, n \in Nat : m * n \in Nat
  OBVIOUS
<1>3. \A p \in DOMAIN B : f[p] \in Nat
  BY <1>1, <1>2
<1> HIDE DEF f
<1>4. SumFunctionOnSet(f, DOMAIN B) \in Nat
  BY <1>3, SumNat DEF Counts
<1> QED
  BY <1>4 DEF weight, f

(* transfer moves what the sender has and leaves the supply alone.         *)
LEMMA PaySound ==
    ASSUME NEW t, Sound(t), NEW from \in Accounts, NEW to \in Accounts,
           NEW amount \in Amounts, can_transfer(t, from, to, amount)
    PROVE  /\ Sound(transfer(t, from, to, amount))
           /\ transfer(t, from, to, amount).totalSupply = t.totalSupply
           /\ transfer(t, from, to, amount).balances
                = paid(t.balances, from, to, amount)
           /\ amount <= t.balances[from]
<1> DEFINE balances == moved(t.balances, from, to, amount)
<1>1. /\ t.balances[from] >= amount
      /\ t.balances[from] \in Int /\ amount \in Int
  BY SoundFields, AmountsAssumption, WXRPAssumption DEF can_transfer, Uint256
<1>2. /\ balances \in [Accounts -> Uint256]
      /\ SumFunction(balances) = t.totalSupply
      /\ balances = paid(t.balances, from, to, amount)
  BY <1>1, MovedSound
<1>3. transfer(t, from, to, amount) = [t EXCEPT !.balances = balances]
  BY DEF transfer, Sound, Storage
<1> HIDE DEF balances
<1> QED
  BY <1>1, <1>2, <1>3 DEF Sound, Storage

(* Issue and redeem count what they mint and burn.                         *)
LEMMA IssueSteps ==
    ASSUME BridgeInv, NEW c \in Chains, NEW a \in Accounts, NEW amount \in Amounts,
           Issue(c, a, amount) \/ Redeem(c, a, amount)
    PROVE  BridgeInv'
<1>1. /\ Sound(tokens[c]) /\ Counts(packets) /\ DOMAIN packets \subseteq Packet
      /\ weight(packets) \in Int /\ issued \in Int /\ amount \in Int
      /\ tokens[c].totalSupply \in Int
  BY SoundFields, WeightType, AmountsAssumption, WXRPAssumption DEF BridgeInv, Uint256
<1>2. CASE Issue(c, a, amount)
  <2> DEFINE u == mint(tokens[c], a, amount)
  <2>1. Sound(u) /\ u = minted(tokens[c], a, amount)
    BY <1>1, <1>2, MintSound DEF Issue, Addresses
  <2>2. u.totalSupply = tokens[c].totalSupply + amount
    BY <1>1, <2>1 DEF minted, Sound, Storage
  <2>3. /\ ChainSet(c, u)
        /\ issued' = issued + amount /\ packets' = packets
    BY <1>2 DEF Issue, ChainSet
  <2> HIDE DEF u
  <2> QED
    BY <1>1, <2>1, <2>2, <2>3, OnOneChain
<1>3. CASE Redeem(c, a, amount)
  <2> DEFINE u == burn(tokens[c], a, amount)
  <2>1. Sound(u) /\ u = burnt(tokens[c], a, amount)
    BY <1>1, <1>3, BurnSound DEF Redeem
  <2>2. u.totalSupply = tokens[c].totalSupply - amount
    BY <1>1, <2>1 DEF burnt, Sound, Storage
  <2>3. /\ ChainSet(c, u)
        /\ issued' = issued - amount /\ packets' = packets
    BY <1>3 DEF Redeem, ChainSet
  <2> HIDE DEF u
  <2> QED
    BY <1>1, <2>1, <2>2, <2>3, OnOneChain
<1> QED
  BY <1>2, <1>3

(* What is burnt is under way.                                             *)
LEMMA SendStep ==
    ASSUME BridgeInv, NEW c \in Chains, NEW d \in Chains, NEW sender \in Accounts,
           NEW to \in Recipients, NEW amount \in Amounts,
           Send(c, d, sender, to, amount)
    PROVE  BridgeInv'
<1> DEFINE q == [src |-> c, dst |-> d, to |-> to, amount |-> amount]
           u == burn(tokens[c], sender, amount)
<1>1. /\ Sound(tokens[c]) /\ Counts(packets) /\ DOMAIN packets \subseteq Packet
      /\ weight(packets) \in Int /\ issued \in Int /\ amount \in Int
      /\ tokens[c].totalSupply \in Int
  BY SoundFields, WeightType, AmountsAssumption, WXRPAssumption DEF BridgeInv, Uint256
<1>2. q \in Packet /\ q.amount = amount
  BY DEF Send, Packet
<1>3. Sound(u) /\ u = burnt(tokens[c], sender, amount)
  BY <1>1, BurnSound DEF Send
<1>4. u.totalSupply = tokens[c].totalSupply - amount
  BY <1>1, <1>3 DEF burnt, Sound, Storage
<1>5. /\ ChainSet(c, u)
      /\ issued' = issued
      /\ packets' = packets (+) SetToBag({q})
  BY DEF Send, ChainSet
<1> HIDE DEF q, u
<1>6. Counts(packets') /\ OneMore(packets', packets, q)
  BY <1>1, <1>5, BagAdds
<1>7. DOMAIN packets' \subseteq Packet
  BY <1>1, <1>2, <1>6 DEF OneMore
<1>8. weight(packets') = weight(packets) + amount
  BY <1>1, <1>2, <1>6, <1>7, OneWeighs, PacketFields
<1>9. /\ u.totalSupply - tokens[c].totalSupply
           = (issued' - issued) - (weight(packets') - weight(packets))
      /\ weight(packets') \in Int /\ issued' \in Int /\ c \in Chains
  BY <1>1, <1>4, <1>5, <1>8
<1> QED
  BY <1>1, <1>3, <1>5, <1>6, <1>7, <1>9, OnOneChain

(* Whom a packet is credited to has an account.                            *)
LEMMA RecipientAccount ==
    ASSUME NEW to \in Addresses PROVE recipient(to) \in Accounts
BY BridgeAssumption DEF recipient, Addresses

(* What was under way is minted.                                           *)
LEMMA ReceiveStep ==
    ASSUME BridgeInv, NEW p \in DOMAIN packets, Receive(p)
    PROVE  BridgeInv'
<1> DEFINE c == p.dst
           u == mint(tokens[c], recipient(p.to), p.amount)
<1>1. /\ p \in Packet /\ c \in Chains /\ p.amount \in Int /\ p.amount \in Amounts
      /\ recipient(p.to) \in Addresses
  BY PacketFields, RecipientAccount DEF BridgeInv, Addresses
<1>2. /\ Sound(tokens[c]) /\ Counts(packets) /\ DOMAIN packets \subseteq Packet
      /\ weight(packets) \in Int /\ issued \in Int
      /\ tokens[c].totalSupply \in Int
  BY <1>1, SoundFields, WeightType, WXRPAssumption DEF BridgeInv, Uint256
<1>3. Sound(u) /\ u = minted(tokens[c], recipient(p.to), p.amount)
  BY <1>1, <1>2, MintSound DEF Receive
<1>4. u.totalSupply = tokens[c].totalSupply + p.amount
  BY <1>1, <1>2, <1>3 DEF minted, Sound, Storage
<1>5. /\ ChainSet(c, u)
      /\ issued' = issued
      /\ packets' = packets (-) SetToBag({p})
  BY DEF Receive, ChainSet
<1> HIDE DEF c, u
<1>6. Counts(packets') /\ OneMore(packets, packets', p)
  BY <1>2, <1>5, BagTakes
<1>7. DOMAIN packets' \subseteq Packet
  BY <1>2, <1>6 DEF OneMore
<1>8. weight(packets) = weight(packets') + p.amount /\ weight(packets') \in Int
  BY <1>2, <1>6, <1>7, OneWeighs, WeightType, PacketFields
<1>9. /\ u.totalSupply - tokens[c].totalSupply
           = (issued' - issued) - (weight(packets') - weight(packets))
      /\ weight(packets') \in Int /\ issued' \in Int /\ c \in Chains
  BY <1>1, <1>2, <1>4, <1>5, <1>8
<1> QED
  BY <1>2, <1>3, <1>5, <1>6, <1>7, <1>9, OnOneChain

(* A payment within a chain keeps its supply.                              *)
LEMMA PayStep ==
    ASSUME BridgeInv, NEW c \in Chains, NEW from \in Accounts, NEW to \in Accounts,
           NEW amount \in Amounts, Pay(c, from, to, amount)
    PROVE  BridgeInv'
<1> DEFINE u == transfer(tokens[c], from, to, amount)
<1>1. /\ Sound(tokens[c]) /\ Counts(packets) /\ DOMAIN packets \subseteq Packet
      /\ weight(packets) \in Int /\ issued \in Int
      /\ tokens[c].totalSupply \in Int
  BY SoundFields, WeightType, WXRPAssumption DEF BridgeInv, Uint256
<1>2. Sound(u) /\ u.totalSupply = tokens[c].totalSupply
  BY <1>1, PaySound DEF Pay
<1>3. /\ ChainSet(c, u)
      /\ issued' = issued /\ packets' = packets
  BY DEF Pay, ChainSet
<1> HIDE DEF u
<1> QED
  BY <1>1, <1>2, <1>3, OnOneChain

(* A pause, a blacklisting or a role: the token stays as it is otherwise.  *)
LEMMA SetChain ==
    ASSUME BridgeInv, NEW c \in Chains, Freeze(c) \/ SetRoles(c)
    PROVE  \E u \in Storage : Quiet(tokens[c], u) /\ ChainSet(c, u)
<1>1. tokens \in [Chains -> Storage] /\ tokens[c] \in Storage
  BY DEF BridgeInv
<1>2. ASSUME tokens' = [tokens EXCEPT ![c].paused = ~@]
      PROVE  \E u \in Storage : Quiet(tokens[c], u) /\ ChainSet(c, u)
  <2> DEFINE u == [tokens[c] EXCEPT !.paused = ~@]
  <2>1. u \in Storage /\ Quiet(tokens[c], u)
    BY <1>1 DEF Storage, Quiet
  <2>2. ChainSet(c, u)
    BY <1>1, <1>2 DEF ChainSet
  <2> QED
    BY <2>1, <2>2
<1>3. ASSUME NEW a \in Suspects, tokens' = [tokens EXCEPT ![c].isBlacklisted[a] = ~@]
      PROVE  \E u \in Storage : Quiet(tokens[c], u) /\ ChainSet(c, u)
  <2> DEFINE u == [tokens[c] EXCEPT !.isBlacklisted[a] = ~@]
  <2>1. u \in Storage /\ Quiet(tokens[c], u)
    BY <1>1, BridgeAssumption DEF Storage, Quiet, Addresses
  <2>2. ChainSet(c, u)
    BY <1>1, <1>3 DEF ChainSet
  <2> QED
    BY <2>1, <2>2
<1>4. ASSUME NEW role \in Roles, NEW holders \in {{Admin}, {Admin, Adapter}},
             tokens' = [tokens EXCEPT ![c].roles[role] = holders]
      PROVE  \E u \in Storage : Quiet(tokens[c], u) /\ ChainSet(c, u)
  <2> DEFINE u == [tokens[c] EXCEPT !.roles[role] = holders]
  <2>0. holders \in SUBSET Addresses
    BY BridgeAssumption DEF Addresses
  <2>1. u \in Storage /\ Quiet(tokens[c], u)
    BY <1>1, <2>0 DEF Storage, Quiet
  <2>2. ChainSet(c, u)
    BY <1>1, <1>4 DEF ChainSet
  <2> QED
    BY <2>1, <2>2
<1> QED
  BY <1>2, <1>3, <1>4 DEF Freeze, SetRoles, Roles

(* Freezes and role changes keep balances and supplies.                    *)
LEMMA SetStep ==
    ASSUME BridgeInv, NEW c \in Chains, Freeze(c) \/ SetRoles(c)
    PROVE  BridgeInv'
<1>1. PICK u \in Storage : Quiet(tokens[c], u) /\ ChainSet(c, u)
  BY SetChain
<1>2. /\ Sound(tokens[c]) /\ Counts(packets) /\ DOMAIN packets \subseteq Packet
      /\ weight(packets) \in Int /\ issued \in Int
      /\ tokens[c].totalSupply \in Int
  BY SoundFields, WeightType, WXRPAssumption DEF BridgeInv, Uint256
<1>3. Sound(u) /\ u.totalSupply = tokens[c].totalSupply
  BY <1>1, <1>2, QuietSound DEF Quiet
<1>4. issued' = issued /\ packets' = packets
  BY DEF Freeze, SetRoles
<1> QED
  BY <1>1, <1>2, <1>3, <1>4, OnOneChain

(* One step per action.                                                    *)
LEMMA BridgeStep == BridgeInv /\ [BridgeNext]_vars => BridgeInv'
<1> SUFFICES ASSUME BridgeInv, [BridgeNext]_vars PROVE BridgeInv'
  OBVIOUS
<1>1. ASSUME NEW c \in Chains, NEW d \in Chains, NEW sender \in Accounts,
             NEW to \in Recipients, NEW amount \in Amounts,
             Send(c, d, sender, to, amount)
      PROVE  BridgeInv'
  BY <1>1, SendStep
<1>2. ASSUME NEW p \in DOMAIN packets, Receive(p) PROVE BridgeInv'
  BY <1>2, ReceiveStep
<1>3. ASSUME NEW c \in Chains, NEW a \in Accounts, NEW amount \in Amounts,
             Issue(c, a, amount) \/ Redeem(c, a, amount)
      PROVE  BridgeInv'
  BY <1>3, IssueSteps
<1>4. ASSUME NEW c \in Chains, NEW a \in Accounts, NEW to \in Accounts,
             NEW amount \in Amounts, Pay(c, a, to, amount)
      PROVE  BridgeInv'
  BY <1>4, PayStep
<1>5. ASSUME NEW c \in Chains, NEW d \in Chains, SetPeer(c, d) PROVE BridgeInv'
  BY <1>5 DEF SetPeer, BridgeInv, Conserved, UnderWay
<1>6. ASSUME NEW c \in Chains, Freeze(c) \/ SetRoles(c) PROVE BridgeInv'
  BY <1>6, SetStep
<1>7. CASE UNCHANGED vars
  BY <1>7 DEF vars, BridgeInv, Conserved, UnderWay
<1> QED
  BY <1>1, <1>2, <1>3, <1>4, <1>5, <1>6, <1>7
     DEF BridgeNext, Cross, Holders, Administer, BagToSet

(* Every token is initialised, and nothing is under way.                   *)
LEMMA BridgeStart == BridgeInit => BridgeInv
<1> SUFFICES ASSUME BridgeInit PROVE BridgeInv
  OBVIOUS
<1> DEFINE u == [initialize(Admin) EXCEPT !.roles = [r \in Roles |-> {Admin}]]
<1>1. Sound(u)
  <2>1. [r \in Roles |-> {Admin}] \in [Roles -> SUBSET Addresses]
    BY BridgeAssumption DEF Addresses
  <2> QED
    BY <2>1, BridgeAssumption, InitializeSound
<1>2. u.totalSupply = 0
  BY DEF initialize
<1>3. tokens = [c \in Chains |-> u] /\ issued = 0 /\ packets = EmptyBag
  BY DEF BridgeInit
<1> HIDE DEF u
<1>4. /\ tokens \in [Chains -> Storage] /\ \A c \in Chains : Sound(tokens[c])
      /\ u \in Storage
  BY <1>1, <1>3 DEF Sound
<1>5. total(tokens) = 0
  BY <1>2, <1>3, BridgeAssumption, SumZero DEF total
<1>6. DOMAIN packets = {} /\ Counts(packets)
  BY <1>3, FS_EmptySet DEF EmptyBag, SetToBag, Counts, IsABag
<1>7. weight(packets) = 0
  BY <1>6, SumEmpty DEF weight
<1> QED
  BY <1>3, <1>4, <1>5, <1>6, <1>7, ConservedIs DEF BridgeInv

(* Across the chains and the packets between them there is what was issued.*)
THEOREM BridgeConserves == BridgeSpec => []Conserved
<1>1. BridgeInv => Conserved
  BY DEF BridgeInv
<1> QED
  BY <1>1, BridgeStart, BridgeStep, PTL DEF BridgeSpec

(* What one packet carries is part of what is under way.                   *)
LEMMA PacketWeighs ==
    ASSUME NEW B, Counts(B), DOMAIN B \subseteq Packet, NEW p \in DOMAIN B
    PROVE  p.amount <= weight(B)
<1> DEFINE f == [q \in DOMAIN B |-> B[q] * q.amount]
<1>1. \A q \in DOMAIN B : B[q] \in Nat /\ q.amount \in Nat
  BY PacketFields DEF Counts, IsABag
<1>2. \A m, n \in Nat : m * n \in Nat /\ (m > 0 => n <= m * n)
  OBVIOUS
<1>3. (\A q \in DOMAIN B : f[q] \in Nat) /\ f[p] = B[p] * p.amount
  BY <1>1, <1>2
<1>4. p.amount <= f[p]
  BY <1>1, <1>2, <1>3 DEF Counts, IsABag
<1> HIDE DEF f
<1>5. f[p] <= SumFunctionOnSet(f, DOMAIN B)
  BY <1>3, SumAtLeast DEF Counts
<1>6. SumFunctionOnSet(f, DOMAIN B) = weight(B) /\ weight(B) \in Nat
  BY WeightType DEF weight, f
<1> QED
  BY <1>1, <1>3, <1>4, <1>5, <1>6

(* One supply is part of them all.                                         *)
LEMMA SupplyInTotal ==
    ASSUME NEW ts \in [Chains -> Storage], NEW c \in Chains
    PROVE  ts[c].totalSupply <= total(ts) /\ total(ts) \in Nat
<1> DEFINE f == [d \in Chains |-> ts[d].totalSupply]
<1>1. /\ \A d \in Chains : f[d] \in Nat
      /\ f[c] = ts[c].totalSupply
  BY WXRPAssumption DEF Storage, Uint256
<1> HIDE DEF f
<1>2. f[c] <= SumFunctionOnSet(f, Chains) /\ SumFunctionOnSet(f, Chains) \in Nat
  BY <1>1, BridgeAssumption, SumAtLeast, SumNat
<1>3. SumFunctionOnSet(f, Chains) = total(ts)
  BY DEF total, f
<1> QED
  BY <1>1, <1>2, <1>3

(* The supply a delivery makes is part of what was issued, because the     *)
(* packet is: lzReceive is never refused for an overflow, nor for its      *)
(* recipient.                                                              *)
THEOREM DeliveriesMint == BridgeSpec => []AlwaysMintable
<1>1. BridgeInv => AlwaysMintable
  <2> SUFFICES ASSUME BridgeInv, issued \in Uint256, NEW p \in BagToSet(packets),
                      hasRole(tokens[p.dst], "MINTER_ROLE", Adapter)
               PROVE  can_mint(tokens[p.dst], Adapter, recipient(p.to), p.amount)
    BY DEF AlwaysMintable
  <2>1. /\ p \in DOMAIN packets /\ DOMAIN packets \subseteq Packet
        /\ Counts(packets) /\ tokens \in [Chains -> Storage]
        /\ total(tokens) + weight(packets) = issued
    BY ConservedIs DEF BridgeInv, BagToSet
  <2>2. p.dst \in Chains /\ p.to \in Addresses /\ p.amount \in Nat
    BY <2>1, PacketFields
  <2>3. tokens[p.dst].totalSupply \in Nat
    BY <2>1, <2>2, WXRPAssumption DEF Storage, Uint256
  <2>4. recipient(p.to) # ZeroAddress
    BY <2>2, RecipientAccount, WXRPAssumption
  <2>5. /\ p.amount <= weight(packets) /\ weight(packets) \in Nat
        /\ tokens[p.dst].totalSupply <= total(tokens) /\ total(tokens) \in Nat
    BY <2>1, <2>2, PacketWeighs, WeightType, SupplyInTotal
  <2>6. issued \in 0 .. UintMax /\ UintMax \in Nat
    BY WXRPAssumption DEF Uint256
  <2>7. tokens[p.dst].totalSupply + p.amount \in 0 .. UintMax
    BY <2>1, <2>2, <2>3, <2>5, <2>6
  <2> QED
    BY <2>4, <2>7 DEF can_mint, Uint256
<1> QED
  BY <1>1, BridgeStart, BridgeStep, PTL DEF BridgeSpec

-----------------------------------------------------------------------------
(* The refinement of the ledger: the bag of transfers under way first.     *)

same(B, t) == {p \in DOMAIN B : arriving(p) = t}
flightOf(B) == [t \in {arriving(p) : p \in DOMAIN B} |->
                  SumFunctionOnSet(B, same(B, t))]

(* What the abstract ledger sees of the packets, before and after a step.  *)
LEMMA FlightIs == Flight = flightOf(packets) /\ Flight' = flightOf(packets')
BY DEF Flight, arrivingAs, flightOf, same, BagToSet

(* The packets that arrive alike are finitely many and counted.            *)
LEMMA SameType ==
    ASSUME NEW B, Counts(B), NEW t
    PROVE  /\ IsFiniteSet(same(B, t)) /\ same(B, t) \subseteq DOMAIN B
           /\ \A p \in same(B, t) : B[p] \in Nat /\ B[p] \in Int
           /\ SumFunctionOnSet(B, same(B, t)) \in Nat
<1>1. IsFiniteSet(same(B, t)) /\ same(B, t) \subseteq DOMAIN B
  BY FS_Subset DEF Counts, same
<1>2. \A p \in same(B, t) : B[p] \in Nat /\ B[p] \in Int
  BY <1>1 DEF Counts, IsABag
<1>3. SumFunctionOnSet(B, same(B, t)) \in Nat
  BY <1>1, <1>2, SumNat
<1> QED
  BY <1>1, <1>2, <1>3

(* What the ledger sees under way is a bag.                                *)
LEMMA FlightBag == ASSUME NEW B, Counts(B) PROVE IsABag(flightOf(B))
<1> DEFINE D == {arriving(p) : p \in DOMAIN B}
           F == flightOf(B)
<1>1. ASSUME NEW p \in DOMAIN B
      PROVE  SumFunctionOnSet(B, same(B, arriving(p))) \in {n \in Nat : n > 0}
  <2>1. p \in same(B, arriving(p)) /\ B[p] \in Nat /\ B[p] > 0
    BY DEF same, Counts, IsABag
  <2>2. B[p] <= SumFunctionOnSet(B, same(B, arriving(p)))
    BY <2>1, SameType, SumAtLeast
  <2> QED
    BY <2>1, <2>2, SameType
<1>2. F = [t \in D |-> SumFunctionOnSet(B, same(B, t))]
  BY DEF flightOf
<1>3. \A t \in D : SumFunctionOnSet(B, same(B, t)) \in {n \in Nat : n > 0}
  BY <1>1
<1> QED
  BY <1>2, <1>3 DEF IsABag

(* One packet more is one transfer more.                                   *)
LEMMA FlightOneMore ==
    ASSUME NEW B, NEW C, NEW q, Counts(B), Counts(C), OneMore(C, B, q)
    PROVE  OneMore(flightOf(C), flightOf(B), arriving(q))
<1> DEFINE t0 == arriving(q)
           before == SumFunctionOnSet(B, same(B, t0))
           after == SumFunctionOnSet(C, same(C, t0))
<1>1. /\ DOMAIN C = DOMAIN B \cup {q}
      /\ C[q] = IF q \in DOMAIN B THEN B[q] + 1 ELSE 1
      /\ \A p \in DOMAIN B \ {q} : C[p] = B[p]
      /\ DOMAIN flightOf(B) = {arriving(p) : p \in DOMAIN B}
      /\ DOMAIN flightOf(C) = {arriving(p) : p \in DOMAIN C}
  BY DEF OneMore, flightOf
<1>2. DOMAIN flightOf(C) = DOMAIN flightOf(B) \cup {t0}
  BY <1>1
<1>3. ASSUME NEW t \in DOMAIN flightOf(B) \ {t0}
      PROVE  flightOf(C)[t] = flightOf(B)[t]
  <2>1. same(C, t) = same(B, t) /\ \A p \in same(B, t) : C[p] = B[p]
    BY <1>1 DEF same
  <2>2. SumFunctionOnSet(C, same(B, t)) = SumFunctionOnSet(B, same(B, t))
    BY <2>1, SameType, SumSame
  <2> QED
    BY <1>2, <2>1, <2>2 DEF flightOf
<1>4. after = before + 1
  <2>1. CASE q \in DOMAIN B
    <3>1. /\ same(C, t0) = same(B, t0) /\ q \in same(B, t0)
          /\ \A p \in same(B, t0) \ {q} : C[p] = B[p]
      BY <1>1, <2>1 DEF same
    <3>2. \A p \in same(B, t0) : B[p] \in Int /\ C[p] \in Int
      BY <3>1, SameType
    <3>3. after = before - B[q] + C[q]
      BY <3>1, <3>2, SameType, SumChange
    <3> QED
      BY <1>1, <2>1, <3>1, <3>2, <3>3, SameType
  <2>2. CASE q \notin DOMAIN B
    <3>1. /\ same(C, t0) = same(B, t0) \cup {q} /\ q \notin same(B, t0)
          /\ \A p \in same(B, t0) : C[p] = B[p]
      BY <1>1, <2>2 DEF same
    <3>2. \A p \in same(B, t0) \cup {q} : C[p] \in Int
      BY <1>1, <2>2, <3>1, SameType
    <3>3. after = C[q] + SumFunctionOnSet(C, same(B, t0))
      BY <3>1, <3>2, SameType, SumInsert
    <3>4. SumFunctionOnSet(C, same(B, t0)) = before
      BY <3>1, SameType, SumSame
    <3> QED
      BY <1>1, <2>2, <3>3, <3>4, SameType
  <2> QED
    BY <2>1, <2>2
<1>5. flightOf(C)[t0] = after
  BY <1>1 DEF flightOf
<1>6. CASE t0 \in DOMAIN flightOf(B)
  <2>1. flightOf(B)[t0] = before
    BY <1>1, <1>6 DEF flightOf
  <2> QED
    BY <1>2, <1>3, <1>4, <1>5, <1>6, <2>1 DEF OneMore
<1>7. CASE t0 \notin DOMAIN flightOf(B)
  <2>1. same(B, t0) = {}
    BY <1>1, <1>7 DEF same
  <2>2. before = 0
    BY <2>1, SumEmpty
  <2> QED
    BY <1>2, <1>3, <1>4, <1>5, <1>7, <2>2 DEF OneMore
<1> QED
  BY <1>6, <1>7

(* The ledger's bag operations.                                            *)
LEMMA LedgerAdds ==
    ASSUME NEW F, NEW G, NEW t, IsABag(F), IsABag(G), OneMore(G, F, t)
    PROVE  G = Transfers!(+)(F, Transfers!SetToBag({t}))
<1> DEFINE H == Transfers!(+)(F, Transfers!SetToBag({t}))
<1>1. /\ G = [x \in DOMAIN G |-> G[x]]
      /\ \A x \in DOMAIN F : F[x] \in Nat
      /\ DOMAIN G = DOMAIN F \cup {t}
      /\ G[t] = IF t \in DOMAIN F THEN F[t] + 1 ELSE 1
      /\ \A x \in DOMAIN F \ {t} : G[x] = F[x]
  BY DEF OneMore, IsABag
<1>2. H = [x \in DOMAIN F \cup {t} |-> (IF x \in DOMAIN F THEN F[x] ELSE 0)
                                     + (IF x \in {t} THEN 1 ELSE 0)]
  BY DEF Transfers!(+), Transfers!SetToBag
<1>3. \A x \in DOMAIN F \cup {t} :
        G[x] = (IF x \in DOMAIN F THEN F[x] ELSE 0) + (IF x \in {t} THEN 1 ELSE 0)
  BY <1>1
<1> QED
  BY <1>1, <1>2, <1>3

(* To take one transfer out is to undo adding it.                          *)
LEMMA LedgerTakes ==
    ASSUME NEW F, NEW G, NEW t, IsABag(F), IsABag(G), OneMore(F, G, t)
    PROVE  G = Transfers!(-)(F, Transfers!SetToBag({t})) /\ Transfers!BagIn(t, F)
<1> DEFINE H == Transfers!(-)(F, Transfers!SetToBag({t}))
           less == [x \in DOMAIN F |-> IF x \in DOMAIN Transfers!SetToBag({t})
                                      THEN F[x] - Transfers!SetToBag({t})[x] ELSE F[x]]
           D == {x \in DOMAIN less : less[x] > 0}
<1>1. /\ G = [x \in DOMAIN G |-> G[x]]
      /\ \A x \in DOMAIN G : G[x] \in Nat /\ G[x] > 0
      /\ DOMAIN F = DOMAIN G \cup {t}
      /\ F[t] = IF t \in DOMAIN G THEN G[t] + 1 ELSE 1
      /\ \A x \in DOMAIN G \ {t} : F[x] = G[x]
  BY DEF OneMore, IsABag
<1>2. H = [x \in D |-> less[x]]
  BY DEF Transfers!(-)
<1>3. /\ DOMAIN less = DOMAIN F
      /\ less[t] = F[t] - 1
      /\ \A x \in DOMAIN F \ {t} : less[x] = F[x]
  BY <1>1 DEF Transfers!SetToBag
<1> HIDE DEF H, less
<1>4. D = DOMAIN G /\ \A x \in D : less[x] = G[x]
  <2>1. \A x \in DOMAIN G : x \in DOMAIN less /\ less[x] = G[x]
    BY <1>1, <1>3
  <2>2. \A x \in DOMAIN less \ DOMAIN G : less[x] = 0
    BY <1>1, <1>3
  <2>3. \A x \in DOMAIN G : less[x] > 0
    BY <1>1, <2>1
  <2>4. \A x \in D : x \in DOMAIN G
    BY <2>2
  <2> QED
    BY <2>1, <2>3, <2>4
<1>5. G = H
  BY <1>1, <1>2, <1>4
<1> QED
  BY <1>1, <1>5 DEF H, Transfers!BagIn, Transfers!BagToSet

(* The ledger's balances when one token changes.                           *)
LEMMA BalancesSet ==
    ASSUME BridgeInv, NEW c \in Chains, NEW u \in Storage, ChainSet(c, u)
    PROVE  /\ Balances' = [Balances EXCEPT ![c] = u.balances]
           /\ Balances[c] = tokens[c].balances
           /\ Balances \in [Chains -> [Accounts -> Uint256]]
<1>1. /\ tokens \in [Chains -> Storage]
      /\ tokens' = [tokens EXCEPT ![c] = u]
  BY DEF BridgeInv, ChainSet
<1>2. Balances = [d \in Chains |-> tokens[d].balances]
  BY DEF Balances
<1>3. Balances' = [d \in Chains |-> tokens'[d].balances]
  BY DEF Balances
<1>4. \A d \in Chains : tokens'[d] = IF d = c THEN u ELSE tokens[d]
  BY <1>1
<1>5. \A d \in Chains : tokens[d].balances \in [Accounts -> Uint256]
  BY <1>1 DEF Storage
<1> QED
  BY <1>2, <1>3, <1>4, <1>5

(* They stay when no balance of that token changes.                        *)
LEMMA BalancesQuiet ==
    ASSUME BridgeInv, NEW c \in Chains, NEW u \in Storage, ChainSet(c, u),
           Quiet(tokens[c], u)
    PROVE  Balances' = Balances
BY BalancesSet DEF Quiet

(* Both sides of a step are bags.                                          *)
LEMMA FlightBags ==
    ASSUME BridgeInv, BridgeInv'
    PROVE  /\ Counts(packets) /\ Counts(packets')
           /\ IsABag(flightOf(packets)) /\ IsABag(flightOf(packets'))
<1>1. Counts(packets) /\ Counts(packets')
  BY DEF BridgeInv
<1> QED
  BY <1>1, FlightBag

(* send is the departure of its transfer.                                  *)
LEMMA SendDeparts ==
    ASSUME BridgeInv, BridgeInv', NEW c \in Chains, NEW d \in Chains,
           NEW sender \in Accounts, NEW to \in Recipients, NEW amount \in Amounts,
           Send(c, d, sender, to, amount)
    PROVE  \E t \in Transfers!Transfers : Transfers!Depart(t, sender)
<1> DEFINE q == [src |-> c, dst |-> d, to |-> to, amount |-> amount]
           t == arriving(q)
           u == burn(tokens[c], sender, amount)
<1>1. /\ t = [src |-> c, dst |-> d, to |-> recipient(to), amount |-> amount]
      /\ c # d
  BY DEF arriving, Send
<1>2. t \in Transfers!Transfers /\ t.src = c /\ t.dst = d /\ t.amount = amount
  BY <1>1, RecipientAccount, BridgeAssumption DEF Transfers!Transfers
<1>3. Sound(tokens[c]) /\ ChainSet(c, u)
  BY DEF BridgeInv, Send, ChainSet
<1>4. /\ Sound(u) /\ u = burnt(tokens[c], sender, amount)
      /\ tokens[c].balances[sender] >= amount
  BY <1>3, BurnSound DEF Send, can_burn
<1>5. u.balances = [tokens[c].balances EXCEPT ![sender] = @ - amount]
  BY <1>3, <1>4 DEF burnt, Sound, Storage
<1>6. packets' = packets (+) SetToBag({q})
  BY DEF Send
<1> HIDE DEF q, t, u
<1>7. Flight' = Transfers!(+)(Flight, Transfers!SetToBag({t}))
  <2>1. OneMore(packets', packets, q)
    BY <1>6, BagAdds DEF BridgeInv
  <2>2. OneMore(flightOf(packets'), flightOf(packets), t)
    BY <2>1, FlightBags, FlightOneMore DEF t
  <2> QED
    BY <2>2, FlightBags, LedgerAdds, FlightIs
<1>8. /\ Balances' = [Balances EXCEPT ![c] = u.balances]
      /\ Balances[c] = tokens[c].balances
      /\ Balances \in [Chains -> [Accounts -> Uint256]]
  BY <1>3, <1>4, BalancesSet DEF Sound
<1>9. Balances' = [Balances EXCEPT ![c][sender] = @ - amount]
  BY <1>5, <1>8
<1>10. amount <= Balances[c][sender]
  BY <1>4, <1>8, AmountsAssumption, WXRPAssumption DEF Uint256
<1> QED
  BY <1>1, <1>2, <1>7, <1>9, <1>10 DEF Transfers!Depart

(* lzReceive is the arrival of one of them.                                *)
LEMMA ReceiveArrives ==
    ASSUME BridgeInv, BridgeInv', NEW p \in DOMAIN packets, Receive(p)
    PROVE  \E t \in Transfers!Transfers : Transfers!Arrive(t)
<1> DEFINE t == arriving(p)
           c == p.dst
           r == recipient(p.to)
           u == mint(tokens[c], r, p.amount)
<1>1. p \in Packet /\ p \in [src: Chains, dst: Chains, to: Recipients, amount: Amounts]
  BY DEF BridgeInv, Packet
<1>2. /\ c \in Chains /\ p.amount \in Amounts /\ r \in Accounts
      /\ r \in Addresses
  BY <1>1, PacketFields, RecipientAccount DEF Addresses
<1>3. t = [src |-> p.src, dst |-> c, to |-> r, amount |-> p.amount]
  BY <1>1 DEF arriving
<1>4. t \in Transfers!Transfers /\ t.dst = c /\ t.to = r /\ t.amount = p.amount
  BY <1>1, <1>2, <1>3 DEF Transfers!Transfers
<1>5. Sound(tokens[c]) /\ ChainSet(c, u)
  BY <1>2 DEF BridgeInv, Receive, ChainSet
<1>6. Sound(u) /\ u = minted(tokens[c], r, p.amount)
  BY <1>2, <1>5, MintSound DEF Receive
<1>7. u.balances = [tokens[c].balances EXCEPT ![r] = @ + p.amount]
  BY <1>2, <1>5, <1>6 DEF minted, Sound, Storage
<1>8. packets' = packets (-) SetToBag({p})
  BY DEF Receive
<1> HIDE DEF t, c, r, u
<1>9. /\ Flight' = Transfers!(-)(Flight, Transfers!SetToBag({t}))
      /\ Transfers!BagIn(t, Flight)
  <2>1. OneMore(packets, packets', p)
    BY <1>8, BagTakes DEF BridgeInv
  <2>2. OneMore(flightOf(packets), flightOf(packets'), t)
    BY <2>1, FlightBags, FlightOneMore DEF t
  <2> QED
    BY <2>2, FlightBags, LedgerTakes, FlightIs
<1>10. /\ Balances' = [Balances EXCEPT ![c] = u.balances]
       /\ Balances[c] = tokens[c].balances
       /\ Balances \in [Chains -> [Accounts -> Uint256]]
  BY <1>2, <1>5, <1>6, BalancesSet DEF Sound
<1>11. Balances' = [Balances EXCEPT ![c][r] = @ + p.amount]
  BY <1>7, <1>10
<1> QED
  BY <1>4, <1>9, <1>11 DEF Transfers!Arrive

(* Issue and redeem are the ledger's.                                      *)
LEMMA IssuesLocal ==
    ASSUME BridgeInv, NEW c \in Chains, NEW a \in Accounts, NEW amount \in Amounts,
           Issue(c, a, amount) \/ Redeem(c, a, amount)
    PROVE  Transfers!Issue(c, a, amount) \/ Transfers!Redeem(c, a, amount)
<1>1. Sound(tokens[c]) /\ Flight' = Flight /\ a \in Addresses
  BY FlightIs DEF BridgeInv, Issue, Redeem, Addresses
<1>2. CASE Issue(c, a, amount)
  <2> DEFINE u == mint(tokens[c], a, amount)
  <2>1. ChainSet(c, u) /\ Sound(u) /\ u = minted(tokens[c], a, amount)
    BY <1>1, <1>2, MintSound DEF Issue, ChainSet
  <2>2. u.balances = [tokens[c].balances EXCEPT ![a] = @ + amount]
    BY <1>1, <2>1 DEF minted, Sound, Storage
  <2> HIDE DEF u
  <2>3. /\ Balances' = [Balances EXCEPT ![c] = u.balances]
        /\ Balances[c] = tokens[c].balances
    BY <2>1, BalancesSet DEF Sound
  <2>4. Balances' = [Balances EXCEPT ![c][a] = @ + amount]
    BY <2>2, <2>3
  <2> QED
    BY <1>1, <2>4 DEF Transfers!Issue
<1>3. CASE Redeem(c, a, amount)
  <2> DEFINE u == burn(tokens[c], a, amount)
  <2>1. /\ ChainSet(c, u) /\ Sound(u) /\ u = burnt(tokens[c], a, amount)
        /\ tokens[c].balances[a] >= amount
    BY <1>1, <1>3, BurnSound DEF Redeem, ChainSet, can_burn
  <2>2. u.balances = [tokens[c].balances EXCEPT ![a] = @ - amount]
    BY <1>1, <2>1 DEF burnt, Sound, Storage
  <2> HIDE DEF u
  <2>3. /\ Balances' = [Balances EXCEPT ![c] = u.balances]
        /\ Balances[c] = tokens[c].balances
        /\ Balances \in [Chains -> [Accounts -> Uint256]]
    BY <2>1, BalancesSet DEF Sound
  <2>4. Balances' = [Balances EXCEPT ![c][a] = @ - amount]
    BY <2>2, <2>3
  <2>5. amount <= Balances[c][a]
    BY <2>1, <2>3, AmountsAssumption, WXRPAssumption DEF Uint256
  <2> QED
    BY <1>1, <2>4, <2>5 DEF Transfers!Redeem
<1> QED
  BY <1>2, <1>3

(* A payment is the ledger's.                                              *)
LEMMA PaysLocal ==
    ASSUME BridgeInv, NEW c \in Chains, NEW from \in Accounts, NEW to \in Accounts,
           NEW amount \in Amounts, Pay(c, from, to, amount)
    PROVE  Transfers!Pay(c, from, to, amount)
<1> DEFINE u == transfer(tokens[c], from, to, amount)
<1>1. Sound(tokens[c]) /\ ChainSet(c, u) /\ Flight' = Flight
  BY FlightIs DEF BridgeInv, Pay, ChainSet
<1>2. /\ Sound(u) /\ u.balances = paid(tokens[c].balances, from, to, amount)
      /\ amount <= tokens[c].balances[from]
  BY <1>1, PaySound DEF Pay
<1> HIDE DEF u
<1>3. /\ Balances' = [Balances EXCEPT ![c] = u.balances]
      /\ Balances[c] = tokens[c].balances
      /\ Balances \in [Chains -> [Accounts -> Uint256]]
  BY <1>1, <1>2, BalancesSet DEF Sound
<1>4. Balances' = [Balances EXCEPT ![c][from] = @ - amount, ![c][to] = @ + amount]
  BY <1>2, <1>3 DEF paid
<1> QED
  BY <1>1, <1>2, <1>3, <1>4 DEF Transfers!Pay

(* Every step of the bridge is one of the ledger, or a stutter.            *)
LEMMA LedgerStep ==
    ASSUME BridgeInv, BridgeInv', [BridgeNext]_vars
    PROVE  [Transfers!Next]_(Transfers!vars)
<1> DEFINE Stutter == Balances' = Balances /\ Flight' = Flight
<1>1. ASSUME NEW c \in Chains, NEW d \in Chains, NEW sender \in Accounts,
             NEW to \in Recipients, NEW amount \in Amounts,
             Send(c, d, sender, to, amount)
      PROVE  Transfers!Next
  BY <1>1, SendDeparts DEF Transfers!Next
<1>2. ASSUME NEW p \in DOMAIN packets, Receive(p) PROVE Transfers!Next
  BY <1>2, ReceiveArrives DEF Transfers!Next
<1>3. ASSUME NEW c \in Chains, NEW a \in Accounts, NEW amount \in Amounts,
             Issue(c, a, amount) \/ Redeem(c, a, amount)
      PROVE  Transfers!Next
  BY <1>3, IssuesLocal DEF Transfers!Next
<1>4. ASSUME NEW c \in Chains, NEW a \in Accounts, NEW to \in Accounts,
             NEW amount \in Amounts, Pay(c, a, to, amount)
      PROVE  Transfers!Next
  BY <1>4, PaysLocal DEF Transfers!Next
<1>5. ASSUME NEW c \in Chains, NEW d \in Chains, SetPeer(c, d) PROVE Stutter
  BY <1>5, FlightIs DEF SetPeer, Balances
<1>6. ASSUME NEW c \in Chains, Freeze(c) \/ SetRoles(c) PROVE Stutter
  <2>1. Balances' = Balances
    BY <1>6, SetChain, BalancesQuiet
  <2>2. packets' = packets
    BY <1>6 DEF Freeze, SetRoles
  <2> QED
    BY <2>1, <2>2, FlightIs
<1>7. CASE UNCHANGED vars
  <2>1. Stutter
    BY <1>7, FlightIs DEF vars, Balances
  <2> QED
    BY <2>1 DEF Transfers!vars
<1>8. Stutter => UNCHANGED Transfers!vars
  BY DEF Transfers!vars
<1> QED
  BY <1>1, <1>2, <1>3, <1>4, <1>5, <1>6, <1>7, <1>8
     DEF BridgeNext, Cross, Holders, Administer, BagToSet

(* The chains and the packets between them are a ledger: a transfer leaves *)
(* once and arrives once, where it was sent.                               *)
THEOREM BridgeIsLedger == BridgeSpec => ImplementsLedger
<1>1. BridgeInit => Transfers!Init
  <2> SUFFICES ASSUME BridgeInit PROVE Transfers!Init
    OBVIOUS
  <2>1. Balances = [c \in Chains |-> [h \in Accounts |-> 0]]
    BY DEF BridgeInit, Balances, initialize
  <2>2. DOMAIN packets = {}
    BY DEF BridgeInit, EmptyBag, SetToBag
  <2>3. Flight = Transfers!EmptyBag
    BY <2>2, FlightIs DEF flightOf, Transfers!EmptyBag, Transfers!SetToBag
  <2> QED
    BY <2>1, <2>3 DEF Transfers!Init
<1>2. BridgeInv /\ BridgeInv' /\ [BridgeNext]_vars => [Transfers!Next]_(Transfers!vars)
  BY LedgerStep
<1> QED
  BY <1>1, <1>2, BridgeStart, BridgeStep, PTL
     DEF BridgeSpec, ImplementsLedger, Transfers!Spec

=============================================================================
