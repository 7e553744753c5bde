--------------------------- MODULE DeploymentProofs ---------------------------
(***************************************************************************)
(* What the deployer's scripts leave behind, for any number of builds and  *)
(* of transactions under way, on a chain with or without small blocks: the *)
(* inductive invariant and the three properties of Deployment.tla.  And    *)
(* that a packet between two chains of Pathways.tla, once the receive      *)
(* config is set, is only verified as deep as the source's CONFIRMATIONS,  *)
(* whoever attests.                                                        *)
(***************************************************************************)
EXTENDS Deployment, Pathways, FiniteSetTheorems, TLAPS

Txs == [call: {"grantRole", "renounceRole"},
        role: Roles \cup {"DEFAULT_ADMIN_ROLE"}, of: Nat]

UnderWay(tx) == \E i \in 1 .. Len(pending) : pending[i] = tx

DeploySteps ==
    {"token blocks", "implementation", "token done", "proxy", "save",
     "adapter blocks", "adapter", "adapter done",
     "minter?", "minter!", "burner?", "burner!"}

TransferSteps ==
    {"signer?", "signer is admin?", "grant owner", "owner granted", "owner?",
     "renounce", "renounced"}

TypeInv ==
    /\ adapter \in Nat /\ build \in Nat \ {0}
    /\ pending \in Seq(Txs)
    /\ holders \in [Roles -> SUBSET Nat]
    /\ big \in BOOLEAN /\ fresh \in BOOLEAN /\ ended \in BOOLEAN
    /\ stranded \in BOOLEAN /\ failed \subseteq Roles /\ left \in BOOLEAN

(* The records are made in order, and what is not on record is not there.  *)
RecordInv ==
    /\ "Proxy" \notin records => admins = {} /\ pending = <<>>
    /\ "WXRPToken" \notin records =>
          adapter = 0 /\ pc \notin {"adapter blocks", "adapter", "adapter done"}
    /\ "WXRPToken" \in records \/ pc = "save" \/ pc \in TransferSteps
          => "Proxy" \in records
    /\ pc \in DeploySteps => ~ended
    /\ ended \/ pc \in {"adapter done", "minter?", "minter!", "burner?", "burner!"}
          => adapter # 0

(* A renouncement is decided on, and sent, only after the owner was seen.  *)
RenounceInv ==
    pc = "renounce" \/ UnderWay(Renounce) => Owner \in admins \/ left

(* A grant the script has dealt with is there, on its way, or was lost.    *)
Settled(role) == adapter \in holders[role] \/ UnderWay(Grant(role)) \/ role \in failed

GrantInv ==
    /\ ended => \A role \in Roles : Settled(role)
    /\ pc \in {"burner?", "burner!"} => Settled("MINTER_ROLE")

(* Left in big blocks with an adapter on record: the run is about to take  *)
(* the signer back, or was cut off just there.                             *)
BlocksInv ==
    /\ big => HyperEvm
    /\ pc = "adapter" => fresh = (adapter = 0)
    /\ big /\ adapter # 0 /\ ~stranded => pc = "adapter done" /\ fresh

IInv == TypeInv /\ RecordInv /\ RenounceInv /\ GrantInv /\ BlocksInv

-----------------------------------------------------------------------------
(* The mempool: what is appended, mined from the front or forgotten from   *)
(* the back.                                                               *)

(* A transaction that is sent joins those under way.                       *)
LEMMA Appended ==
    ASSUME NEW S, NEW s \in Seq(S), NEW x \in S, NEW tx
    PROVE  /\ Append(s, x) \in Seq(S)
           /\ (\E i \in 1 .. Len(Append(s, x)) : Append(s, x)[i] = tx)
                 <=> (\E i \in 1 .. Len(s) : s[i] = tx) \/ x = tx
<1> DEFINE a == Append(s, x)
<1>1. /\ a \in Seq(S) /\ Len(s) \in Nat /\ Len(a) = Len(s) + 1
      /\ a[Len(s) + 1] = x /\ \A i \in 1 .. Len(s) : a[i] = s[i]
  OBVIOUS
<1> HIDE DEF a
<1>2. (\E i \in 1 .. Len(a) : a[i] = tx)
         <=> (\E i \in 1 .. Len(s) : s[i] = tx) \/ x = tx
  BY <1>1
<1> QED
  BY <1>1, <1>2 DEF a

(* The one that is mined was the first of them.                            *)
LEMMA Mined ==
    ASSUME NEW S, NEW s \in Seq(S), s # <<>>, NEW tx
    PROVE  /\ Head(s) \in S /\ Tail(s) \in Seq(S)
           /\ (\E i \in 1 .. Len(s) : s[i] = tx)
                 <=> Head(s) = tx \/ (\E i \in 1 .. Len(Tail(s)) : Tail(s)[i] = tx)
<1> DEFINE t == Tail(s)
<1>1. /\ t \in Seq(S) /\ Len(s) \in Nat \ {0} /\ Len(t) = Len(s) - 1
      /\ Head(s) = s[1] /\ s[1] \in S /\ \A i \in 1 .. Len(t) : t[i] = s[i + 1]
  OBVIOUS
<1> HIDE DEF t
<1>2. ASSUME NEW i \in 1 .. Len(s), s[i] = tx, s[1] # tx
      PROVE  \E j \in 1 .. Len(t) : t[j] = tx
  <2>1. i - 1 \in 1 .. Len(t) /\ t[i - 1] = s[(i - 1) + 1] /\ (i - 1) + 1 = i
    BY <1>1, <1>2
  <2> QED
    BY <1>2, <2>1
<1>3. ASSUME NEW j \in 1 .. Len(t), t[j] = tx
      PROVE  \E i \in 1 .. Len(s) : s[i] = tx
  <2>1. j + 1 \in 1 .. Len(s)
    BY <1>1
  <2> QED
    BY <1>1, <1>3, <2>1
<1>4. 1 \in 1 .. Len(s)
  BY <1>1
<1> QED
  BY <1>1, <1>2, <1>3, <1>4 DEF t

(* One that is dropped was the last of them.                               *)
LEMMA Forgotten ==
    ASSUME NEW S, NEW s \in Seq(S), s # <<>>, NEW tx
    PROVE  /\ s[Len(s)] \in S /\ SubSeq(s, 1, Len(s) - 1) \in Seq(S)
           /\ (\E i \in 1 .. Len(s) : s[i] = tx)
                 <=> \/ s[Len(s)] = tx
                     \/ \E i \in 1 .. Len(SubSeq(s, 1, Len(s) - 1)) :
                           SubSeq(s, 1, Len(s) - 1)[i] = tx
<1> DEFINE f == SubSeq(s, 1, Len(s) - 1)
<1>0. /\ Len(s) \in Nat \ {0} /\ s \in [1 .. Len(s) -> S]
      /\ f = [i \in 1 .. Len(s) - 1 |-> s[i]]
  BY DEF SubSeq
<1>1. /\ f \in Seq(S) /\ Len(s) \in Nat \ {0} /\ Len(f) = Len(s) - 1
      /\ s[Len(s)] \in S /\ \A i \in 1 .. Len(f) : f[i] = s[i]
  BY <1>0
<1> HIDE DEF f
<1>2. \A i \in 1 .. Len(s) : i \in 1 .. Len(f) \/ i = Len(s)
  BY <1>1
<1>3. Len(s) \in 1 .. Len(s) /\ 1 .. Len(f) \subseteq 1 .. Len(s)
  BY <1>1
<1>4. (\E i \in 1 .. Len(s) : s[i] = tx)
         <=> s[Len(s)] = tx \/ (\E i \in 1 .. Len(f) : f[i] = tx)
  BY <1>1, <1>2, <1>3
<1> QED
  BY <1>1, <1>4 DEF f
-----------------------------------------------------------------------------
(* Nothing is built, recorded or under way at first.                       *)
LEMMA IInvInit == Init => IInv
<1> SUFFICES ASSUME Init PROVE IInv
  OBVIOUS
<1>1. TypeInv
  <2>1. <<>> \in Seq(Txs)
    OBVIOUS
  <2>2. [r \in Roles |-> {}] \in [Roles -> SUBSET Nat]
    OBVIOUS
  <2>3. pending \in Seq(Txs) /\ holders \in [Roles -> SUBSET Nat]
    BY <2>1, <2>2 DEF Init
  <2>4. adapter \in Nat /\ build \in Nat \ {0}
    BY DEF Init
  <2>5. /\ big \in BOOLEAN /\ fresh \in BOOLEAN /\ ended \in BOOLEAN
        /\ stranded \in BOOLEAN /\ failed \subseteq Roles /\ left \in BOOLEAN
    BY DEF Init
  <2> QED
    BY <2>3, <2>4, <2>5 DEF TypeInv
<1>2. RecordInv /\ BlocksInv
  BY DEF Init, RecordInv, TransferSteps, BlocksInv, Idle, DeploySteps
<1>3. RenounceInv /\ GrantInv
  BY DEF Init, RenounceInv, GrantInv, UnderWay, Idle
<1> QED
  BY <1>1, <1>2, <1>3 DEF IInv

(* The steps of deployToken and deployMaba: no transaction, no grant.      *)
LEMMA RecordStep ==
    ASSUME IInv,
           \/ ProxyAdmin \/ TokenBlocks \/ Implementation \/ TokenDone \/ Proxy
           \/ Save \/ AdapterBlocks \/ Adapter \/ AdapterDone
    PROVE  IInv'
<1> USE DEF IInv, files, chain, mempool, Step, Idle, DeploySteps
<1>1. CASE ProxyAdmin
  <2>1. TypeInv' /\ RecordInv' /\ BlocksInv'
    BY <1>1 DEF ProxyAdmin, TypeInv, RecordInv, TransferSteps, BlocksInv
  <2>2. RenounceInv' /\ GrantInv'
    BY <1>1 DEF ProxyAdmin, RenounceInv, GrantInv, UnderWay
  <2> QED
    BY <2>1, <2>2
<1>2. CASE TokenBlocks
  <2>1. TypeInv' /\ RecordInv' /\ BlocksInv'
    BY <1>2, DeploymentAssumption
    DEF TokenBlocks, TypeInv, RecordInv, TransferSteps, BlocksInv, token_is_new, history
  <2>2. RenounceInv' /\ GrantInv'
    BY <1>2 DEF TokenBlocks, RecordInv, TransferSteps, RenounceInv, GrantInv, UnderWay, history
  <2> QED
    BY <2>1, <2>2
<1>3. CASE Implementation
  <2>1. TypeInv' /\ RecordInv' /\ BlocksInv'
    BY <1>3 DEF Implementation, TypeInv, RecordInv, TransferSteps, BlocksInv, history
  <2>2. RenounceInv' /\ GrantInv'
    BY <1>3 DEF Implementation, RecordInv, TransferSteps, RenounceInv, GrantInv, UnderWay, history
  <2> QED
    BY <2>1, <2>2
<1>4. CASE TokenDone
  <2>1. TypeInv' /\ RecordInv' /\ BlocksInv'
    BY <1>4 DEF TokenDone, TypeInv, RecordInv, TransferSteps, BlocksInv, history
  <2>2. RenounceInv' /\ GrantInv'
    BY <1>4 DEF TokenDone, RecordInv, TransferSteps, RenounceInv, GrantInv, UnderWay, history
  <2> QED
    BY <2>1, <2>2
<1>5. CASE Proxy
  <2>1. TypeInv' /\ RecordInv' /\ BlocksInv'
    BY <1>5 DEF Proxy, TypeInv, RecordInv, TransferSteps, BlocksInv, history
  <2>2. GrantInv'
    BY <1>5 DEF Proxy, RecordInv, TransferSteps, GrantInv, history
  <2>3. CASE "Proxy" \in records
    BY <1>5, <2>1, <2>2, <2>3 DEF Proxy, RenounceInv, UnderWay, history
  <2>4. CASE "Proxy" \notin records
    <3>1. pending' = <<>> /\ pc' = "save"
      BY <1>5, <2>4 DEF Proxy, RecordInv, TransferSteps
    <3> QED
      BY <2>1, <2>2, <3>1 DEF RenounceInv, UnderWay
  <2> QED
    BY <2>3, <2>4
<1>6. CASE Save
  <2>1. TypeInv' /\ RecordInv' /\ BlocksInv'
    BY <1>6 DEF Save, TypeInv, RecordInv, TransferSteps, BlocksInv, history
  <2>2. RenounceInv' /\ GrantInv'
    BY <1>6 DEF Save, RecordInv, TransferSteps, RenounceInv, GrantInv, UnderWay, history
  <2> QED
    BY <2>1, <2>2
<1>7. CASE AdapterBlocks
  <2>1. TypeInv' /\ RecordInv' /\ BlocksInv'
    BY <1>7, DeploymentAssumption
    DEF AdapterBlocks, TypeInv, RecordInv, TransferSteps, BlocksInv, history
  <2>2. RenounceInv' /\ GrantInv'
    BY <1>7 DEF AdapterBlocks, RecordInv, TransferSteps, RenounceInv, GrantInv, UnderWay, history
  <2> QED
    BY <2>1, <2>2
<1>8. CASE Adapter
  <2>1. TypeInv' /\ RecordInv' /\ BlocksInv'
    BY <1>8 DEF Adapter, TypeInv, RecordInv, TransferSteps, BlocksInv, history
  <2>2. RenounceInv' /\ GrantInv'
    BY <1>8 DEF Adapter, RecordInv, TransferSteps, RenounceInv, GrantInv, UnderWay, history
  <2> QED
    BY <2>1, <2>2
<1>9. CASE AdapterDone
  <2>1. TypeInv' /\ RecordInv' /\ BlocksInv'
    BY <1>9 DEF AdapterDone, TypeInv, RecordInv, TransferSteps, BlocksInv, history
  <2>2. RenounceInv' /\ GrantInv'
    BY <1>9 DEF AdapterDone, RecordInv, TransferSteps, RenounceInv, GrantInv, UnderWay, history
  <2> QED
    BY <2>1, <2>2
<1> QED
  BY <1>1, <1>2, <1>3, <1>4, <1>5, <1>6, <1>7, <1>8, <1>9

(* A transaction of the script's is appended to those under way.           *)
LEMMA SubmitKeeps ==
    ASSUME NEW tx \in Txs, Submit(tx), TypeInv
    PROVE  /\ pending' \in Seq(Txs)
           /\ \A t : UnderWay(t)' <=> UnderWay(t) \/ tx = t
BY Appended DEF Submit, TypeInv, UnderWay

(* grantRoles asks for a role and sends the grant that is missing.         *)
LEMMA GrantStep ==
    ASSUME IInv, grantRoles
    PROVE  IInv'
<1> USE DEF IInv, files, chain, mempool, Step, Idle, DeploySteps, Roles
<1>1. ASSUME NEW role \in Roles, NEW here, NEW send, NEW next,
             HasRole(role, here, send, next),
             \/ role = "MINTER_ROLE" /\ here = "minter?" /\ send = "minter!" /\ next = "burner?"
             \/ role = "BURNER_ROLE" /\ here = "burner?" /\ send = "burner!" /\ next = "idle"
      PROVE  IInv'
  <2>1. TypeInv' /\ RecordInv' /\ BlocksInv'
    BY <1>1 DEF HasRole, TypeInv, RecordInv, TransferSteps, BlocksInv
  <2>2. RenounceInv'
    BY <1>1 DEF HasRole, RecordInv, TransferSteps, RenounceInv, UnderWay
  <2>3. \A r \in Roles : Settled(r)' <=> Settled(r)
    BY <1>1 DEF HasRole, Settled, UnderWay, Grant
  <2>4. granted(role) => Settled(role)
    BY DEF granted, Settled
  <2>5. GrantInv'
    BY <1>1, <2>3, <2>4 DEF HasRole, GrantInv
  <2> QED
    BY <2>1, <2>2, <2>5
<1>2. ASSUME NEW role \in Roles, NEW send, NEW next, GrantRole(role, send, next),
             \/ role = "MINTER_ROLE" /\ send = "minter!" /\ next = "burner?"
             \/ role = "BURNER_ROLE" /\ send = "burner!" /\ next = "idle"
      PROVE  IInv'
  <2>1. Grant(role) \in Txs /\ Grant(role) # Renounce
    BY DEF TypeInv, Grant, Renounce, Txs
  <2>2. /\ pending' \in Seq(Txs)
        /\ \A t : UnderWay(t)' <=> UnderWay(t) \/ Grant(role) = t
    BY <1>2, <2>1, SubmitKeeps DEF GrantRole
  <2>3. TypeInv' /\ BlocksInv'
    BY <1>2, <2>2 DEF GrantRole, TypeInv, BlocksInv
  <2>4. RecordInv'
    BY <1>2 DEF GrantRole, Submit, Grant, RecordInv, TransferSteps
  <2>5. RenounceInv'
    BY <1>2, <2>1, <2>2 DEF GrantRole, RenounceInv
  <2>6. /\ \A r \in Roles : Settled(r) => Settled(r)'
        /\ Settled(role)'
    BY <1>2, <2>2 DEF GrantRole, Settled, Grant
  <2>7. GrantInv'
    BY <1>2, <2>6 DEF GrantRole, GrantInv
  <2> QED
    BY <2>3, <2>4, <2>5, <2>7
<1> QED
  BY <1>1, <1>2 DEF grantRoles

(* The steps of transfer-erc20-admin.                                      *)
LEMMA TransferStep ==
    ASSUME IInv, TransferAdmin
    PROVE  IInv'
<1> USE DEF IInv, files, chain, mempool, Step, Idle, DeploySteps
<1> DEFINE steps == {"idle", "signer?", "signer is admin?", "grant owner",
                     "owner granted", "owner?", "renounced"}
<1>1. ASSUME NEW from \in steps, NEW to \in steps, Read(from, to),
             from = "idle" => "WXRPToken" \in records
      PROVE  IInv'
  <2>1. TypeInv' /\ RecordInv' /\ BlocksInv'
    BY <1>1 DEF Read, TransferSteps, TypeInv, RecordInv, BlocksInv, history
  <2>2. RenounceInv'
    BY <1>1 DEF Read, RenounceInv, UnderWay, history
  <2>3. GrantInv'
    BY <1>1 DEF Read, GrantInv, Settled, UnderWay, Grant, history
  <2> QED
    BY <2>1, <2>2, <2>3
<1>2. ASSUME NEW tx, NEW from, NEW to \in steps, Step(from, to), Submit(tx),
             \/ tx = GrantOwner /\ from = "grant owner"
             \/ tx = Renounce /\ from = "renounce",
             UNCHANGED <<files, big, chain, fresh, history>>
      PROVE  IInv'
  <2>1. /\ tx \in Txs /\ GrantOwner # Renounce
        /\ \A role \in Roles : Grant(role) # tx
    <3>1. GrantOwner \in Txs /\ Renounce \in Txs
      BY DEF GrantOwner, Renounce, Txs
    <3>2. GrantOwner.call # Renounce.call
      BY DEF GrantOwner, Renounce
    <3>3. GrantOwner.role \notin Roles /\ Renounce.role \notin Roles
      BY DEF GrantOwner, Renounce, Roles
    <3>4. \A role : Grant(role).role = role
      BY DEF Grant
    <3> QED
      BY <1>2, <3>1, <3>2, <3>3, <3>4
  <2>2. /\ pending' \in Seq(Txs)
        /\ \A t : UnderWay(t)' <=> UnderWay(t) \/ tx = t
    BY <1>2, <2>1, SubmitKeeps
  <2>3. TypeInv' /\ BlocksInv'
    BY <1>2, <2>2 DEF TypeInv, BlocksInv, history
  <2>4. RecordInv'
    BY <1>2 DEF RecordInv, TransferSteps, history
  <2>5. RenounceInv'
    BY <1>2, <2>1, <2>2 DEF RenounceInv, history
  <2>6. GrantInv'
    BY <1>2, <2>1, <2>2 DEF GrantInv, Settled, Grant, history
  <2> QED
    BY <2>3, <2>4, <2>5, <2>6
<1>3. ASSUME may_renounce, Step("owner?", "renounce"), left' = FALSE,
             UNCHANGED <<files, big, chain, mempool, fresh, stranded, ended, failed>>
      PROVE  IInv'
  <2>1. TypeInv' /\ RecordInv' /\ BlocksInv'
    BY <1>3 DEF TypeInv, RecordInv, TransferSteps, BlocksInv, TransferSteps
  <2>2. RenounceInv'
    BY <1>3 DEF RenounceInv, may_renounce, owner_is_admin
  <2>3. GrantInv'
    BY <1>3 DEF GrantInv, Settled, UnderWay, Grant
  <2> QED
    BY <2>1, <2>2, <2>3
<1>4. CASE grantIntendedOwner
  <2>1. \/ \E from, to \in steps :
              Read(from, to) /\ (from = "idle" => "WXRPToken" \in records)
        \/ /\ Step("grant owner", "owner granted") /\ Submit(GrantOwner)
           /\ UNCHANGED <<files, big, chain, fresh, history>>
    BY <1>4 DEF grantIntendedOwner, Await
  <2> QED
    BY <1>1, <1>2, <2>1
<1>5. CASE renounceSigner
  <2>1. \/ \E from, to \in steps :
              Read(from, to) /\ (from = "idle" => "WXRPToken" \in records)
        \/ /\ may_renounce /\ Step("owner?", "renounce") /\ left' = FALSE
           /\ UNCHANGED <<files, big, chain, mempool, fresh, stranded, ended, failed>>
        \/ /\ Step("renounce", "renounced") /\ Submit(Renounce)
           /\ UNCHANGED <<files, big, chain, fresh, history>>
    BY <1>5 DEF renounceSigner, Await
  <2> QED
    BY <1>1, <1>2, <1>3, <2>1
<1> QED
  BY <1>4, <1>5 DEF TransferAdmin

(* The world around the scripts.                                           *)
LEMMA QuietStep ==
    ASSUME IInv, Cut \/ Rebuild \/ OwnerActs
    PROVE  IInv'
<1> USE DEF IInv, files, chain, mempool, local, Idle, DeploySteps
<1>1. CASE Cut
  <2>1. TypeInv' /\ RecordInv' /\ BlocksInv'
    BY <1>1 DEF Cut, TypeInv, RecordInv, TransferSteps, BlocksInv
  <2>2. RenounceInv'
    BY <1>1 DEF Cut, RenounceInv, UnderWay
  <2>3. GrantInv'
    BY <1>1 DEF Cut, GrantInv, Settled, UnderWay, Grant
  <2> QED
    BY <2>1, <2>2, <2>3
<1>2. CASE Rebuild
  <2>1. TypeInv' /\ RecordInv' /\ BlocksInv'
    BY <1>2 DEF Rebuild, TypeInv, RecordInv, TransferSteps, BlocksInv, history
  <2>2. RenounceInv'
    BY <1>2 DEF Rebuild, RenounceInv, UnderWay, history
  <2>3. GrantInv'
    BY <1>2 DEF Rebuild, GrantInv, Settled, UnderWay, Grant, history
  <2> QED
    BY <2>1, <2>2, <2>3
<1>3. CASE OwnerActs
  <2>1. TypeInv' /\ RecordInv' /\ BlocksInv'
    BY <1>3 DEF OwnerActs, TypeInv, RecordInv, TransferSteps, BlocksInv
  <2>2. RenounceInv'
    BY <1>3, DeploymentAssumption DEF OwnerActs, RenounceInv, UnderWay
  <2>3. GrantInv'
    BY <1>3 DEF OwnerActs, GrantInv, Settled, UnderWay, Grant
  <2> QED
    BY <2>1, <2>2, <2>3
<1> QED
  BY <1>1, <1>2, <1>3

(* Mining: the front of the queue takes effect, or reverts.                *)
LEMMA MineStep ==
    ASSUME IInv, Mine
    PROVE  IInv'
<1>0. /\ Head(pending) \in Txs /\ Tail(pending) \in Seq(Txs)
      /\ \A t : (\E i \in 1 .. Len(pending) : pending[i] = t)
                 <=> \/ Head(pending) = t
                     \/ \E i \in 1 .. Len(Tail(pending)) : Tail(pending)[i] = t
  <2>1. pending # <<>> /\ pending \in Seq(Txs)
    BY DEF IInv, TypeInv, Mine
  <2> HIDE DEF IInv
  <2> QED
    BY <2>1, Mined
<1> DEFINE tx == Head(pending)
           reverts == tx.call = "grantRole" /\ Signer \notin admins
<1>1. /\ pending # <<>> /\ pending' = Tail(pending)
      /\ admins' = CASE reverts -> admins
                     [] tx = GrantOwner -> admins \cup {Owner}
                     [] tx = Renounce -> admins \ {Signer}
                     [] OTHER -> admins
      /\ holders' = IF reverts \/ tx.role \notin Roles THEN holders
                    ELSE [holders EXCEPT ![tx.role] = @ \cup {tx.of}]
      /\ failed' = failed \cup (IF reverts THEN lost(tx) ELSE {})
      /\ UNCHANGED <<files, big, local, stranded, ended, left>>
  BY DEF Mine
<1>3. /\ tx \in Txs /\ pending' \in Seq(Txs)
      /\ \A t : UnderWay(t) <=> tx = t \/ UnderWay(t)'
  BY <1>0, <1>1 DEF UnderWay
<1>4. tx.of \in Nat
  BY <1>3 DEF Txs
<1> HIDE DEF tx, reverts
<1>5. Owner \in admins => Owner \in admins'
  BY <1>1, DeploymentAssumption
<1>6. \A role \in Roles : holders[role] \subseteq holders'[role]
  BY <1>1 DEF IInv, TypeInv
<1>7. \A role \in Roles :
         tx = Grant(role) => adapter \in holders'[role] \/ role \in failed'
  <2>1. \A role : Grant(role).role = role /\ Grant(role).of = adapter
    BY DEF Grant
  <2> QED
    BY <1>1, <2>1 DEF IInv, TypeInv, lost
<1>8. TypeInv'
  <2>1. holders' \in [Roles -> SUBSET Nat]
    BY <1>1, <1>4 DEF IInv, TypeInv
  <2>2. failed' \subseteq Roles
    BY <1>1 DEF IInv, TypeInv, lost
  <2> QED
    BY <1>1, <1>3, <2>1, <2>2 DEF IInv, TypeInv, files, local
<1>9. RecordInv' /\ BlocksInv'
  BY <1>1 DEF IInv, RecordInv, TransferSteps, BlocksInv, files, local
<1>10. RenounceInv'
  BY <1>1, <1>3, <1>5 DEF IInv, RenounceInv, local
<1>11. \A role \in Roles : Settled(role) => Settled(role)'
  BY <1>1, <1>3, <1>6, <1>7 DEF Settled, Grant, files
<1>12. GrantInv'
  BY <1>1, <1>11 DEF IInv, GrantInv, local, Roles
<1> QED
  BY <1>8, <1>9, <1>10, <1>12 DEF IInv

(* Forgetting: what was sent last is gone, and counts as lost.             *)
LEMMA ForgetStep ==
    ASSUME IInv, Forget
    PROVE  IInv'
<1> DEFINE tx == pending[Len(pending)]
<1>1. /\ pending # <<>> /\ pending' = SubSeq(pending, 1, Len(pending) - 1)
      /\ failed' = failed \cup lost(tx)
      /\ UNCHANGED <<files, big, chain, local, stranded, ended, left>>
  BY DEF Forget
<1>2. pending \in Seq(Txs)
  BY DEF IInv, TypeInv
<1>3. /\ tx \in Txs /\ pending' \in Seq(Txs)
      /\ \A t : UnderWay(t) <=> tx = t \/ UnderWay(t)'
  BY <1>1, <1>2, Forgotten DEF UnderWay
<1> HIDE DEF tx
<1>4. \A role \in Roles : tx = Grant(role) => role \in failed'
  <2>1. \A role : Grant(role).role = role /\ Grant(role).of = adapter
    BY DEF Grant
  <2> QED
    BY <1>1, <2>1 DEF lost
<1>5. TypeInv'
  <2>1. failed' \subseteq Roles
    BY <1>1 DEF IInv, TypeInv, lost
  <2> QED
    BY <1>1, <1>3, <2>1 DEF IInv, TypeInv, files, chain, local
<1>6. RecordInv' /\ BlocksInv'
  <2>1. pending = <<>> => pending' = <<>>
    BY <1>1
  <2> QED
    BY <1>1, <2>1 DEF IInv, RecordInv, TransferSteps, BlocksInv, files, chain, local
<1>7. RenounceInv'
  BY <1>1, <1>3 DEF IInv, RenounceInv, chain, local
<1>8. \A role \in Roles : Settled(role) => Settled(role)'
  BY <1>1, <1>3, <1>4 DEF Settled, Grant, files, chain
<1>9. GrantInv'
  BY <1>1, <1>8 DEF IInv, GrantInv, local, Roles
<1> QED
  BY <1>5, <1>6, <1>7, <1>9 DEF IInv

(* One step per task of the scripts, and the chain's own.                  *)
LEMMA IInvNext == IInv /\ [Next]_vars => IInv'
<1> SUFFICES ASSUME IInv, [Next]_vars PROVE IInv'
  OBVIOUS
<1>1. CASE Deploy
  BY <1>1, RecordStep, GrantStep DEF Deploy
<1>2. CASE TransferAdmin
  BY <1>2, TransferStep
<1>3. CASE Cut \/ Rebuild \/ OwnerActs
  BY <1>3, QuietStep
<1>4. CASE Mine
  BY <1>4, MineStep
<1>5. CASE Forget
  BY <1>5, ForgetStep
<1>6. CASE UNCHANGED vars
  <2>1. \A t : UnderWay(t)' <=> UnderWay(t)
    BY <1>6 DEF vars, mempool, UnderWay
  <2>2. TypeInv' /\ RecordInv' /\ BlocksInv'
    BY <1>6 DEF IInv, TypeInv, RecordInv, TransferSteps, BlocksInv, vars, files, chain, mempool, local, history
  <2>3. RenounceInv'
    BY <1>6, <2>1 DEF IInv, RenounceInv, vars, chain, local, history
  <2>4. GrantInv'
    BY <1>6, <2>1 DEF IInv, GrantInv, Settled, Grant, vars, files, chain, local, history
  <2> QED
    BY <2>2, <2>3, <2>4 DEF IInv
<1> QED
  BY <1>1, <1>2, <1>3, <1>4, <1>5, <1>6 DEF Next

(* In every state the scripts reach.                                       *)
LEMMA IInvAlways == Spec => []IInv
BY IInvInit, IInvNext, PTL DEF Spec

-----------------------------------------------------------------------------
(* grantRoles sends its grants and does not wait for them: however runs    *)
(* are cut off, repeated and followed by a new build, the recorded adapter *)
(* has both roles once a deployment has ended well and nothing is under    *)
(* way, but for a role whose last grant was lost.                          *)
THEOREM RolesAlwaysInPlace == Spec => []RolesInPlace
<1>1. IInv => RolesInPlace
  <2> SUFFICES ASSUME IInv, ended, pending = <<>>, NEW role \in Roles \ failed
               PROVE  adapter \in holders[role]
    BY DEF RolesInPlace
  <2>1. ~UnderWay(Grant(role))
    BY DEF UnderWay
  <2> QED
    BY <2>1 DEF IInv, GrantInv, Settled
<1> QED
  BY <1>1, IInvAlways, PTL

(* deploy takes the signer back to small blocks, however often runs were   *)
(* cut off, but for the one step between the adapter's record and the      *)
(* switch.                                                                 *)
THEOREM SmallInTheEnd == Spec => []SmallAgain
<1>1. IInv => SmallAgain
  BY DEF IInv, RecordInv, TransferSteps, BlocksInv, SmallAgain, DeploySteps
<1> QED
  BY <1>1, IInvAlways, PTL

(* transfer-erc20-admin reads the owner's role before the prompt and       *)
(* renounces after it, perhaps much after: with any number of transactions *)
(* under way, only the owner's own departure in between leaves the token   *)
(* without an administrator.                                               *)
THEOREM TokenNeverOrphaned == Spec => NeverOrphaned
<1> DEFINE P == admins # {} /\ admins' = {} => left \/ left'
<1>1. IInv /\ Next => P
  <2> SUFFICES ASSUME IInv, Next, admins # {}, admins' = {} PROVE left \/ left'
    OBVIOUS
  <2>1. CASE Deploy \/ TransferAdmin \/ Cut \/ Rebuild \/ Forget
    <3>1. admins' = admins \/ admins' = {Signer}
      BY <2>1
      DEF Deploy, ProxyAdmin, TokenBlocks, Implementation, TokenDone, Proxy, Save,
          AdapterBlocks, Adapter, AdapterDone, grantRoles, HasRole, GrantRole,
          TransferAdmin, grantIntendedOwner, renounceSigner, Await, Read, Cut,
          Rebuild, Forget, chain
    <3> QED
      BY <3>1
  <2>2. CASE OwnerActs
    BY <2>2, DeploymentAssumption DEF OwnerActs
  <2>3. CASE Mine
    <3>1. Owner \notin admins /\ Head(pending) = Renounce /\ pending # <<>>
      BY <2>3, DeploymentAssumption DEF Mine
    <3>2. UnderWay(Renounce)
      BY <3>1, Mined DEF IInv, TypeInv, UnderWay
    <3> QED
      BY <3>1, <3>2 DEF IInv, RenounceInv
  <2> QED
    BY <2>1, <2>2, <2>3 DEF Next
<1>2. IInv /\ [Next]_vars => [P]_vars
  BY <1>1
<1> QED
  BY <1>2, IInvAlways, PTL DEF Spec, NeverOrphaned

-----------------------------------------------------------------------------
(* The pathways.                                                           *)

(* No working DVN has spoken of more blocks than there were.               *)
QuorumInv ==
    packet.status = "not sent"
    \/ /\ packet.status \in {"sent", "verified"}
       /\ packet.src \in Chains /\ packet.dst \in Chains
       /\ packet.wait \in Nat /\ packet.depth \in Nat
       /\ packet.attested \in [Dvns -> Nat]
       /\ \A d \in Dvns : d.operator \notin Faulty => packet.attested[d] <= packet.depth

-----------------------------------------------------------------------------
(* Of any set of DVNs at one chain that reaches the threshold, one is run  *)
(* by an operator that is not faulty.                                      *)
LEMMA Quorum ==
    ASSUME NEW c \in Chains, NEW heard \in SUBSET getOptionalDVNs(c),
           Cardinality(heard) >= OPTIONAL_DVNS_THRESHOLD
    PROVE  \E d \in heard : d.operator \notin Faulty
<1> SUFFICES ASSUME \A d \in heard : d.operator \in Faulty PROVE FALSE
  OBVIOUS
<1> DEFINE F == {o \in Faulty : c \in OPTIONAL_DVNS[o]}
           f == [o \in F |-> Dvn(o, c)]
           T == {f[o] : o \in F}
<1>1. IsFiniteSet(F) /\ Cardinality(F) \in Nat
  BY PathwaysAssumption, FS_Subset, FS_CardinalityType
<1>2. IsFiniteSet(T) /\ Cardinality(T) <= Cardinality(F)
  <2>1. f \in Surjection(F, T)
    BY DEF Surjection
  <2> QED
    BY <1>1, <2>1, FS_Surjection
<1>3. heard \subseteq T
  BY DEF getOptionalDVNs, Dvn
<1>4. Cardinality(heard) <= Cardinality(T)
  BY <1>2, <1>3, FS_Subset
<1>5. Cardinality(F) < OPTIONAL_DVNS_THRESHOLD
  BY PathwaysAssumption
<1>6. Cardinality(heard) \in Nat /\ Cardinality(T) \in Nat
  BY <1>2, <1>3, FS_Subset, FS_CardinalityType
<1> QED
  BY <1>1, <1>2, <1>4, <1>5, <1>6, PathwaysAssumption

(* The same of the one default DVN.                                        *)
LEMMA DefaultQuorum ==
    ASSUME NEW dvn, NEW heard \in SUBSET {dvn}, Cardinality(heard) >= 1
    PROVE  dvn \in heard
<1>1. heard # {}
  BY FS_EmptySet
<1> QED
  BY <1>1

(* No packet is sent at first.                                             *)
LEMMA QuorumInvInit == PathwaysInit => QuorumInv
<1>1. NotSent.status = "not sent"
  BY DEF NotSent
<1>2. PathwaysInit => packet.status = "not sent"
  BY <1>1 DEF PathwaysInit
<1> QED
  BY <1>2 DEF QuorumInv

(* A packet is sent with some blocks to wait for and no word of any.       *)
LEMMA SendStep ==
    ASSUME NEW src \in Chains, NEW dst \in Chains, Send(src, dst)
    PROVE  QuorumInv'
<1>1. /\ packet'.status = "sent" /\ packet'.src = src /\ packet'.dst = dst
      /\ packet'.depth = 0 /\ packet'.attested = [d \in Dvns |-> 0]
  BY DEF Send, Sent
<1>2. packet'.wait \in {CONFIRMATIONS[src], DefaultConfirmations[src]}
  BY DEF Send, Sent, sendConfig, defaultConfig, Uln
<1> QED
  BY <1>1, <1>2, PathwaysAssumption DEF QuorumInv

(* A working DVN speaks of a depth the packet has already reached.         *)
LEMMA AttestStep ==
    ASSUME QuorumInv, NEW operator \in Operators,
           Attest(operator) \/ AttestFalsely(operator)
    PROVE  QuorumInv' /\ packet'.status = packet.status
<1> DEFINE dvn == Dvn(operator, packet.dst)
<1>1. /\ packet.status = "sent"
      /\ packet.src \in Chains /\ packet.dst \in Chains
      /\ packet.wait \in Nat /\ packet.depth \in Nat
      /\ packet.attested \in [Dvns -> Nat]
      /\ \A d \in Dvns : d.operator \notin Faulty => packet.attested[d] <= packet.depth
  BY DEF QuorumInv, Attest, AttestFalsely
<1>2. PICK blocks \in Nat :
         /\ packet' = [packet EXCEPT !.attested[dvn] = blocks]
         /\ operator \in Faulty \/ blocks <= packet.depth
  <2>1. CASE Attest(operator)
    BY <1>1, <2>1 DEF Attest
  <2>2. CASE AttestFalsely(operator)
    BY <1>1, <2>2, PathwaysAssumption DEF AttestFalsely
  <2> QED
    BY <2>1, <2>2
<1>3. dvn \in Dvns /\ dvn.operator = operator
  BY <1>1 DEF Dvns, Dvn
<1> HIDE DEF dvn
<1>4. /\ packet'.src = packet.src /\ packet'.dst = packet.dst
      /\ packet'.wait = packet.wait /\ packet'.depth = packet.depth
      /\ packet'.status = packet.status
      /\ packet'.attested = [packet.attested EXCEPT ![dvn] = blocks]
  BY <1>2
<1>5. packet'.attested \in [Dvns -> Nat]
  BY <1>1, <1>3, <1>4
<1>6. \A d \in Dvns : d.operator \notin Faulty => packet'.attested[d] <= packet.depth
  BY <1>1, <1>2, <1>3, <1>4
<1> QED
  BY <1>1, <1>4, <1>5, <1>6 DEF QuorumInv

(* What is verified was attested to by an honest member of the quorum, and *)
(* is as deep as it said.                                                  *)
LEMMA VerifyStep ==
    ASSUME QuorumInv, Verify
    PROVE  /\ QuorumInv'
           /\ IF receive_set[<<packet.dst, packet.src>>]
                THEN packet.depth >= CONFIRMATIONS[packet.src]
                ELSE \/ packet.depth >= DefaultConfirmations[packet.src]
                     \/ DefaultOperator \in Faulty
<1> DEFINE set == receive_set[<<packet.dst, packet.src>>]
           uln == IF set THEN receiveConfig(packet.dst, packet.src)
                  ELSE defaultConfig(packet.dst, packet.src)
           heard == {d \in uln.dvns : packet.attested[d] >= uln.confirmations}
<1>1. /\ packet.status = "sent" /\ Cardinality(heard) >= uln.threshold
      /\ packet' = [packet EXCEPT !.status = "verified"]
  BY DEF Verify
<1>2. /\ packet.src \in Chains /\ packet.dst \in Chains
      /\ packet.wait \in Nat /\ packet.depth \in Nat
      /\ packet.attested \in [Dvns -> Nat]
      /\ \A d \in Dvns : d.operator \notin Faulty => packet.attested[d] <= packet.depth
  BY <1>1 DEF QuorumInv
<1>3. ASSUME NEW d \in heard, d \in Dvns, d.operator \notin Faulty,
             uln.confirmations \in Nat
      PROVE  packet.depth >= uln.confirmations
  <2>1. packet.attested[d] >= uln.confirmations
    OBVIOUS
  <2>2. packet.attested[d] <= packet.depth /\ packet.attested[d] \in Nat
    BY <1>2, <1>3
  <2> QED
    BY <1>2, <1>3, <2>1, <2>2
<1>4. ASSUME set PROVE packet.depth >= CONFIRMATIONS[packet.src]
  <2>1. /\ uln.dvns = getOptionalDVNs(packet.dst)
        /\ uln.threshold = OPTIONAL_DVNS_THRESHOLD
        /\ uln.confirmations = CONFIRMATIONS[packet.src]
    BY <1>4 DEF receiveConfig, Uln
  <2>2. \E d \in heard : d.operator \notin Faulty
    BY <1>1, <1>2, <2>1, Quorum
  <2>3. getOptionalDVNs(packet.dst) \subseteq Dvns
    BY <1>2 DEF getOptionalDVNs, Dvns, Dvn
  <2>4. CONFIRMATIONS[packet.src] \in Nat
    BY <1>2, PathwaysAssumption
  <2> QED
    BY <1>3, <2>1, <2>2, <2>3, <2>4
<1>5. ASSUME ~set, DefaultOperator \notin Faulty
      PROVE  packet.depth >= DefaultConfirmations[packet.src]
  <2> DEFINE dvn == Dvn(DefaultOperator, packet.dst)
  <2>1. /\ uln.dvns = {dvn} /\ uln.threshold = 1
        /\ uln.confirmations = DefaultConfirmations[packet.src]
    BY <1>5 DEF defaultConfig, Uln
  <2>2. dvn \in heard
    BY <1>1, <2>1, DefaultQuorum
  <2>3. dvn \in Dvns /\ dvn.operator \notin Faulty
    BY <1>2, <1>5, PathwaysAssumption DEF Dvns, Dvn
  <2>4. DefaultConfirmations[packet.src] \in Nat
    BY <1>2, PathwaysAssumption
  <2> QED
    BY <1>3, <2>1, <2>2, <2>3, <2>4
<1>6. /\ packet'.src = packet.src /\ packet'.dst = packet.dst
      /\ packet'.wait = packet.wait /\ packet'.depth = packet.depth
      /\ packet'.attested = packet.attested /\ packet'.status = "verified"
  BY <1>1
<1>7. QuorumInv'
  BY <1>2, <1>6 DEF QuorumInv
<1> QED
  BY <1>4, <1>5, <1>7

(* One step per action.                                                    *)
LEMMA QuorumInvNext == QuorumInv /\ [PathwaysNext]_pathway => QuorumInv'
<1> SUFFICES ASSUME QuorumInv, [PathwaysNext]_pathway PROVE QuorumInv'
  OBVIOUS
<1>1. ASSUME NEW p \in Pairs, Wire(p[1], p[2]) \/ Send(p[1], p[2])
      PROVE  QuorumInv'
  <2>1. p[1] \in Chains /\ p[2] \in Chains
    BY DEF Pairs
  <2>2. CASE Wire(p[1], p[2])
    <3>1. packet' = packet
      BY <2>2 DEF Wire
    <3> QED
      BY <3>1 DEF QuorumInv
  <2> QED
    BY <1>1, <2>1, <2>2, SendStep
<1>2. CASE Deepen
  <2>1. /\ packet.status = "sent"
        /\ packet' = [packet EXCEPT !.depth = @ + 1]
    BY <1>2 DEF Deepen
  <2>2. /\ packet'.status = packet.status
        /\ packet'.src = packet.src /\ packet'.dst = packet.dst
        /\ packet'.wait = packet.wait /\ packet'.depth = packet.depth + 1
        /\ packet'.attested = packet.attested
    BY <2>1 DEF QuorumInv
  <2>3. /\ packet.src \in Chains /\ packet.dst \in Chains
        /\ packet.wait \in Nat /\ packet.depth \in Nat
        /\ packet.attested \in [Dvns -> Nat]
        /\ \A d \in Dvns : d.operator \notin Faulty => packet.attested[d] <= packet.depth
    BY <2>1 DEF QuorumInv
  <2>4. ASSUME NEW d \in Dvns, d.operator \notin Faulty
        PROVE  packet.attested[d] <= packet.depth + 1
    <3>1. packet.attested[d] \in Nat /\ packet.attested[d] <= packet.depth
      BY <2>3, <2>4
    <3> QED
      BY <2>3, <3>1
  <2>5. \A d \in Dvns : d.operator \notin Faulty => packet'.attested[d] <= packet'.depth
    BY <2>2, <2>4
  <2>6. packet'.depth \in Nat
    BY <2>2, <2>3
  <2>7. /\ packet'.status = "sent" /\ packet'.src \in Chains /\ packet'.dst \in Chains
        /\ packet'.wait \in Nat /\ packet'.attested \in [Dvns -> Nat]
    BY <2>1, <2>2, <2>3
  <2> QED
    BY <2>5, <2>6, <2>7 DEF QuorumInv
<1>3. CASE Verify
  BY <1>3, VerifyStep
<1>4. ASSUME NEW o \in Operators, Attest(o) \/ AttestFalsely(o)
      PROVE  QuorumInv'
  BY <1>4, AttestStep
<1>5. CASE UNCHANGED pathway
  BY <1>5 DEF pathway, QuorumInv
<1> QED
  BY <1>1, <1>2, <1>3, <1>4, <1>5 DEF PathwaysNext

-----------------------------------------------------------------------------
(* The tables of consts/mainnet.ts as layerzero.mainnet.config.ts combines *)
(* them: at no moment of the wiring does a receive config that is set      *)
(* verify a packet before it lies as deep as its own chain demands,        *)
(* whatever the DVNs below the threshold say and whatever the endpoint's   *)
(* default asked of the others, for any number of chains and operators.    *)
THEOREM VerifiedIsDeep == PathwaysSpec => DeepEnough
<1>1. QuorumInv /\ [PathwaysNext]_pathway
        => [packet.status = "sent" /\ packet'.status = "verified" =>
              IF receive_set[<<packet.dst, packet.src>>]
                THEN packet.depth >= CONFIRMATIONS[packet.src]
                ELSE \/ packet.depth >= DefaultConfirmations[packet.src]
                     \/ DefaultOperator \in Faulty]_pathway
  <2> SUFFICES ASSUME QuorumInv, PathwaysNext, packet.status = "sent",
                      packet'.status = "verified"
               PROVE  Verify
    BY VerifyStep
  <2>1. ASSUME NEW p \in Pairs, Wire(p[1], p[2]) \/ Send(p[1], p[2]) PROVE FALSE
    <3>1. CASE Wire(p[1], p[2])
      BY <3>1 DEF Wire
    <3>2. CASE Send(p[1], p[2])
      <4>1. packet = NotSent /\ NotSent.status = "not sent"
        BY <3>2 DEF Send, NotSent
      <4> QED
        BY <4>1
    <3> QED
      BY <2>1, <3>1, <3>2
  <2>2. ASSUME Deepen PROVE FALSE
    <3>1. packet'.status = packet.status
      BY <2>2 DEF Deepen, QuorumInv
    <3> QED
      BY <3>1
  <2>3. ASSUME NEW o \in Operators, Attest(o) \/ AttestFalsely(o) PROVE FALSE
    <3>1. packet'.status = packet.status
      BY <2>3, AttestStep
    <3> QED
      BY <3>1
  <2> QED
    BY <2>1, <2>2, <2>3 DEF PathwaysNext
<1> QED
  BY <1>1, QuorumInvInit, QuorumInvNext, PTL DEF PathwaysSpec, DeepEnough

=============================================================================
