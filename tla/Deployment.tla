----------------------------- MODULE Deployment -----------------------------
(***************************************************************************)
(* The deployer's scripts on one EVM chain: deploy (the token, the adapter,*)
(* the adapter's roles) and transfer-erc20-admin.  A script is a sequence  *)
(* of awaited steps and may be cut off between any two: a crash, a refused *)
(* prompt, an error, a node that does not answer.  The operator runs the   *)
(* scripts one at a time, in any order, again and again.  The parts of     *)
(* deploy have tags of their own: a run of the first part is a run cut off,*)
(* one of the second a run that finds the first on record.                 *)
(*                                                                         *)
(* What outlives a run are the records in deployments/, the chain, and the *)
(* transactions sent and not yet mined.  External: hardhat-deploy (creates *)
(* what is not recorded, or differs from the record, and records it),      *)
(* ethers (the gas estimate fails for a call that would revert), the       *)
(* mempool (in the order of the nonces; the last may be forgotten), and    *)
(* HyperEVM's two sizes of blocks.                                         *)
(***************************************************************************)
EXTENDS Integers, Sequences

CONSTANTS
    Signer, Owner,      \* the deployer; the intended owner, a multisig
    HyperEvm,           \* is this HyperEVM, with its small blocks?
    MaxBuild,           \* bound on the builds of the adapter
    MaxPending          \* bound on the transactions not yet mined

ASSUME DeploymentAssumption ==
    /\ Signer # Owner
    /\ HyperEvm \in BOOLEAN
    /\ MaxBuild \in Nat \ {0} /\ MaxPending \in Nat

VARIABLES
    records, adapter,   \* deployments/: the token's parts; the adapter's build
    build,              \* the build in artifacts/
    big,                \* are the signer's transactions put in big blocks?
    admins, holders,    \* DEFAULT_ADMIN_ROLE; MINTER_ROLE and BURNER_ROLE
    pending,            \* the signer's transactions under way
    receipt,            \* what became of the last one
    pc, fresh,          \* the script: its next step, the record it looked up
    stranded,           \* history: a run was cut off before its way back
    ended,              \* history: the last deployment ended well
    failed,             \* history: the roles whose last grant, to the adapter
                        \* on record, was forgotten or reverted
    left                \* history: the owner left since the task looked

chain   == <<admins, holders>>
mempool == <<pending, receipt>>
local   == <<pc, fresh>>
files   == <<records, adapter, build>>
history == <<stranded, ended, failed, left>>
vars    == <<files, big, chain, mempool, local, history>>

Roles == {"MINTER_ROLE", "BURNER_ROLE"}
Idle == "idle"

Grant(role)  == [call |-> "grantRole", role |-> role, of |-> adapter]
GrantOwner   == [call |-> "grantRole", role |-> "DEFAULT_ADMIN_ROLE", of |-> 0]
Renounce     == [call |-> "renounceRole", role |-> "DEFAULT_ADMIN_ROLE", of |-> 0]

Init ==
    /\ records = {} /\ adapter = 0 /\ build = 1
    /\ big = FALSE
    /\ admins = {} /\ holders = [r \in Roles |-> {}]
    /\ pending = <<>> /\ receipt = "none"
    /\ pc = Idle /\ fresh = FALSE
    /\ stranded = FALSE /\ ended = FALSE /\ failed = {} /\ left = FALSE

Step(from, to) == pc = from /\ pc' = to

(* The estimate, on the latest state; then the transaction is sent.  Giving*)
(* up a role one does not have does not revert.                            *)
Submit(tx) ==
    /\ tx.call = "grantRole" => Signer \in admins
    /\ Len(pending) < MaxPending
    /\ pending' = Append(pending, tx)
    /\ receipt' = "none"

-----------------------------------------------------------------------------
(* deployToken                                                             *)

ProxyAdmin ==
    /\ Step(Idle, "token blocks")
    /\ records' = records \cup {"ProxyAdmin"}
    /\ ended' = FALSE
    /\ UNCHANGED <<adapter, build, big, chain, mempool, fresh, stranded,
                   failed, left>>

(* getOrNull(contractName): the last record deployToken makes.             *)
token_is_new == "WXRPToken" \notin records

TokenBlocks ==
    /\ Step("token blocks", "implementation")
    /\ fresh' = token_is_new
    /\ big' = (big \/ (HyperEvm /\ fresh'))
    /\ UNCHANGED <<files, chain, mempool, history>>

(* More than a small block has gas for.                                    *)
Implementation ==
    /\ Step("implementation", "token done")
    /\ "Implementation" \in records \/ (HyperEvm => big)
    /\ records' = records \cup {"Implementation"}
    /\ UNCHANGED <<adapter, build, big, chain, mempool, fresh, history>>

TokenDone ==
    /\ Step("token done", "proxy")
    /\ big' = (big /\ ~(HyperEvm /\ fresh))
    /\ UNCHANGED <<files, chain, mempool, fresh, history>>

(* initialize(signer) is part of the creation.                             *)
Proxy ==
    /\ Step("proxy", "save")
    /\ records' = records \cup {"Proxy"}
    /\ admins' = IF "Proxy" \in records THEN admins ELSE {Signer}
    /\ UNCHANGED <<adapter, build, big, holders, mempool, fresh, history>>

Save ==
    /\ Step("save", "adapter blocks")
    /\ records' = records \cup {"WXRPToken"}
    /\ UNCHANGED <<adapter, build, big, chain, mempool, fresh, history>>

(* deployMaba                                                              *)

AdapterBlocks ==
    /\ Step("adapter blocks", "adapter")
    /\ fresh' = (adapter = 0)
    /\ big' = (big \/ (HyperEvm /\ fresh'))
    /\ UNCHANGED <<files, chain, mempool, history>>

(* skipIfAlreadyDeployed: false, so a new build is a new contract.         *)
Adapter ==
    /\ Step("adapter", "adapter done")
    /\ adapter = build \/ (HyperEvm => big)
    /\ adapter' = build
    /\ UNCHANGED <<records, build, big, chain, mempool, fresh, history>>

(* Mutant: the record is looked up again, and is there by now.             *)
AdapterDoneReread ==
    /\ Step("adapter done", "minter?")
    /\ big' = (big /\ ~(HyperEvm /\ adapter = 0))
    /\ UNCHANGED <<files, chain, mempool, fresh, history>>

AdapterDone ==
    /\ Step("adapter done", "minter?")
    /\ big' = (big /\ ~(HyperEvm /\ fresh))
    /\ UNCHANGED <<files, chain, mempool, fresh, history>>

(* grantRoles                                                              *)

(* Mutant: the same role is looked at twice.                               *)
granted_minter(role) == adapter \in holders["MINTER_ROLE"]

granted(role) == adapter \in holders[role]

HasRole(role, here, send, next) ==
    /\ pc = here
    /\ pc' = IF granted(role) THEN next ELSE send
    /\ ended' = (pc' = Idle)
    /\ UNCHANGED <<files, big, chain, mempool, fresh, stranded, failed, left>>

(* Sent, not awaited.                                                      *)
GrantRole(role, send, next) ==
    /\ Step(send, next)
    /\ Submit(Grant(role))
    /\ ended' = (next = Idle)
    /\ failed' = failed \ {role}
    /\ UNCHANGED <<files, big, chain, fresh, stranded, left>>

grantRoles ==
    \/ HasRole("MINTER_ROLE", "minter?", "minter!", "burner?")
    \/ GrantRole("MINTER_ROLE", "minter!", "burner?")
    \/ HasRole("BURNER_ROLE", "burner?", "burner!", Idle)
    \/ GrantRole("BURNER_ROLE", "burner!", Idle)

Deploy == \/ ProxyAdmin \/ TokenBlocks \/ Implementation \/ TokenDone \/ Proxy \/ Save
          \/ AdapterBlocks \/ Adapter \/ AdapterDone
          \/ grantRoles

-----------------------------------------------------------------------------
(* transfer-erc20-admin                                                    *)

Read(from, to) == Step(from, to) /\ UNCHANGED <<files, big, chain, mempool, fresh, history>>

Await(from, to) == receipt = "mined" /\ Read(from, to)

owner_is_admin == Owner \in admins

grantIntendedOwner ==
    \/ "WXRPToken" \in records /\ owner_is_admin /\ Read(Idle, "signer?")
    \/ "WXRPToken" \in records /\ ~owner_is_admin /\ Read(Idle, "signer is admin?")
    \/ Signer \in admins /\ Read("signer is admin?", "grant owner")
    \/ /\ Step("grant owner", "owner granted") /\ Submit(GrantOwner)
       /\ UNCHANGED <<files, big, chain, fresh, history>>
    \/ Await("owner granted", "signer?")

(* Mutant: the owner was an admin a moment ago.                            *)
renounce_anyway == TRUE

may_renounce == owner_is_admin

(* The roles are read, the operator is asked, the role is renounced.       *)
renounceSigner ==
    \/ Signer \notin admins /\ Read("signer?", Idle)
    \/ Signer \in admins /\ Read("signer?", "owner?")
    \/ ~may_renounce /\ Read("owner?", Idle)
    \/ /\ may_renounce /\ Step("owner?", "renounce")
       /\ left' = FALSE
       /\ UNCHANGED <<files, big, chain, mempool, fresh, stranded, ended, failed>>
    \/ /\ Step("renounce", "renounced") /\ Submit(Renounce)
       /\ UNCHANGED <<files, big, chain, fresh, history>>
    \/ Await("renounced", Idle)

TransferAdmin == grantIntendedOwner \/ renounceSigner

-----------------------------------------------------------------------------
(* The world around a script.                                              *)

(* Cut off with the adapter new on record and the signer switched: no      *)
(* later run sees a new adapter, so none switches back.                    *)
Cut ==
    /\ pc # Idle
    /\ pc' = Idle /\ fresh' = FALSE
    /\ stranded' = (stranded \/ (pc = "adapter done" /\ fresh /\ big))
    /\ UNCHANGED <<files, big, chain, mempool, ended, failed, left>>

Rebuild ==
    /\ pc = Idle /\ build < MaxBuild
    /\ build' = build + 1
    /\ UNCHANGED <<records, adapter, big, chain, mempool, local, history>>

lost(tx) == IF tx.of = adapter THEN Roles \cap {tx.role} ELSE {}

(* renounceRole of one who has no role succeeds and does nothing.          *)
Mine ==
    /\ pending # <<>>
    /\ LET tx == Head(pending)
           reverts == tx.call = "grantRole" /\ Signer \notin admins
       IN  /\ admins' = CASE reverts -> admins
                          [] tx = GrantOwner -> admins \cup {Owner}
                          [] tx = Renounce -> admins \ {Signer}
                          [] OTHER -> admins
           /\ holders' = IF reverts \/ tx.role \notin Roles THEN holders
                         ELSE [holders EXCEPT ![tx.role] = @ \cup {tx.of}]
           /\ receipt' = CASE Len(pending) > 1 -> receipt
                           [] reverts -> "reverted"
                           [] OTHER -> "mined"
           /\ failed' = failed \cup (IF reverts THEN lost(tx) ELSE {})
    /\ pending' = Tail(pending)
    /\ UNCHANGED <<files, big, local, stranded, ended, left>>

Forget ==
    /\ pending # <<>>
    /\ failed' = failed \cup lost(pending[Len(pending)])
    /\ pending' = SubSeq(pending, 1, Len(pending) - 1)
    /\ receipt' = "none"
    /\ UNCHANGED <<files, big, chain, local, stranded, ended, left>>

(* The multisig gives its role up, or takes the signer's.                  *)
OwnerActs ==
    /\ Owner \in admins
    /\ \E gone \in {Owner, Signer} :
          /\ admins' = admins \ {gone}
          /\ left' = (left \/ gone = Owner)
    /\ UNCHANGED <<files, big, holders, mempool, local, stranded, ended, failed>>

Next == Deploy \/ TransferAdmin \/ Cut \/ Rebuild \/ Mine \/ Forget \/ OwnerActs

Spec == Init /\ [][Next]_vars

-----------------------------------------------------------------------------
(* After a deployment that ended well the recorded adapter has both roles, *)
(* once nothing is pending, but for those whose last grant was forgotten or*)
(* reverted: the grants are not awaited, so that is not the script's to    *)
(* know, but another run makes up for it.  Runs cut off before, a new      *)
(* build, a handover in between make no difference.                        *)
RolesInPlace ==
    ended /\ pending = <<>> =>
        \A role \in Roles \ failed : adapter \in holders[role]

(* The token is left without an administrator only when the intended owner *)
(* gives its role up after the task has looked at it for the last time:    *)
(* while the operator is being asked, or the renouncement is under way.    *)
NeverOrphaned ==
    [][admins # {} /\ admins' = {} => left \/ left']_vars

(* Back in small blocks after a deployment that ended well, however many   *)
(* runs were cut off in between, if none was in the one step that a later  *)
(* run does not make up for: the adapter recorded, the signer not switched.*)
SmallAgain == ended /\ big => stranded

=============================================================================
