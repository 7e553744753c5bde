------------------------------ MODULE Pathways ------------------------------
(***************************************************************************)
(* The pathways the LayerZero configuration wires between the chains, and  *)
(* how a packet gets verified over them.  The configuration is applied by  *)
(* transactions of the adapters' owner, one per setting and end, in any    *)
(* order, while people already send.  Packets do not meet: one is followed.*)
(*                                                                         *)
(* External, modelled from what the configuration is for: the endpoint's   *)
(* message libraries.  A send hires the DVNs of the sender's send config;  *)
(* each attests at the receiver, from its address there, how many blocks   *)
(* it saw on top; the receive config says whose word counts and how many   *)
(* of them it takes.  Where nothing is set the endpoint's default holds:   *)
(* one DVN of anybody's, and a number of blocks of its own.                *)
(***************************************************************************)
EXTENDS Integers, FiniteSets

CONSTANTS
    Chains,
    CONFIRMATIONS,              \* [Chains -> Nat]
    Operators,                  \* who runs DVNs
    OPTIONAL_DVNS,              \* where the table names one of theirs
    OPTIONAL_DVNS_THRESHOLD,
    DefaultOperator,            \* whose DVN the endpoint takes by default,
    DefaultConfirmations,       \* and after how many blocks of the source
    Faulty                      \* operators that attest anything, or nothing

ASSUME PathwaysAssumption ==
    /\ CONFIRMATIONS \in [Chains -> Nat \ {0}]
    /\ OPTIONAL_DVNS \in [Operators -> SUBSET Chains]
    /\ OPTIONAL_DVNS_THRESHOLD \in Nat
    /\ DefaultConfirmations \in [Chains -> Nat \ {0}]
    /\ IsFiniteSet(Operators) /\ DefaultOperator \in Operators
    /\ Faulty \subseteq Operators
    /\ \A c \in Chains :
          /\ Cardinality({o \in Faulty : c \in OPTIONAL_DVNS[o]})
                < OPTIONAL_DVNS_THRESHOLD
          /\ Cardinality({o \in Operators \ Faulty : c \in OPTIONAL_DVNS[o]})
                >= OPTIONAL_DVNS_THRESHOLD

-----------------------------------------------------------------------------
(* The tables.  A DVN's address is named by its operator and its chain.    *)

Dvn(operator, chain) == [operator |-> operator, chain |-> chain]
Dvns == [operator: Operators, chain: Chains]

getOptionalDVNs(chain) == {Dvn(o, chain) : o \in {o \in Operators : chain \in OPTIONAL_DVNS[o]}}

Uln(confirmations, dvns, threshold) ==
    [confirmations |-> confirmations, dvns |-> dvns, threshold |-> threshold]

(* Mutant: the sender waits as long as the other end's chain asks for.     *)
send_confirmations_of_to(from, to) ==
    Uln(CONFIRMATIONS[to], getOptionalDVNs(from), OPTIONAL_DVNS_THRESHOLD)

sendConfig(from, to) ==
    Uln(CONFIRMATIONS[from], getOptionalDVNs(from), OPTIONAL_DVNS_THRESHOLD)

(* Mutant: the confirmations of the wrong end.                             *)
receive_confirmations_of_from(from, to) ==
    Uln(CONFIRMATIONS[from], getOptionalDVNs(from), OPTIONAL_DVNS_THRESHOLD)

(* On `from`, for what `to` sends: the confirmations are those of `to`.    *)
receiveConfig(from, to) ==
    Uln(CONFIRMATIONS[to], getOptionalDVNs(from), OPTIONAL_DVNS_THRESHOLD)

defaultConfig(at, source) ==
    Uln(DefaultConfirmations[source], {Dvn(DefaultOperator, at)}, 1)

-----------------------------------------------------------------------------
VARIABLES
    peer, send_set, receive_set,    \* on one chain for another: is it set?
    packet                          \* what was sent, and what became of it

wiring  == <<peer, send_set, receive_set>>
pathway == <<wiring, packet>>

Pairs == {p \in Chains \X Chains : p[1] # p[2]}

NotSent == [status |-> "not sent"]

(* hired: the operators, and how many blocks they are to wait for; depth:  *)
(* the blocks on top of it; attested: what each DVN has said.              *)
Sent(src, dst) ==
    LET uln == IF send_set[<<src, dst>>] THEN sendConfig(src, dst)
                                         ELSE defaultConfig(src, src)
    IN  [status |-> "sent", src |-> src, dst |-> dst, wired |-> send_set[<<src, dst>>],
         hired |-> {d.operator : d \in uln.dvns}, wait |-> uln.confirmations,
         depth |-> 0, attested |-> [d \in Dvns |-> 0]]

PathwaysInit ==
    /\ peer = [p \in Pairs |-> FALSE]
    /\ send_set = [p \in Pairs |-> FALSE]
    /\ receive_set = [p \in Pairs |-> FALSE]
    /\ packet = NotSent

(* The owner's transactions for one connection from -> to.                 *)
Wire(from, to) ==
    /\ \/ peer' = [peer EXCEPT ![<<from, to>>] = TRUE] /\ UNCHANGED <<send_set, receive_set>>
       \/ send_set' = [send_set EXCEPT ![<<from, to>>] = TRUE] /\ UNCHANGED <<peer, receive_set>>
       \/ receive_set' = [receive_set EXCEPT ![<<from, to>>] = TRUE] /\ UNCHANGED <<peer, send_set>>
    /\ UNCHANGED packet

Send(src, dst) ==
    /\ packet = NotSent
    /\ peer[<<src, dst>>]
    /\ packet' = Sent(src, dst)
    /\ UNCHANGED wiring

(* Another block on its chain, up to the number that counts.               *)
Deepen ==
    /\ packet.status = "sent"
    /\ \/ packet.depth < CONFIRMATIONS[packet.src]
       \/ packet.depth < DefaultConfirmations[packet.src]
    /\ packet' = [packet EXCEPT !.depth = @ + 1]
    /\ UNCHANGED wiring

(* A working DVN attests the blocks it was hired to wait for.              *)
Attest(operator) ==
    /\ packet.status = "sent"
    /\ operator \in packet.hired \ Faulty
    /\ packet.depth >= packet.wait
    /\ packet' = [packet EXCEPT !.attested[Dvn(operator, packet.dst)] = packet.wait]
    /\ UNCHANGED wiring

(* A faulty one attests more than there are.                               *)
AttestFalsely(operator) ==
    /\ packet.status = "sent"
    /\ operator \in Faulty
    /\ \E blocks \in {CONFIRMATIONS[packet.src], DefaultConfirmations[packet.src]} :
          packet' = [packet EXCEPT !.attested[Dvn(operator, packet.dst)] = blocks]
    /\ UNCHANGED wiring

Verify ==
    /\ packet.status = "sent"
    /\ LET uln == IF receive_set[<<packet.dst, packet.src>>]
                     THEN receiveConfig(packet.dst, packet.src)
                     ELSE defaultConfig(packet.dst, packet.src)
           heard == {d \in uln.dvns : packet.attested[d] >= uln.confirmations}
       IN  Cardinality(heard) >= uln.threshold
    /\ packet' = [packet EXCEPT !.status = "verified"]
    /\ UNCHANGED wiring

PathwaysNext ==
    \/ \E p \in Pairs : Wire(p[1], p[2]) \/ Send(p[1], p[2])
    \/ Deepen \/ Verify
    \/ \E o \in Operators : Attest(o) \/ AttestFalsely(o)

(* Blocks are built, working DVNs do what they are paid for, and anyone    *)
(* may commit a verification.                                              *)
Fairness == /\ WF_pathway(Deepen) /\ WF_pathway(Verify)
            /\ \A o \in Operators : WF_pathway(Attest(o))

PathwaysSpec == PathwaysInit /\ [][PathwaysNext]_pathway /\ Fairness

-----------------------------------------------------------------------------
(* Once the receive config of a pathway is set nothing is verified over it *)
(* before it lies as deep as its own chain is to be trusted, whoever was   *)
(* hired for it and told to wait for less, and whatever DVNs below the     *)
(* threshold attest.  Until then the default decides, and can say nothing  *)
(* if its one DVN is faulty.                                               *)
DeepEnough ==
    [][packet.status = "sent" /\ packet'.status = "verified" =>
         IF receive_set[<<packet.dst, packet.src>>]
           THEN packet.depth >= CONFIRMATIONS[packet.src]
           ELSE \/ packet.depth >= DefaultConfirmations[packet.src]
                \/ DefaultOperator \in Faulty]_pathway

(* Sent under the send config of its pathway, the receive config set.      *)
Wired == /\ packet.status = "sent"
         /\ packet.wired
         /\ receive_set[<<packet.dst, packet.src>>]

(* What was sent under the send config of its pathway is verified once the *)
(* receive config of the other end is set: the two agree on the DVNs and   *)
(* their number of blocks, in both directions between chains that differ   *)
(* in it, and the DVNs that fail are not needed.                           *)
VerifiedInTheEnd == Wired ~> packet.status = "verified"

=============================================================================
