-------------------------- MODULE ProposalLifecycle --------------------------
(***************************************************************************)
(* What the ChangeProposal pipeline promises, as docs/02-agent-and-        *)
(* guardrails.md draws it: a proposal is pending until an operator decides *)
(* it once; only an approved proposal may touch its device, and then only  *)
(* with the configuration that was proposed; executed, failed, stale and   *)
(* rejected are final.  How ticks, sessions and locks bring this about is  *)
(* the business of ChangeProposals, which is shown to implement it.        *)
(***************************************************************************)
CONSTANTS Proposals, Devices, Kinds, Specs

VARIABLES
    state,      \* Proposals -> lifecycle state
    content,    \* Proposals -> what was proposed, for which device
    running,    \* Devices -> the configurations of which it runs anything
    applied     \* proposals whose configuration was sent to the device

lifecycleVars == <<state, content, running, applied>>

Contents == [kind: Kinds, device: Devices, intended: Specs]

LifecycleInit ==
    /\ state = [p \in Proposals |-> "absent"]
    /\ content = [p \in Proposals |-> [kind |-> "nothing"]]
    /\ running = [d \in Devices |-> {}]
    /\ applied = {}

Author(p) ==
    /\ state[p] = "absent"
    /\ state' = [state EXCEPT ![p] = "pending"]
    /\ \E x \in Contents : content' = [content EXCEPT ![p] = x]
    /\ UNCHANGED <<running, applied>>

Resolution(p, decision) ==
    /\ state[p] = "pending"
    /\ state' = [state EXCEPT ![p] = decision]
    /\ UNCHANGED <<content, running, applied>>

(* A push may be repeated as long as its outcome is not on record.  The    *)
(* device takes all of it, part of it or nothing.                          *)
Apply(p) ==
    /\ state[p] = "approved"
    /\ LET d == content[p].device
           c == content[p].intended
       IN  \E held \in {{c}, running[d] \cup {c}, running[d]} :
              running' = [running EXCEPT ![d] = held]
    /\ applied' = applied \cup {p}
    /\ UNCHANGED <<state, content>>

Finish(p, outcome) ==
    /\ state[p] = "approved"
    /\ outcome = "executed" => p \in applied
    /\ state' = [state EXCEPT ![p] = outcome]
    /\ UNCHANGED <<content, running, applied>>

LifecycleNext ==
    \E p \in Proposals :
        \/ Author(p)
        \/ Resolution(p, "approved")
        \/ Resolution(p, "rejected")
        \/ Apply(p)
        \/ \E outcome \in {"executed", "failed", "stale"} : Finish(p, outcome)

Lifecycle == LifecycleInit /\ [][LifecycleNext]_lifecycleVars
=============================================================================
