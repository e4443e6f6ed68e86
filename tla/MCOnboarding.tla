---------------------------- MODULE MCOnboarding ----------------------------
(***************************************************************************)
(* Small instances of Onboarding.  Which requests are sent is chosen at    *)
(* the start of a behaviour, so that those that never meet are not         *)
(* combined: two of each by one user, one of each by two users, or the     *)
(* decisions of several administrators about one vendor.                   *)
(***************************************************************************)
EXTENDS Onboarding, TLC

CONSTANTS u1, u2, g1, g2, g3, a1, a2, a3, o1, o2, o3

\* The second user sends g3, a3 and o3.
SmallUserOf ==
    [r \in Registrations \cup Applications \cup Openings |->
        IF r \in {g3, a3, o3} THEN u2 ELSE u1]

Workloads == {{g1, g2, a1, a2, o1, o2} \cup Updates,
              {g1, g3, a1, a3, o1, o3} \cup Updates,
              {g1, a1} \cup Decisions}

VARIABLE workload   \* the requests that are sent in this behaviour

Sent == {r \in Requests : pc[r] # "new"} \subseteq workload

MCInit == Init /\ workload \in Workloads

MCNext == Next /\ UNCHANGED workload /\ Sent'

MCSpec == MCInit /\ [][MCNext]_<<vars, workload>>

Symmetry == Permutations(Slugs) \cup Permutations(Reviews)
                \cup Permutations(Activations) \cup Permutations(Updates)
============================================================================
