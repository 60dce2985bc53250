------------------------- MODULE MCTerminalSessions -------------------------
(***************************************************************************)
(* Small instances of TerminalSessions.  Two users share an organization's  *)
(* pool; the second one launches on a role plan with a tighter cap.        *)
(***************************************************************************)
EXTENDS TerminalSessions, TLC

CONSTANTS u1, u2, o1, l1, l2

(* The threads are interchangeable; no liveness is checked with it. *)
Threads == Permutations(Procs)

McMembers == [o \in {o1} |-> Users]

OrgLaunch(u, cap) ==
    [user |-> u, org |-> o1, persistent |-> FALSE, cpu |-> 1, mem |-> 1,
     scope |-> o1, maxCPU |-> cap, maxMem |-> 0]

(* Two launches that do not fit together in the organization's pool, of      *)
(* plans with different caps.                                              *)
McTwo == [l \in {l1, l2} |->
             CASE l = l1 -> [OrgLaunch(u1, 3) EXCEPT !.cpu = 2, !.persistent = TRUE]
               [] l = l2 -> [OrgLaunch(u2, 2) EXCEPT !.cpu = 2]]

(* One launch, of a plan whose containers persist. *)
McOne == [l \in {l1} |-> [OrgLaunch(u1, 1) EXCEPT !.persistent = TRUE]]
=============================================================================
