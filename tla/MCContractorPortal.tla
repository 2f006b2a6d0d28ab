-------------------------- MODULE MCContractorPortal --------------------------
(***************************************************************************)
(* One city, facility and premise, two contractors and two work types; one *)
(* responsibility is there and one may be added.  A user of the first      *)
(* contractor's, who may become one of both.                               *)
(***************************************************************************)
EXTENDS ContractorPortal, TLC

CONSTANTS x, f, p, c1, c2, w1, w2, q1, q2, u1, u2, custom

MCRoleSets == {{"CONTRACTOR_MANAGER"}, {"CONTRACTOR_USER", custom}}

MCStartRows ==
  [r \in Row |->
     CASE r = f  -> [Blank(TRUE) EXCEPT !.city = x]
       [] r = p  -> [Blank(TRUE) EXCEPT !.facility = f]
       [] r = q1 -> [Blank(TRUE) EXCEPT !.priority = 1, !.city = x, !.contractor = c1, !.work_type = w1]
       [] r \in Responsibility \ {q1} -> None
       [] OTHER -> Blank(TRUE)]

For(city, facility, c, w) ==
  [Blank(TRUE) EXCEPT !.priority = 1, !.city = city, !.facility = facility, !.contractor = c, !.work_type = w]

MCInputs ==
  [r \in Row |->
     CASE r \in {f, p} -> {MCStartRows[r]}
       [] r = q1 -> {MCStartRows[q1], For(x, f, c2, w1)}
       [] r \in Responsibility \ {q1} -> {For(None, None, c2, w2), [For(x, None, c2, w1) EXCEPT !.priority = 2]}
       [] r \in Contractor \cup WorkType -> {Blank(TRUE), Blank(FALSE)}
       [] OTHER -> {Blank(TRUE)}]

MCMembershipSets == {{}, {<<c1, TRUE>>, <<c2, TRUE>>}, {<<c1, FALSE>>}}

MCStartUsers ==
  [u \in User |-> IF u = u1
     THEN [user_type |-> "CONTRACTOR", is_active |-> TRUE, roles |-> {"CONTRACTOR_MANAGER"},
           memberships |-> {<<c1, TRUE>>}]
     ELSE None]

\* Nothing yet, a draft, or a request that both contractors work on.
MCStartRequests ==
  LET Draft(works, published) ==
        [city |-> x, facility |-> f, premise |-> p, works |-> works, published |-> published]
      Nothing == [w \in WorkType |-> None]
  IN {[request |-> None, assignments |-> Nothing],
      [request |-> Draft({w1}, FALSE), assignments |-> Nothing],
      [request |-> Draft({w1, w2}, TRUE), assignments |-> [w \in WorkType |-> IF w = w1 THEN c1 ELSE c2]]}

MCSymmetry == Permutations(Session)
=============================================================================
