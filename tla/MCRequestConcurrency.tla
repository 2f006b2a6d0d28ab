------------------------- MODULE MCRequestConcurrency -------------------------
(***************************************************************************)
(* Small instances of RequestConcurrency: two work types, two contractors  *)
(* and the sessions of one server.                                         *)
(***************************************************************************)
EXTENDS RequestConcurrency, TLC

CONSTANTS w1, w2, c1, c2, s1, s2

\* A contractor for each work type; the second one's may be missing; the first one's
\* may change as well.
MCFixed   == w1 :> {c1} @@ w2 :> {c2}
MCLater   == w1 :> {c1} @@ w2 :> {c2, NoContractor}
MCChanges == w1 :> {c1, c2} @@ w2 :> {c2, NoContractor}

\* Each contractor in a session of its own; both in the only session; the first one
\* in both; nobody.
MCOwnSessions    == s1 :> {c1} @@ s2 :> {c2}
MCOneSession     == s1 :> {c1, c2}
MCSameContractor == s1 :> {c1} @@ s2 :> {c1}
MCNoReports      == s1 :> {} @@ s2 :> {}

\* Two sessions that do the same.
MCSymmetry == Permutations({s1, s2})
=============================================================================
