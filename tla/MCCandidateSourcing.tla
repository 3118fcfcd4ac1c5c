------------------------ MODULE MCCandidateSourcing ------------------------
(***************************************************************************)
(* A small instance of CandidateSourcing for TLC.                          *)
(***************************************************************************)
EXTENDS CandidateSourcing, TLC

Person(email, linkedin, origin) ==
  [email |-> email, linkedin |-> linkedin, origin |-> origin]

\* Nothing to reach the person by; a locked address, without Apollo's id.
MCProfiles == {Person("none", FALSE, "apollo"),
               Person("locked", FALSE, "apollo without id")}

\* A locked e-mail; none, but a LinkedIn profile.
MCMatches == {[email |-> "locked", linkedin |-> FALSE],
              [email |-> "none", linkedin |-> TRUE]}

\* A form that names a channel and no address.
MCForms == {[email |-> FALSE, linkedin |-> FALSE]}

Symmetry == Permutations(Calls)
=============================================================================
