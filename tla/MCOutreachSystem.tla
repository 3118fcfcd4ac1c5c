-------------------------- MODULE MCOutreachSystem --------------------------
(***************************************************************************)
(* A small instance of OutreachSystem for TLC: one candidate, contacted by *)
(* e-mail by one lifecycle or outreach run, with its retries.              *)
(***************************************************************************)
EXTENDS OutreachSystem, TLC

W == INSTANCE WorkflowScripts

EmailInput == W!Input(<<"email">>, {"email"}, "ingested", <<>>)
MCKeys == {<<"email", 0>>}

\* The same with the follow-up the API prepares once the first mail was sent.
WithFollowUp == {<<"email", 0>>, <<"follow-up", 1>>}
MCFollowUps == {<<"follow-up", 1>>}
MCThreads == {[first |-> <<"email", 0>>, steps |-> << <<"follow-up", 1>> >>, cadence |-> {}]}

\* The workflow whose first message the AI writes.
OnlyLifecycle == {W!Lifecycle(EmailInput)}

\* Retries are the outreach run's; the lifecycle's three attempts are cut to one.
FewAttempts ==
  {[W!Lifecycle(EmailInput) EXCEPT !.attempts = 1], W!Outreach(EmailInput)}
=============================================================================
