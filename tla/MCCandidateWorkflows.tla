----------------------- MODULE MCCandidateWorkflows -----------------------
(***************************************************************************)
(* Small instances of CandidateWorkflows for TLC, with the workflows of    *)
(* the worker as WorkflowScripts gives them.                               *)
(***************************************************************************)
EXTENDS CandidateWorkflows, TLC

W == INSTANCE WorkflowScripts

Both == <<"email", "linkedin">>
MCKeys == {"email", "linkedin"} \X (0..2)

\* Inputs the API or the command-line runner can pass: two channels; a channel
\* without an address; none; a closed candidate.
MCInputs ==
  {W!Input(Both, {"email", "linkedin"}, "ingested", <<5, 7>>),
   W!Input(<<"linkedin">>, {"email"}, "qualified", <<0>>),
   W!Input(<<>>, {}, "closed", <<5>>)}

\* Every workflow on every input.
AllWorkflows == UNION {W!Registered(input) : input \in MCInputs}

\* A candidate contacted by e-mail, and whatever else may run beside it.
EmailInput == W!Input(<<"email">>, {"email"}, "ingested", <<0>>)
SideBySide ==
  {W!Lifecycle(EmailInput), W!Outreach(EmailInput), W!Closure(EmailInput),
   W!TenantOnboarding}

PairKeys == {<<"email", 0>>}
SentRow == [status |-> "sent", approval |-> "sent", message |-> NoMessage]
PairEdits == {SentRow}

Symmetry == Permutations(Runs)
=============================================================================
