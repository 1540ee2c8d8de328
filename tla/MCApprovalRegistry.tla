-------------------------- MODULE MCApprovalRegistry --------------------------
\* One user asks for both escalations; a second one can press the buttons too.
EXTENDS ApprovalRegistry

CONSTANTS r1, r2, alice, bob

MCRequester == [r \in {r1, r2} |-> alice]

=============================================================================
