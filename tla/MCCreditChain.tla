---------------------------- MODULE MCCreditChain ----------------------------
\* The services of the repository and what its commands post to.
EXTENDS CreditChain

CONSTANTS application, feature, scoring, decision, assistant, audit

AllProducers == {application, feature, scoring, decision, assistant}

ConsumesFrom ==
  [s \in AllProducers |->
    CASE s = feature   -> application
      [] s = scoring   -> feature
      [] s = decision  -> scoring
      [] s = assistant -> decision
      [] OTHER         -> None]

\* The first three of them: an evaluation posts to two.
FirstThree == {application, feature, scoring}
FirstConsumeFrom == [s \in FirstThree |-> ConsumesFrom[s]]

Evaluation == {<<feature, scoring, decision>>}
IntakeOrEvaluation == {<<application>>, <<feature, scoring>>, <<scoring, scoring>>}

=============================================================================
