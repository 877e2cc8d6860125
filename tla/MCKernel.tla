------------------------------ MODULE MCKernel ------------------------------
(* Small instances of the execution kernel for TLC.                        *)
EXTENDS ProspectStore

\* One run over two sources.
OneRun        == {"r1"}
TwoShards     == {"s1", "s2"}
OneRunOf      == [s \in TwoShards |-> "r1"]
TwoRank       == [s \in TwoShards |-> IF s = "s1" THEN 1 ELSE 2]
OneProvider   == {"p1"}
OneProviderOf == [s \in TwoShards |-> "p1"]
TwoScopes     == {"c1", "c2"}
TwoScopeOf    == [s \in TwoShards |-> IF s = "s1" THEN "c1" ELSE "c2"]

\* One run over one source.
OneShard         == {"s1"}
OneShardOf       == [s \in OneShard |-> "r1"]
OneShardRank     == [s \in OneShard |-> 1]
OneShardProvider == [s \in OneShard |-> "p1"]
OneShardScope    == [s \in OneShard |-> "c1"]
OneScope         == {"c1"}

\* Two runs of one strategy, which read the same source one after the other.
TwoRuns     == {"r1", "r2"}
TwoRunOf    == [s \in TwoShards |-> IF s = "s1" THEN "r1" ELSE "r2"]
SameScopeOf == [s \in TwoShards |-> "c1"]

\* Two runs, the second over the source of the first and one of its own, which
\* it reads before.
ThreeShards     == {"s1", "s2", "s3"}
ThreeShardOf    == [s \in ThreeShards |-> IF s = "s1" THEN "r1" ELSE "r2"]
ThreeRank       == [s \in ThreeShards |-> CASE s = "s1" -> 1 [] s = "s2" -> 2
                                              [] s = "s3" -> 3]
ThreeProviderOf == [s \in ThreeShards |-> "p1"]
ThreeScopeOf    == [s \in ThreeShards |-> IF s = "s2" THEN "c2" ELSE "c1"]

\* The provider's answers: a page of n results, or a failure.
Page(n, more, partial) == [ok |-> TRUE, accepted |-> n, more |-> more,
                           partial |-> partial, retryable |-> FALSE]
Failure(retryable) == [ok |-> FALSE, accepted |-> 0, more |-> FALSE,
                       partial |-> FALSE, retryable |-> retryable]

OneAnswer  == {Page(1, FALSE, FALSE)}
FewAnswers == {Page(1, TRUE, FALSE), Page(0, FALSE, FALSE), Failure(TRUE)}
Answers    == {Page(1, TRUE, FALSE), Page(2, FALSE, FALSE), Page(0, TRUE, TRUE),
               Failure(TRUE), Failure(FALSE)}
=============================================================================
